SPECIFICATION Spec
CONSTANTS
  Programs <- FirmwarePrograms
  Locs <- FirmwareLocs
  IoMask <- FirmwareMask
  Args <- FirmwareArgs
  PcBits = 12
  SREG = 95
  StackTop = 271
  Home = 0
  Entry = 1
  ByteValues = {0, 1, 127, 128, 255}
  Routines <- AllRoutines
INVARIANTS
  ArithmeticExact
  ProductsExact
  MemoryCopied
  CallsReturn
  SkipsWhole
PROPERTIES
  EveryRoutineReturns
