\* The synchronization writes bits of inputs.
SPECIFICATION Spec
CONSTANTS
  Regs = {"r0"}
  Ios = {"PORTB", "DDRB", "PINB", "PINC"}
  Ram = {}
  NoPort = NoPort
  NoReg = NoReg
  NoBit = NoBit
  Ports <- MCPorts
  Dumped <- MCDumped
  Bits = {0, 1}
  Models = 1
  MaxSteps = 2
PROPERTY
  InputsKept
\* The number of steps is bounded.
CHECK_DEADLOCK FALSE
