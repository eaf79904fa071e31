\* MCProgMemExit: the program that comes back after a session with the debugger.
SPECIFICATION Spec
CONSTANTS
  PmSize = 12
  flashend = 7
  PageBytes = 4
  RecordWords = 2
  Firmwares <- MCFirmwares
  Payloads <- MCPayloads
  Fills <- MCFills
  MaxOps = 4
INVARIANT ProgramComesBack
\* The number of operations is bounded.
CHECK_DEADLOCK FALSE
