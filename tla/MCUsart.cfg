\* The USART and its terminal.
SPECIFICATION Spec
CONSTANTS
  BUFSIZE = 2
  Typed = 3
  Chunk = 2
  Weight = 1
  Normal = 2
  Double = 1
  UdrWrites = 2
  Settings <- MCSettings
  MaxSettings = 2
INVARIANTS
  SentOnce
  ReadOnce
PROPERTY
  CloseReturns
\* The simulation ends.
CHECK_DEADLOCK FALSE
