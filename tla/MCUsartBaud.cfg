\* avr_m8a.c tells UBRRH from UCSRC by UMSEL.
SPECIFICATION Spec
CONSTANTS
  BUFSIZE = 2
  Typed = 0
  Chunk = 2
  Weight = 1
  Normal = 2
  Double = 1
  UdrWrites = 2
  Settings <- MCRates
  MaxSettings = 3
PROPERTY
  BaudAsWritten
CHECK_DEADLOCK FALSE
