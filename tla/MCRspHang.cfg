\* MCRspHang: the debugger leaves while the MCU runs, the next one comes.
SPECIFICATION FairSpec
CONSTANTS
  c1 = c1
  c2 = c2
  None = None
  Clients <- MCClients
  MaxRequests <- MCOneRequest
  MaxFaults = 0
  MaxInterrupts = 0
PROPERTY NextClientAccepted
\* The simulator may wait for a client forever, and clients are bounded.
CHECK_DEADLOCK FALSE
