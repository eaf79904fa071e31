\* MCRsp: two clients, packets refused, interrupts, clients that leave.
SPECIFICATION FairSpec
CONSTANTS
  c1 = c1
  c2 = c2
  None = None
  Clients <- MCClients
  MaxRequests <- MCMaxRequests
  MaxFaults = 1
  MaxInterrupts = 1
PROPERTIES ImplementsSession RequestsAnswered
\* The simulator may wait for a client forever, and clients are bounded.
CHECK_DEADLOCK FALSE
