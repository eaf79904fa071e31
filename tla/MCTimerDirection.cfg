CONSTANTS
  Max = 7
  Channels <- MCChannels
  WgmOp <- MCWgmOp
  ComOp <- MCComOp
  Coms = {2}
  IcpValues = {0}
  Presc <- MCPresc
  RegValues = {3}
  ModeChanges <- LeaveDualSlope
SPECIFICATION Spec
PROPERTY SingleSlopeCountsUp
