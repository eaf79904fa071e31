CONSTANTS
  Max = 7
  Channels <- MCChannels
  WgmOp <- MCWgmOp
  ComOp <- MCComOp
  Coms = {2}
  IcpValues = {0}
  Presc <- OnePresc
  RegValues = {0, 3, 7}
  ModeChanges <- MCModeChanges
SPECIFICATION Spec
PROPERTY MatchFlaggedInTime
