CONSTANTS
  Max = 7
  Channels <- MCChannels
  WgmOp <- MCWgmOp
  ComOp <- MCComOp
  Coms = {2}
  IcpValues = {0}
  Presc <- MCPresc
  RegValues = {0, 3, 7}
  ModeChanges <- MCModeChanges
SPECIFICATION Spec
INVARIANTS TypeOK NeverPastTop FastPwmDuty DualSlopeDuty
PROPERTIES MatchFlaggedInTime
