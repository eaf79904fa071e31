CONSTANTS
  Max = 3
  Channels <- MCChannels
  WgmOp <- CaptureWgmOp
  ComOp <- CaptureComOp
  Coms = {2}
  IcpValues = {0, 1}
  Presc <- MCPresc
  RegValues = {1, 3}
  ModeChanges <- CaptureModeChanges
SPECIFICATION Spec
PROPERTIES Overflows
