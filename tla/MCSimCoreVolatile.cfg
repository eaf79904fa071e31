CONSTANTS
  FlashEnd = 7
  PmSize = 10
  ResetPC = 0
  IVT = 1
  TimerVectors = {1}
  PerfVectors = {2}
  Programs <- MCPrograms
  MatchMemories <- MCMatchMemories
  DebugImages <- MCDebugImages
  DebugPCs <- MCDebugPCs
  LuaStates <- MCLuaStates
  Modes <- MCModes
  VolatileIO = TRUE
  MaxStack = 1
  TicksMax = 1
SPECIFICATION Spec
INVARIANT StepExecutesOne
