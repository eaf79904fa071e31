\* MCProgMem: matchpoints, writes, SPM, saves and restarts in any order.
SPECIFICATION Spec
CONSTANTS
  PmSize = 12
  flashend = 7
  PageBytes = 4
  RecordWords = 3
  Firmwares <- MCFirmwares
  Payloads <- MCPayloads
  Fills <- MCFills
  MaxOps = 5
INVARIANTS
  FlashRecoverable
  LoadsWhatWasSaved
\* The number of operations is bounded.
CHECK_DEADLOCK FALSE
