SPECIFICATION FairSpec
CONSTANTS
  Bars = 5
  Warmup = 1
  PageSize = 2
  Broken <- OneBroken
  DriverOn = TRUE
  Pushers = {}
  Batches <- NoBatches
  Lo = 1
  Hi = 5
  MaxPushes = 0
  StopMayCome = TRUE
  Faults = TRUE
INVARIANTS
  CompletionIsWhole
  NoBarAfterOnStop
PROPERTIES
  ReplaysWindow
  JobEnds
