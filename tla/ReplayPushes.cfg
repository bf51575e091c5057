SPECIFICATION Spec
CONSTANTS
  Bars = 5
  Warmup = 1
  PageSize = 2
  Broken <- FirstPageBroken
  DriverOn = TRUE
  Pushers = {"p1"}
  Batches <- RunBatches
  Lo = 1
  Hi = 5
  MaxPushes = 2
  StopMayCome = TRUE
  Faults = TRUE
INVARIANTS
  TypeOK
  StopIsPrompt
