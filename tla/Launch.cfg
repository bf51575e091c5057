SPECIFICATION Spec
CONSTANTS
  MaxAttempts = 2
  Versions = {1, 2}
  Files <- TwoFiles
  Has <- Dropped
  SkipDigest = TRUE
  Jobs <- AllJobs
  MaxLaunches = 3
  MaxFaults = 1
INVARIANTS
  TypeOK
  CodeIsThisLaunchs
  ReadyMeansSucceeded
  FailedStartIsKnown
PROPERTIES
  ToldAfterRecorded
CHECK_DEADLOCK FALSE
