SPECIFICATION FairSpec
CONSTANTS
  MaxFaults = 1
  MaxRestarts = 1
  Feeds = {"bars"}
  Parts = 2
  Symbols <- TwoSymbols
  Crc <- BothInOne
  Configs <- AllSettings
  Shapes <- AllShapes
  Count = 2
  Kinds = {"own", "other", "badcash"}
  MaxUpdates = 2
INVARIANTS
  TypeOK
  ConsecutiveEntries
  GroupNeverTwice
  AckedWasHandled
  ViewNotOlderThanCall
PROPERTIES
  UpdatesShown
  StopFinishes
CHECK_DEADLOCK FALSE
