SPECIFICATION FairSpec
CONSTANTS
  Threads = {"main", "beat", "feed"}
  Callers = {"main", "feed"}
  Entries <- MCEntries
  Retries = 1
  Events <- MCEvents
  Hooks = {"bar"}
  Indicators <- MCIndicators
  Orders <- MCOrders
  MaxIntents = 1
  MaxEvents = 2
  MaxBeats = 1
  MaxFaults = 1
  MaxCrashes = 1
INVARIANTS
  TypeOK
  HookSeesItsEvent
  IntentDatedByItsEvent
  StoppedRowStays
PROPERTIES
  AnsweredIntentJournalled
  LinesFollowRows
  StopEnds
CHECK_DEADLOCK FALSE
