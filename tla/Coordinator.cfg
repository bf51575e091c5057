SPECIFICATION FairSpec
CONSTANTS
  Mode = "PAPER"
  HttpThreads = {"h1", "h2"}
  GrpcThreads = {}
  CoopThreads = {"c1", "c2"}
  HttpTexts = {"error"}
  SigtermSent = TRUE
  StopsDuringStartup = FALSE
  StartupMayFail = FALSE
  JoinTimeouts = FALSE
  Faults = FALSE
  LossySrm = TRUE
  MaxInterrupts = 0
INVARIANTS
  SingleStopBody
  FinalMatchesRequest
  NoTickAfterOnStop
PROPERTIES
  PhaseEdgesLegal
  NoHeartbeatAfterPhaseMoves
  ImplementsView
  StopEndsProcess
