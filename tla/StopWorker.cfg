SPECIFICATION FairSpec
CONSTANTS
  Mode = "PAPER"
  HttpThreads = {}
  GrpcThreads = {"g1", "g2"}
  CoopThreads = {"c1", "c2"}
  HttpTexts = {""}
  SigtermSent = FALSE
  StopsDuringStartup = FALSE
  StartupMayFail = TRUE
  JoinTimeouts = FALSE
  Faults = FALSE
  LossySrm = FALSE
  MaxInterrupts = 0
INVARIANTS
  FailureIsVisible
PROPERTIES
  ImplementsFairView
