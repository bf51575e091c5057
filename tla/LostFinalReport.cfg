SPECIFICATION FairSpec
CONSTANTS
  Mode = "PAPER"
  HttpThreads = {"h1"}
  GrpcThreads = {}
  CoopThreads = {"c1", "c2"}
  HttpTexts = {"", "error"}
  SigtermSent = FALSE
  StopsDuringStartup = FALSE
  StartupMayFail = FALSE
  JoinTimeouts = FALSE
  Faults = FALSE
  LossySrm = FALSE
  MaxInterrupts = 0
PROPERTIES
  StopIsReported
