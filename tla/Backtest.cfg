SPECIFICATION FairSpec
CONSTANTS
  Mode = "BACKTEST"
  HttpThreads = {}
  GrpcThreads = {}
  CoopThreads = {"c1", "c2"}
  HttpTexts = {""}
  SigtermSent = FALSE
  StopsDuringStartup = FALSE
  StartupMayFail = FALSE
  JoinTimeouts = FALSE
  Faults = FALSE
  LossySrm = FALSE
  MaxInterrupts = 0
INVARIANTS
  TerminatedOnce
PROPERTIES
  JobCompletionEndsProcess
