SPECIFICATION Spec
CONSTANTS
  Mode = "BACKTEST"
  HttpThreads = {}
  GrpcThreads = {}
  CoopThreads = {c1, c2}
  HttpTexts = {""}
  SigtermSent = TRUE
  StopsDuringStartup = FALSE
  StartupMayFail = FALSE
  JoinTimeouts = TRUE
  Faults = TRUE
  LossySrm = FALSE
  MaxInterrupts = 1
SYMMETRY CoopSymmetry
INVARIANTS
  CompletedMeansReplayed
