SPECIFICATION Spec
CONSTANTS
  Mode = "PAPER"
  HttpThreads = {}
  GrpcThreads = {"g1"}
  CoopThreads = {c1, c2}
  HttpTexts = {""}
  SigtermSent = TRUE
  StopsDuringStartup = TRUE
  StartupMayFail = TRUE
  JoinTimeouts = FALSE
  Faults = TRUE
  LossySrm = FALSE
  MaxInterrupts = 0
SYMMETRY CoopSymmetry
INVARIANTS
  TypeOK
  OneAcceptance
  BodiesAreAuthorised
