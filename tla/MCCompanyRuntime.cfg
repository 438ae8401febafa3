CONSTANTS
  m1 = m1
  t1 = t1
  t2 = t2
  Missions    = {m1}
  Jobs        = {}
  Workers     = {}
  NoJob       = NoJob
  NoMission   = NoMission
  NoWorker    = NoWorker
  PlanLength  = 1
  Faults      = {"crash", "late"}
  Tasks       = {t1, t2}
  Seeds       = {t1}
  DependsOn  <- NoDependencies
  MaxAttempts <- TwoThenOne
  Files      <- ArtifactFiles
  FileOf     <- OneFile
  NoOutput    = NoOutput
  Scheduled   = {m1}
  Runs        = {r1, r2}
  Apart       = TRUE
  NoRun       = NoRun
  MaxClaims   = 2
SPECIFICATION Spec
INVARIANTS
  UndecidedMeansUntouched
  BuiltOnArtifacts
  ProofMatches
PROPERTIES
  TeamSettles
CHECK_DEADLOCK FALSE
