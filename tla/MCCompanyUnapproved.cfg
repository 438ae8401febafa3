CONSTANTS
  m1 = m1
  t1 = t1
  t2 = t2
  Missions    = {m1}
  Jobs        = {}
  Workers     = {}
  NoJob       = NoJob
  NoMission   = NoMission
  NoWorker    = NoWorker
  PlanLength  = 2
  Faults      = {}
  Tasks       = {t1, t2}
  Seeds       = {t1}
  DependsOn  <- NoDependencies
  MaxAttempts <- TwoThenOne
  Files      <- ArtifactFiles
  FileOf     <- OneFile
  NoOutput    = NoOutput
  Scheduled   = {m1}
  Runs        = {r1}
  Apart       = FALSE
  NoRun       = NoRun
  MaxClaims   = 3
SPECIFICATION Spec
INVARIANTS
  NothingUnapproved
CHECK_DEADLOCK FALSE
