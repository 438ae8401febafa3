CONSTANTS
  m1 = m1
  m2 = m2
  j1 = j1
  Missions         = {m1}
  Jobs             = {j1}
  Workers          = {w1,w2}
  Uploads          = {}
  NoJob            = NoJob
  NoMission        = NoMission
  NoWorker         = NoWorker
  Limits          <- SomeLimits
  Unlimited        = Unlimited
  MaxRequeues      = 1
  ClientKeys       <- OneKey
  OperatorMissions = {}
SPECIFICATION FairSpec
INVARIANTS
  LeaseMatchesStatus
  AttemptsBounded
  CompletedJobIsProven
  OutcomeHasEvidence
  NoStrandedMission
  FailedMissionIsRecoverable
  ApprovedBeforeWork
  OutcomeMeansFinished
PROPERTIES
  FinalIsFinal
  EndedByItsWorker
  CancelledStaysCancelled
  RejectionIsFinal
  JobsSettle
  NoMissionHangs
CHECK_DEADLOCK FALSE
