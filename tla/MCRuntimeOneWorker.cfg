CONSTANTS
  m1 = m1
  m2 = m2
  j1 = j1
  Missions         = {m1,m2}
  Jobs             = {j1}
  Workers          = {w1}
  Uploads          = {u1}
  NoJob            = NoJob
  NoMission        = NoMission
  NoWorker         = NoWorker
  Limits           = {2}
  Unlimited        = Unlimited
  MaxRequeues      = 1
  ClientKeys       <- SharedKey
  OperatorMissions = {m2}
SPECIFICATION Spec
INVARIANTS
  EvidenceChainVerifies
PROPERTIES
  EvidenceAppendOnly
  ImplementsContract
CHECK_DEADLOCK FALSE
