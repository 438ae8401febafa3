CONSTANTS
  m1 = m1
  m2 = m2
  j1 = j1
  Missions         = {m1}
  Jobs             = {j1}
  Workers          = {w1,w2}
  Uploads          = {}
  NoJob            = NoJob
  NoMission        = NoMission
  NoWorker         = NoWorker
  Limits           = {2}
  Unlimited        = Unlimited
  MaxRequeues      = 0
  ClientKeys       <- OneKey
  OperatorMissions = {}
SPECIFICATION Spec
PROPERTIES
  EvidenceAppendOnly
CHECK_DEADLOCK FALSE
