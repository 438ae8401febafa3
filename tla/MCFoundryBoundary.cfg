CONSTANTS
  Users       = {agent, sup, chief}
  NoUser      = NoUser
  Agents      = {agent}
  Admins      = {chief}
  Supervisors = {sup}
  Bosses      = {chief}
  Packages    = {p1, p2}
  NoPackage   = NoPackage
  Grants      = {g1, g2}
  NoGrant     = NoGrant
  Submissions    <- OfEachAction
  MaxActionCost  = 1
  MaxMonthlyCost = 2
  Faults         = {}
  MaxChildren    = 1
  MaxPayments    = 2
SPECIFICATION Spec
SYMMETRY SamePackagesAndGrants
INVARIANTS
  ConsumedMeansDone
  FailedMeansUndone
  PaidOnce
  LooseEndsAreMarked
PROPERTIES
  EffectIsAuthorized
CHECK_DEADLOCK FALSE
