CONSTANTS
  Users       = {agent, sup, chief}
  NoUser      = NoUser
  Agents      = {agent}
  Admins      = {chief}
  Supervisors = {sup}
  Bosses      = {chief}
  Packages    = {p1}
  NoPackage   = NoPackage
  Grants      = {g1}
  NoGrant     = NoGrant
  Submissions    <- OfEachAction
  MaxActionCost  = 1
  MaxMonthlyCost = 2
  Faults         = {"lost_answer", "disk"}
  MaxChildren    = 1
  MaxPayments    = 2
SPECIFICATION Spec
INVARIANTS
  LedgerMatchesReceipts
PROPERTIES
  ImplementsGovernance
CHECK_DEADLOCK FALSE
