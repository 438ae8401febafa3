CONSTANTS
  Users       = {agent, sup, both}
  NoUser      = NoUser
  Agents      = {agent}
  Admins      = {both}
  Supervisors = {sup, both}
  Bosses      = {both}
  Packages    = {p1, p2}
  NoPackage   = NoPackage
  Grants      = {g1, g2}
  NoGrant     = NoGrant
  Submissions    <- EveryKind
  MaxActionCost  = 2
  MaxMonthlyCost = 3
SPECIFICATION GovernanceSpec
SYMMETRY SamePackagesAndGrants
INVARIANTS
  TwoKeys
  GrantMatchesPackage
  BudgetHolds
  StopMeansStop
PROPERTIES
  GrantIsSingleUse
CHECK_DEADLOCK FALSE
