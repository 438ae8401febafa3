CONSTANTS
  Deals      = {d1}
  Checkouts  = {c1, c2}
  Receipts   = {r1}
  NoDeal     = NoDeal
  Faults     = {"crash"}
  MaxCredits = 2
SPECIFICATION Spec
INVARIANTS
  RevenueIsReal
  CountedOnce
  PaidIsHonoured
PROPERTIES
  ChargedIsRecorded
CHECK_DEADLOCK FALSE
