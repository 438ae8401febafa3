CONSTANTS
  Deals      = {d1}
  Checkouts  = {c1}
  Receipts   = {}
  NoDeal     = NoDeal
  Faults     = {"late"}
  MaxCredits = 2
SPECIFICATION Spec
INVARIANTS
  CountedOnce
CHECK_DEADLOCK FALSE
