CONSTANTS
  Prospects  = {p1, p2, p3}
  Runs       = {r1, r2}
  NoProspect = NoProspect
  DailyLimit = 2
SPECIFICATION Spec
SYMMETRY SameProspectsAndRuns
INVARIANTS
  OneMailEach
  DailyLimitKept
PROPERTIES
  UnsubscribeStops
CHECK_DEADLOCK FALSE
