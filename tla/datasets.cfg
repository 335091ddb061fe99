CONSTANTS
  k1 = k1 k2 = k2
  Keys = {k1, k2}
  Links <- MCLinks
  MaxScans = 1
  None = None
SPECIFICATION GoldSpec
INVARIANTS
  FixedConsistent
  ScoredReachable
  FixSettled
CHECK_DEADLOCK FALSE
