SPECIFICATION Spec
CONSTANTS
  t1 = t1
  f1 = f1
  Topics = {t1}
  Filters = {f1}
  Matches <- MCMatches
  ApiCap = 1
  MaxPubs = 3
  MaxSubs = 2
  MaxFaults = 1
INVARIANTS RetainedDurable  NoMissedRetained
CHECK_DEADLOCK FALSE
