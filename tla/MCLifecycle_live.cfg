SPECIFICATION FairSpec
CONSTANTS
  c1 = c1
  c2 = c2
  c3 = c3
  a = a
  b = b
  Conns = {c1, c2}
  ClientIds = {a}
  None = None
  Requests <- FiniteRequests
  MaxConnects = 1
  MaxSess = 1
  PluginRefuses = FALSE
PROPERTIES EvictedEnds ExpiredIsPurged
CHECK_DEADLOCK FALSE
