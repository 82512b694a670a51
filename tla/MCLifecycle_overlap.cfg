SPECIFICATION Spec
CONSTANTS
  c1 = c1
  c2 = c2
  c3 = c3
  a = a
  b = b
  Conns = {c1, c2}
  ClientIds = {a}
  None = None
  Requests <- OverlapRequests
  MaxConnects = 1
  MaxSess = 2
  PluginRefuses = TRUE
SYMMETRY Perms
INVARIANTS RegistryNeverStale NoGhosts ExpiryHonoured CleanWillOwn LiveConsistent
CHECK_DEADLOCK FALSE
