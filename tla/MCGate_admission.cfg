SPECIFICATION Spec
CONSTANTS
  a = a
  c1 = c1
  c2 = c2
  c3 = c3
  t1 = t1
  t2 = t2
  NoId = NoId
  NoTopic = NoTopic
  Clients = {a}
  Conns = {c1, c2, c3}
  Topics = {t1, t2}
  Rate = 1
  Burst = 2
  Cost = 2
  MaxAge = 2
  MaxTime = 3
  MaxConnections = 2
  TopicAliasMax = 2
  Life = 1
  MaxTokens = 1
  MaxPackets = 4
INVARIANTS SlotsExact WithinRate RefusedOnlyOver  
SYMMETRY Symmetry
CHECK_DEADLOCK FALSE
