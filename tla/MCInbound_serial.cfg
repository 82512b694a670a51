SPECIFICATION Spec
CONSTANTS
  m1 = m1
  m2 = m2
  m3 = m3
  m4 = m4
  m5 = m5
  c1 = c1
  c2 = c2
  c3 = c3
  Msgs = {m1, m2, m3, m4, m5}
  Conns = {c1, c2, c3}
  NoMsg = NoMsg
  NoConn = NoConn
  PacketID <- PacketIDs
  QoS <- MixedQoS
  Denied = {m4}
  Refused = {m5}
  WriteQueueSize = 2
  MaxRestarts = 1
  Overlap = FALSE
INVARIANTS AtLeastOnce
PROPERTIES ImplementsExactlyOnce
CHECK_DEADLOCK FALSE
