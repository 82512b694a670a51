CONSTANTS
  m1 = m1  m2 = m2  c1 = c1  c2 = c2
  NoMsg = NoMsg  NoConn = NoConn  NoEntry = NoEntry
  Msgs = {m1, m2}
  Conns = {c1, c2}
  IdSpace = 3
  MaxQueue = 1
  WriteQueueSize = 1
  QoS <- QoS12
  RecvMax <- Recv12
  Oversize <- Oversize2
  CleanSession = FALSE
SPECIFICATION FairSpec
INVARIANTS TypeOK UniqueUntilWrap ReceiveMaximum NoSilentLoss SentAtMostOnce 
 
CHECK_DEADLOCK FALSE
