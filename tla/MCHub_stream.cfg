SPECIFICATION FairSpec
CONSTANTS
  Clients = {c1, c2}
  SendCap = 2
  StreamCap = 1
  MaxMsgs = 2
  MaxCmds = 1
INVARIANTS
  StreamExact
  
PROPERTIES
  HubDrains
  BroadcastEnds
CHECK_DEADLOCK FALSE
