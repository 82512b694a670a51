SPECIFICATION FairSpec
CONSTANTS
  Brokers = {1, 2}
  PartitionCount = 2
  ChanCap = 1
  MaxMsgs = 2
  MaxChurn = 1
  
PROPERTIES OwnersConverge
CHECK_DEADLOCK FALSE
