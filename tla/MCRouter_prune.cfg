SPECIFICATION Spec
CONSTANTS
  Clients = {1, 2}
  Filters <- PruneFilters
  Topics <- AllTopics
  NumShards = 2
  ShardOf <- Shard
  Requests <- PruneRequests
  MaxNodes = 8
  MaxOps = 2
  MaxPubs = 0
INVARIANT SubscribeRegisters
CHECK_DEADLOCK FALSE
