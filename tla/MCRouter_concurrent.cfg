SPECIFICATION Spec
CONSTANTS
  Clients = {1, 2}
  Filters <- AllFilters
  Topics <- AllTopics
  NumShards = 2
  ShardOf <- Shard
  Requests <- AllRequests
  MaxNodes = 8
  MaxOps = 2
  MaxPubs = 1
INVARIANTS RoutingExact SharedExact PublishComplete
CHECK_DEADLOCK FALSE
