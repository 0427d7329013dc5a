SPECIFICATION MCSpec
CONSTANTS
  CAPACITY = 6
  MAX_REGISTRY_MUTATIONS = 2
  OmitResponse = 3
  Allocations <- SmallAllocations
  MAX_EDGE_LIFETIME_BLOCKS = 5
  MaxTxs = 3
  MaxTxBytes = 3
  General <- MCGeneral
  Responses <- MCResponses
  Foreign <- MCForeign
  Genesis <- MCGenesis
  StartHeight = 3
  MaxHeight = 5
  GENERAL_MEMPOOL_CAPACITY = 2
  GENERAL_MEMPOOL_MAX_STRIKES = 2
  RESPONSE_MEMPOOL_CAPACITY = 1
  RECONCILED_PER_BLOCK = 2
  MaxSubmissions = 4
INVARIANTS
  PoolIsFair
  HostIsSound
PROPERTIES
  ResidentsStay
CHECK_DEADLOCK FALSE
