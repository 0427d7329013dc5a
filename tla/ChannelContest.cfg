CONSTANTS
  Askings = {FALSE, TRUE}
  NoKey = NoKey
  None = None
  Malformed = Malformed
  U64Max = 20
  MAX_EDGE_OUTPUTS = 2
  Capacity = 4
  ComputeCreditLimit = 2
  DeliveryCreditLimit = 2
  OmitResponseBlocks = 2
  StartValidityBlocks = 1
  OmissionBond = 1
  Offers <- OneEphemeralJob
  Margin = 1
  DeliveryBlocks = 1
  Closers = {}
  Horizon = 9
  FreezePayouts = {1}
  Omissions = {0}
  MaxHeight = 4
  MaxTxs = 1
  Crashing <- BothRoles
  MaxCrashes = 1
SPECIFICATION MCSpec
INVARIANTS
  HistoryIsRead
  ContestsAreAnswered
  ClosesAreHonest
CHECK_DEADLOCK FALSE
