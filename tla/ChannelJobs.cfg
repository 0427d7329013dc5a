CONSTANTS
  Askings = {FALSE}
  NoKey = NoKey
  None = None
  Malformed = Malformed
  U64Max = 20
  MAX_EDGE_OUTPUTS = 2
  Capacity = 4
  ComputeCreditLimit = 3
  DeliveryCreditLimit = 2
  OmitResponseBlocks = 2
  StartValidityBlocks = 1
  OmissionBond = 1
  Offers <- TwoJobs
  Margin = 1
  DeliveryBlocks = 1
  Closers = {}
  Horizon = 9
  FreezePayouts = {}
  Omissions = {}
  MaxHeight = 3
  MaxTxs = 0
  Crashing = {"Provider"}
  MaxCrashes = 1
SPECIFICATION MCSpec
INVARIANTS
  LedgersAreSound
  WorkIsAgreed
PROPERTIES
  JobsRunOnce
CHECK_DEADLOCK FALSE
