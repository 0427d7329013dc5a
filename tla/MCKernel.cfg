SPECIFICATION MCSpec
CONSTANTS
  NoKey = NoKey
  U64Max = 5
  MAX_EDGE_OUTPUTS = 4
  Keys = {"P", "N", "C"}
  MayRetire = {"P", "C"}
  Genesis <- WorkGenesis
  FeeSchedules <- WorkFees
  BasicTerms = {}
  BondTerms <- WorkBonds
  PaymentPolicies <- WorkPolicies
  Amounts = {1, 2, 3}
  OutputLists = {}
  Windows <- WorkWindows
  MIN_OMIT_RESPONSE_BLOCKS = 1
  MAX_OMIT_RESPONSE_BLOCKS = 3
  MAX_START_VALIDITY_BLOCKS = 2
  MAX_FREEZE_AUTH_BLOCKS = 2
  MaxInputs = 1
  MaxGeneration = 1
  MaxHeight = 4
INVARIANTS
  StakeBacksChannels
  ContestsAreSound
PROPERTIES
  RecordsOnlyAdvance
  SettlementsAreFair
  OwnersKeepTheirValue
CHECK_DEADLOCK FALSE
