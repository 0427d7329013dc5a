SPECIFICATION MCSpec
CONSTANTS
  Requests <- OneRequest
  Events <- AnyEvents
  Plans <- AllPlans
  MaxItems = 3
  MaxText = 2
INVARIANTS
  ResponsesAreWhole
PROPERTIES
  NothingIsBoughtTwice
CHECK_DEADLOCK FALSE
