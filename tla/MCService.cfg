SPECIFICATION MCSpec
CONSTANTS
  Works = {"w"}
  Deliveries = {d1}
  Lifetimes = {1, 9}
  TerminalDeadline = 2
  DeliveryDeadline = 3
  MaxLive = 2
  MaxEvents = 1
  MaxTime = 4
INVARIANTS
  ServiceIsDurable
  StreamsAreWhole
PROPERTIES
  TakenBackStays
  EverythingEnds
CHECK_DEADLOCK FALSE
