SPECIFICATION MCSpec
CONSTANTS
  Requests <- TextRequests
  Events <- TextEvents
  Json <- MCJson
  Heads = {"", "x"}
  MaxEvents = 8
INVARIANTS
  ShownStaysTrue
  CutsAreInvisible
  StreamsStayApart
CHECK_DEADLOCK FALSE
