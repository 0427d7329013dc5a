SPECIFICATION MCSpec
CONSTANTS
  First = t1
  Tasks = {t1, t2, t3}
  Size = 1
  MaxRounds = 2
INVARIANTS
  PermitsAreKept
  CallsAreTruthful
PROPERTIES
  NobodyWaitsForever
CHECK_DEADLOCK FALSE
