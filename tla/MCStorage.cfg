SPECIFICATION MCSpec
SYMMETRY Symmetry
CONSTANTS
  Job = {j1, j2}
  Blocks = {1, 2}
  Flushes = TRUE
  NodePolicy = TRUE
  MaxFrames = 7
  DutyFrames = 5
  MaxBytes = 20
  DutyBytes = 8
  MaxCheckpoint = 12
  JobBytes = 2
  TailBytes = 2
  EndedBytes = 1
  MaxGeneration = 2
  MaxCrashes = 1
  OneClient = {c1}
  TwoClients = {c1, c2}
INVARIANTS
  ViewsAreReplayable
PROPERTIES
  ImplementsDurableLog
  JournalsKeepPromises
  GrantsSurvive
CHECK_DEADLOCK FALSE
