SPECIFICATION MCSpec
CONSTANTS
  States <- MCStates
  Genesis <- MCGenesis
  Keys = {"k1", "k2", "k3"}
  Owners = {"a"}
  OWNER_PAGE_LIMIT = 1
  MAX_CURRENT_KEYS = 2
  KeySets = {{"k1"}, {"k1", "k2"}, {"k1", "k2", "k3"}}
  MaxHeight = 3
  MaxQueries = 1
INVARIANTS
  ReadsAreCoherent
  NodeIsCoherent
PROPERTIES
  NothingIsLeftBehind
CHECK_DEADLOCK FALSE
