SPECIFICATION MCSpec
CONSTANTS
  Channels = {c1, c2}
  NoChannel = none
  MaxNonce = 1
  MaxBuys = 2
  MaxHeight = 2
  AcceptBlocks = 0
  TerminalBlocks = 1
  PayBlocks = 1
  Retains = FALSE
  Tracked = TRUE
INVARIANTS
  PurchasesAreSafe
  SetupsAreSound
  OneTranscriptIsShown
  WorkIsSignedOff
  DrainsAreFinal
CHECK_DEADLOCK FALSE
