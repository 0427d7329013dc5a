SPECIFICATION MCSpec
SYMMETRY Symmetry
CONSTANTS
  BookJobs = {k1, k2, k3}
  Layouts <- AllLayouts
  Named <- ReferredTo
  Accepts <- KernelAccepts
  Byte <- AllBytes
  Stored = {"BlockHeight", "Fees", "Coin", "Payout", "PartyKeys", "Parties", "Funding", "WebAuthnAssertion", "Auth", "EarnedCertificate", "PendingPaymentClose", "BondLease", "RegistryChunk"}
  Checkpoints = {"Checkpoint", "SetupCheckpoint"}
  Hashed = {"edge_id", "open_hash", "payload_hash", "coin_genesis", "coin_payout", "coin_reshape", "reshape_hash", "terms_bond", "terms_payment", "terms_basic", "earned", "no_earned", "settlement", "start", "start_id", "response", "adjudicated", "freeze", "chunk_id", "channel", "policy_commitment", "work_id", "result", "binding", "job_policy", "delivery", "grant_channel", "grant_work", "owner_grant", "bundle", "offer_request"}
  StoredAlphabet = {0, 2, 4, 7}
  Alphabet = {0, 1, 4}
  StoredFaults = 2
  Faults = 1
INVARIANTS
  BytesMeanOneThing
  BudgetsAreExact
CHECK_DEADLOCK FALSE
