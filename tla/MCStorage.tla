----------------------------- MODULE MCStorage ------------------------------
(*************************************************************************)
(* What an endpoint and a node keep on disk.  part says which of the     *)
(* five a behaviour is about; the other variables stay as they began.    *)
(*   journal  Journal under a node store that flushes each commit        *)
(*   channel  Journal under a channel store that does not                *)
(*   repairs  NodeStore, one client, repairs and revisions               *)
(*   prunes   NodeStore, one client, jobs accepted after a prune         *)
(*   crashes  NodeStore, two clients, a crash                            *)
(*************************************************************************)
EXTENDS Journal, TLC

CONSTANTS OneClient, TwoClients

VARIABLE part

VARIABLES
  ch_disk, ch_old, ch_phase, ch_handle, ch_doing, ch_worker, ch_known, ch_crashes

ch_vars ==
  <<ch_disk, ch_old, ch_phase, ch_handle, ch_doing, ch_worker, ch_known, ch_crashes>>

VARIABLES
  node_store, node_status, node_auth, node_seen, node_accepted, node_backend

node_vars ==
  <<node_store, node_status, node_auth, node_seen, node_accepted, node_backend>>

---------------------------------------------------------------------------
(* The node store: one grant drawing on a subject of a pool of an account; *)
(* the second policy of its resource no longer measures tokens.             *)

Limit(meter, window, amount) == [meter |-> meter, window |-> window, amount |-> amount]
Term(limits, concurrent) == [limits |-> limits, concurrent |-> concurrent]
Charge(requests, tokens) == [requests |-> requests, tokens |-> tokens]

Account == {"a"}
Pool == {"p"}
OneSubject == {"s"}
Grant == {"g"}
Resource == {"r"}
Metered == {"requests", "tokens"}
Forever == {"total"}
PoolOfOne == "s" :> "p"
BudgetOfGrant == "g" :> "s"
AccountOfResource == "r" :> "a"
ChargeOfResource == "r" :> Charge(1, 1)
Overrun == {Charge(1, 2)}
ShortOrLong == {0, 9}
Long == {9}
Tighter == {Term({Limit("tokens", "total", 2)}, 2)}
Narrower == {Term({}, 1), Term({}, 2)}
TwoPolicies == "r" :> << {"requests", "tokens"}, {"requests"} >>

Offer(acceptance) ==
  [acceptance |-> acceptance, terminal |-> acceptance + 1, delivery |-> acceptance + 2]

\* The first is forgotten at time 3, when the second may still be accepted.
TwoOffers == {Offer(0), Offer(3)}
OneOffer == {Offer(0)}

Ledger == INSTANCE GrantLedger WITH
  Machine <- "m", Accounts <- Account, Pools <- Pool, Subjects <- OneSubject,
  NoParent <- "none", PoolOf <- PoolOfOne, Meters <- Metered, Windows <- Forever,
  HourMillis <- 1, DayMillis <- 2, MaxPathLen <- 4, MaxNodes <- 4, MaxConcurrent <- 2,
  MaxCount <- 100

Fixed(l, n, parent, limits, concurrent) ==
  Ledger!ConfiguredBudget(l, [node |-> n, parent |-> parent, revision |-> 1,
                               limits |-> limits, concurrent |-> concurrent])

FirstBooks ==
  Fixed(Fixed(Fixed(Ledger!Configured(Ledger!EmptyLedger, "m", {}, 2),
    "a", "m", {}, 2), "p", "a", {}, 2), "s", "p", {Limit("requests", "total", 3)}, 2)

AncestorsOfGrant == [x \in Grant |-> Ledger!Range(Ledger!Path(FirstBooks, BudgetOfGrant[x]))]

---------------------------------------------------------------------------
Channel == INSTANCE Journal WITH
  Flushes <- FALSE, NodePolicy <- FALSE, MaxFrames <- 3, DutyFrames <- 1,
  MaxCheckpoint <- 8, MaxGeneration <- 1, disk <- ch_disk, old <- ch_old,
  phase <- ch_phase, handle <- ch_handle, doing <- ch_doing, worker <- ch_worker,
  known <- ch_known, crashes <- ch_crashes

Repairs == INSTANCE NodeStore WITH
  Machine <- "m", Accounts <- Account, Pools <- Pool, NoParent <- "none",
  HourMillis <- 1, DayMillis <- 2, Meters <- Metered, Subjects <- OneSubject,
  PoolOf <- PoolOfOne, Windows <- Forever, MaxPathLen <- 4, MaxNodes <- 4,
  MaxConcurrent <- 2, MaxCount <- 100, Grants <- Grant, Resources <- Resource,
  BudgetOf <- BudgetOfGrant, AccountOf <- AccountOfResource, Supported <- TwoPolicies,
  ChargeOf <- ChargeOfResource, MaxJobMillis <- 2, FirstLedger <- FirstBooks,
  Ancestors <- AncestorsOfGrant, MaxNonce <- 1, StrictAccounting <- Resource,
  Usages <- Overrun, Offers <- OneOffer, Lifetimes <- ShortOrLong,
  Clients <- OneClient, MachineTerms <- {}, SubjectTerms <- Tighter, MaxChannels <- 2,
  MaxTime <- 3, MaxRevision <- 2, MaxGeneration <- 0, store <- node_store,
  status <- node_status, auth <- node_auth, seen <- node_seen,
  accepted <- node_accepted, backend <- node_backend

Prunes == INSTANCE NodeStore WITH
  Machine <- "m", Accounts <- Account, Pools <- Pool, NoParent <- "none",
  HourMillis <- 1, DayMillis <- 2, Meters <- Metered, Subjects <- OneSubject,
  PoolOf <- PoolOfOne, Windows <- Forever, MaxPathLen <- 4, MaxNodes <- 4,
  MaxConcurrent <- 2, MaxCount <- 100, Grants <- Grant, Resources <- Resource,
  BudgetOf <- BudgetOfGrant, AccountOf <- AccountOfResource, Supported <- TwoPolicies,
  ChargeOf <- ChargeOfResource, MaxJobMillis <- 2, FirstLedger <- FirstBooks,
  Ancestors <- AncestorsOfGrant, MaxNonce <- 2, StrictAccounting <- {}, Usages <- {},
  Offers <- TwoOffers, Lifetimes <- Long, Clients <- OneClient,
  MachineTerms <- {}, SubjectTerms <- {}, MaxChannels <- 2, MaxTime <- 3,
  MaxRevision <- 1, MaxGeneration <- 0, store <- node_store, status <- node_status,
  auth <- node_auth, seen <- node_seen, accepted <- node_accepted,
  backend <- node_backend

Crashes == INSTANCE NodeStore WITH
  Machine <- "m", Accounts <- Account, Pools <- Pool, NoParent <- "none",
  HourMillis <- 1, DayMillis <- 2, Meters <- Metered, Subjects <- OneSubject,
  PoolOf <- PoolOfOne, Windows <- Forever, MaxPathLen <- 4, MaxNodes <- 4,
  MaxConcurrent <- 2, MaxCount <- 100, Grants <- Grant, Resources <- Resource,
  BudgetOf <- BudgetOfGrant, AccountOf <- AccountOfResource, Supported <- TwoPolicies,
  ChargeOf <- ChargeOfResource, MaxJobMillis <- 2, FirstLedger <- FirstBooks,
  Ancestors <- AncestorsOfGrant, MaxNonce <- 1, StrictAccounting <- {}, Usages <- {},
  Offers <- OneOffer, Lifetimes <- Long, Clients <- TwoClients,
  MachineTerms <- Narrower, SubjectTerms <- {}, MaxChannels <- 3, MaxTime <- 2,
  MaxRevision <- 1, MaxGeneration <- 1, store <- node_store, status <- node_status,
  auth <- node_auth, seen <- node_seen, accepted <- node_accepted,
  backend <- node_backend

---------------------------------------------------------------------------
MCInit ==
  /\ part \in {"journal", "channel", "repairs", "prunes", "crashes"}
  /\ Init
  /\ Channel!Init
  /\ CASE part = "crashes" -> Crashes!Init
       [] part = "prunes" -> Prunes!Init
       [] OTHER -> Repairs!Init

JournalStep ==
  part = "journal" /\ Next /\ UNCHANGED <<part, ch_vars, node_vars>>

ChannelStep ==
  part = "channel" /\ Channel!Next /\ UNCHANGED <<part, vars, node_vars>>

RepairsStep ==
  part = "repairs" /\ Repairs!Next /\ UNCHANGED <<part, vars, ch_vars>>

PrunesStep ==
  part = "prunes" /\ Prunes!Next /\ UNCHANGED <<part, vars, ch_vars>>

CrashesStep ==
  part = "crashes" /\ Crashes!Next /\ UNCHANGED <<part, vars, ch_vars>>

MCNext == JournalStep \/ ChannelStep \/ RepairsStep \/ PrunesStep \/ CrashesStep

MCSpec == MCInit /\ [][MCNext]_<<part, vars, ch_vars, node_vars>>

---------------------------------------------------------------------------
Symmetry == Permutations(Job) \cup Permutations(TwoClients)

\* The node's grants survive whatever is done to them: every state committed opens
\* again, a nonce is spent once though its terminal is pruned, a repair discards only
\* the faults its administrator has read, and work lost in a crash keeps its place.
GrantsSurvive ==
  /\ [](part = "repairs" => Repairs!EveryStateReopens)
  /\ [](part = "prunes" => Prunes!EveryStateReopens)
  /\ Prunes!NonceSpentOnce
  /\ Repairs!RepairIsInformed
  /\ Crashes!LostWorkKeepsItsPlace

\* Both journals keep what they promised: the node's takes the ending of every job it
\* admitted although it is full, and a channel's is a durable log as well, whose
\* generations never outgrow the limits that bound a replay.
JournalsKeepPromises ==
  /\ [](part = "journal" => EndingIsRecordable)
  /\ [](part = "channel" => Channel!ViewsAreReplayable)
  /\ Channel!ImplementsDurableLog
=============================================================================
