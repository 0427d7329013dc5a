------------------------------ MODULE MCChain -------------------------------
(*************************************************************************)
(* What a chain node keeps and what it answers.  part says which of the  *)
(* four                                                                  *)
(* a behaviour is about; the other variables stay as they began.         *)
(*   reads     three blocks over three objects, pages of one             *)
(*             (ChainReads)                                              *)
(*   node      four blocks, two of them certified late, two stops        *)
(*             anywhere                                                  *)
(*             (ChainNode)                                               *)
(*   listings  the same chain without stops, every paged listing of it   *)
(*   setup     a setup that the provider drives on a chain that loses    *)
(*             submissions (Setup)                                       *)
(*************************************************************************)
EXTENDS ChainReads, TLC

VARIABLE part

VARIABLES
  node_tip, node_floor, node_acked, node_db, node_idx, node_node, node_exec, node_view,
  node_ready, node_reader, node_fault, node_stops

node_vars ==
  <<node_tip, node_floor, node_acked, node_db, node_idx, node_node, node_exec,
  node_view, node_ready, node_reader, node_fault, node_stops>>

VARIABLES
  setup_blocks, setup_chain, setup_pool, setup_admits, setup_setup, setup_driver,
  setup_channel, setup_exchange, setup_answered, setup_crashes, setup_exchanges

setup_vars ==
  <<setup_blocks, setup_chain, setup_pool, setup_admits, setup_setup, setup_driver,
  setup_channel, setup_exchange, setup_answered, setup_crashes, setup_exchanges>>

---------------------------------------------------------------------------
(* The reads: one object changes hands, the other comes and goes *)

MCStates ==
  {[k1 |-> "a", k2 |-> "a", k3 |-> ""], [k1 |-> "b", k2 |-> "a", k3 |-> ""],
   [k1 |-> "a", k2 |-> "", k3 |-> ""]}

MCGenesis == [k1 |-> "a", k2 |-> "", k3 |-> ""]

---------------------------------------------------------------------------
(* The node's chain: a bond opens with an unrelated basic edge, the        *)
(* payment on the bond opens and closes again, and a basic edge opens and  *)
(* closes within one block.                                                *)

Tx(op, e) == [op |-> op, edge |-> e]

MCChain ==
  << <<Tx("open", 3), Tx("open", 2)>>,
     <<Tx("open", 1), Tx("owner", 0), Tx("close", 2)>>,
     <<Tx("move", 1), Tx("open", 4), Tx("close", 4)>>,
     <<Tx("close", 1), Tx("close", 3)>> >>

MCTerms ==
  1 :> [kind |-> "work-payment", maker |-> "ann", taker |-> "bob", bond |-> 3] @@
  2 :> [kind |-> "basic", maker |-> "bob", taker |-> "ann", bond |-> 0] @@
  3 :> [kind |-> "work-stake-bond", maker |-> "bob", taker |-> "ann", bond |-> 0] @@
  4 :> [kind |-> "basic", maker |-> "ann", taker |-> "ann", bond |-> 0]

Listing(state, kind, party, role) ==
  [state |-> state, kind |-> kind, party |-> party, role |-> role, edge |-> 0]

LateCertificates == {1, 3, 4}
EvenBlocks == {2, 4}

OneRequest == {Listing("open", "", "", "any")}

SomeRequests ==
  {Listing("open", "", "", "any"), Listing("all", "", "ann", "any"), Listing("closed", "basic", "", "any"),
   Listing("all", "basic", "bob", "maker"), Listing("open", "", "ann", "taker"),
   [Listing("all", "", "", "any") EXCEPT !.edge = 1]}

---------------------------------------------------------------------------
(* A setup that the provider drives while others use the chain.            *)

ProviderDrives == {"provider"}
Others == {"spendPayment", "closePayment"}

---------------------------------------------------------------------------
Node == INSTANCE ChainNode WITH
  Chain <- MCChain, Terms <- MCTerms, MaxDescendants <- 1,
  CertifiedAt <- LateCertificates, Retain <- 1, Requests <- OneRequest, PageLimit <- 2,
  Stops <- 2, tip <- node_tip, floor <- node_floor, acked <- node_acked, db <- node_db,
  idx <- node_idx, node <- node_node, exec <- node_exec, view <- node_view,
  ready <- node_ready, reader <- node_reader, fault <- node_fault, stops <- node_stops

Listings == INSTANCE ChainNode WITH
  Chain <- MCChain, Terms <- MCTerms, MaxDescendants <- 1, CertifiedAt <- EvenBlocks,
  Retain <- 0, Requests <- SomeRequests, PageLimit <- 1, Stops <- 0, tip <- node_tip,
  floor <- node_floor, acked <- node_acked, db <- node_db, idx <- node_idx,
  node <- node_node, exec <- node_exec, view <- node_view, ready <- node_ready,
  reader <- node_reader, fault <- node_fault, stops <- node_stops

Opening == INSTANCE Setup WITH
  Drivers <- ProviderDrives, Foreign <- Others, Lossy <- TRUE, Horizon <- 4,
  MaxHeight <- 5, Batch <- 2, MaxCrashes <- 0, MaxExchanges <- 2,
  blocks <- setup_blocks, chain <- setup_chain, pool <- setup_pool,
  admits <- setup_admits, setup <- setup_setup, driver <- setup_driver,
  channel <- setup_channel, exchange <- setup_exchange, answered <- setup_answered,
  crashes <- setup_crashes, exchanges <- setup_exchanges

---------------------------------------------------------------------------
MCInit ==
  /\ part \in {"reads", "node", "listings", "setup"}
  /\ Init /\ (part # "reads" => chain = <<CHOOSE s \in States : TRUE>>)
  /\ Node!Init
  /\ Opening!Init /\ (part # "setup" => setup_admits)

ReadsStep ==
  part = "reads" /\ Next /\ UNCHANGED <<part, node_vars, setup_vars>>

NodeStep ==
  part = "node" /\ Node!Next /\ UNCHANGED <<part, vars, setup_vars>>

ListingsStep ==
  part = "listings" /\ Listings!Next /\ UNCHANGED <<part, vars, setup_vars>>

SetupStep ==
  part = "setup" /\ Opening!Next /\ UNCHANGED <<part, vars, node_vars>>

MCNext == ReadsStep \/ NodeStep \/ ListingsStep \/ SetupStep

\* The fairness of ChainNode: its tasks are scheduled, certificates arrive
Fairness ==
  /\ WF_node_vars(part = "node" /\ Node!Deliver)
  /\ WF_node_vars(part = "node" /\ Node!Apply)
  /\ WF_node_vars(part = "node" /\ Node!Commit)
  /\ WF_node_vars(part = "node" /\ Node!PublishCursor)
  /\ WF_node_vars(part = "node" /\ Node!PublishIndex)
  /\ WF_node_vars(part = "node" /\ Node!PublishReadiness)
  /\ WF_node_vars(part = "node" /\ Node!Acknowledge)
  /\ WF_node_vars(part = "node" /\ Node!StartUp)
  /\ WF_node_vars(part = "node" /\ Node!Accept)
  /\ WF_node_vars(part = "node" /\ Node!Shutdown)
  /\ WF_setup_vars(part = "setup" /\ Opening!Drive("provider"))
  /\ WF_setup_vars(part = "setup" /\ Opening!EmptyBlock)
  /\ SF_setup_vars(part = "setup" /\ "timeoutBond" \in setup_pool /\ Opening!Include("timeoutBond"))

MCSpec == MCInit /\ [][MCNext]_<<part, vars, node_vars, setup_vars>> /\ Fairness

---------------------------------------------------------------------------
\* A certified block that the index has not published
Unindexed == \E h \in LateCertificates : node_tip >= h /\ node_idx.latest < h

\* A setup of which the provider has signed revision one or three, with no channel and no
\* outcome; one left at revision two waits for the client
Undecided ==
  /\ setup_setup["provider"].revision \notin {0, 2}
  /\ setup_setup["provider"].end = "none" /\ setup_channel["provider"].cursor = 0

\* Every certified block is published by the index in the end, despite stops; and a setup
\* that the provider has signed is decided: the channel is mounted, or the setup has
\* an outcome.
NothingIsLeftBehind == 
  \/ part = "node" /\ Unindexed
  \/ part = "setup" /\ Undecided
  ~>
  \/ part = "node" /\ ~Unindexed
  \/ part = "setup" /\ ~Undecided

\* Wherever the node is stopped, opening it again reconciles archive, database and
\* index; the published index is the history of one checkpoint, never behind what
\* marshal believes processed nor what readiness announced, and answers the owner
\* proofs and listings asked of it while blocks are published.
NodeIsCoherent ==
  /\ part = "node" => /\ Node!RecoveryNeverWedges
                      /\ Node!IndexIsHistory
                      /\ Node!AcknowledgedIsIndexed
                      /\ Node!OwnerProofsAnswer
                      /\ Node!ReadinessIsBacked
  /\ part = "listings" => Listings!ListingsAreExact
=============================================================================
