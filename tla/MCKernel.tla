------------------------------ MODULE MCKernel ------------------------------
(*************************************************************************)
(* Two worlds of the settlement kernel that share nothing; scene says which *)
(* one a behaviour is about, and the other stays as it began.            *)
(*   work   a provider P, its node N as its signer, and a client C with two *)
(*          coins that compete for one bond: every way the contest over a *)
(*          channel's close can go, and what the channel's lease leaves  *)
(*          behind for the second coin                                   *)
(*   owner  an owner A that delegates coins to its node S, and a counterparty *)
(*          B.  A may stop signing at any moment, after which S and B are on *)
(*          their own with A's coins and edges; two fee schedules alternate, *)
(*          so edges are closed under other prices than they were opened under *)
(*************************************************************************)
EXTENDS Kernel

VARIABLE scene

VARIABLES
  owner_signers, owner_certificates, owner_height, owner_fees, owner_coins,
  owner_edges, owner_leases, owner_pending

owner_vars ==
  <<owner_signers, owner_certificates, owner_height, owner_fees, owner_coins,
  owner_edges, owner_leases, owner_pending>>

---------------------------------------------------------------------------
(* The work world *)

Payout(owner, delegate, value) == [owner |-> owner, delegate |-> delegate, value |-> value]

BondOf(maker, taker, outputs) ==
  [profile |-> "WorkStakeBond", parties |-> [maker |-> maker, taker |-> taker],
   timeout |-> 2, max_job_price |-> 1, outputs |-> outputs]

NodeSigned == [owner |-> "P", signer |-> "N", payout_delegate |-> "N"]

SelfSigned == [owner |-> "C", signer |-> "C", payout_delegate |-> NoKey]

WorkGenesis == <<Payout("P", NoKey, 2), Payout("C", NoKey, 3), Payout("C", NoKey, 3)>>

Schedule(base, proof) == [base |-> base, slot |-> 0, proof |-> proof, lifetime |-> 0]

WorkFees == {Schedule(0, 0)}

WorkBonds == {BondOf(NodeSigned, SelfSigned, <<Payout("P", "N", 2)>>)}

WorkPolicies ==
  {[omit_response_blocks |-> 2, start_validity_blocks |-> 2, omission_bond |-> 1]}

WorkWindows ==
  {[from |-> h, through |-> h + 1] : h \in {0, 2}} \cup {[from |-> 0, through |-> 4]}

---------------------------------------------------------------------------
(* The owner's world *)

OwnerA == [owner |-> "A", signer |-> "S", payout_delegate |-> "S"]

OwnerB == [owner |-> "B", signer |-> "B", payout_delegate |-> NoKey]

OwnerGenesis == <<Payout("A", NoKey, 3), Payout("B", NoKey, 3)>>

OwnerFees == {Schedule(1, 0), Schedule(0, 1)}

Basic(outputs) ==
  [profile |-> "Basic", parties |-> [maker |-> OwnerA, taker |-> OwnerB],
   timeout |-> 2, outputs |-> outputs]

\* priced for both schedules, funded by both parties or by A alone
OwnerBasics ==
  {Basic(<<Payout("A", "S", 3), Payout("B", NoKey, 1)>>),
   Basic(<<Payout("A", "S", 1), Payout("B", NoKey, 2)>>),
   Basic(<<Payout("A", "S", 1)>>)}

OwnerBonds ==
  {BondOf(OwnerA, OwnerB, <<Payout("A", "S", 1)>>), BondOf(OwnerB, OwnerA, <<Payout("B", NoKey, 1)>>)}

OwnerPolicies ==
  {[omit_response_blocks |-> 1, start_validity_blocks |-> 1, omission_bond |-> 0]}

\* delegate, undelegate, pay, and the ways two parties split a basic edge
OwnerOutputs ==
  {<<Payout("A", "S", 3)>>, <<Payout("A", NoKey, 3)>>,
   <<Payout("A", "S", 1), Payout("B", NoKey, 2)>>, <<Payout("B", NoKey, 4)>>,
   <<Payout("A", NoKey, 4)>>, <<Payout("A", NoKey, 1), Payout("A", "S", 2)>>}

OwnerWindows == {[from |-> h, through |-> h] : h \in 0..2}

---------------------------------------------------------------------------
Owner == INSTANCE Kernel WITH
  Keys <- {"A", "S", "B"}, MayRetire <- {"A"}, Genesis <- OwnerGenesis,
  FeeSchedules <- OwnerFees, BasicTerms <- OwnerBasics, BondTerms <- OwnerBonds,
  PaymentPolicies <- OwnerPolicies, Amounts <- {1}, OutputLists <- OwnerOutputs,
  Windows <- OwnerWindows, U64Max <- 7, MAX_EDGE_OUTPUTS <- 2, MaxInputs <- 2,
  MaxGeneration <- 2, MaxHeight <- 2, signers <- owner_signers,
  certificates <- owner_certificates, height <- owner_height, fees <- owner_fees,
  coins <- owner_coins, edges <- owner_edges, leases <- owner_leases,
  pending <- owner_pending

---------------------------------------------------------------------------
MCInit ==
  /\ scene \in {"work", "owner"}
  /\ Init
  /\ Owner!Init /\ (scene = "work" => owner_fees = Schedule(1, 0))

WorkStep ==
  scene = "work" /\ Next /\ UNCHANGED <<scene, owner_vars>>

OwnerStep ==
  scene = "owner" /\ Owner!Next /\ UNCHANGED <<scene, vars>>

MCNext == WorkStep \/ OwnerStep

MCSpec == MCInit /\ [][MCNext]_<<scene, vars, owner_vars>>

---------------------------------------------------------------------------

\* Value stays its owner's, whatever fees later blocks carry and whatever a node key
\* does on its own: the payouts an open committed are exactly what the timeout close
\* distributes, no transaction creates value, and a delegate can only move a silent
\* owner's delegated coins into a work edge as that owner's stake.
OwnersKeepTheirValue ==
  /\ [](scene = "owner" => Owner!TimeoutAlwaysPayable)
  /\ Owner!ValueNeverGrows
  /\ Owner!SilentOwnerKeepsCoins
=============================================================================
