--------------------------- MODULE KernelObjects ---------------------------
(***************************************************************************)
(* The values the settlement kernel computes with: keys and parties, terms *)
(* by profile, edges, object ids, costs and fees.  Pure operators only;    *)
(* the state machine is in Kernel.                                         *)
(*                                                                         *)
(* A hash commitment is modelled as its own preimage: an edge id is the    *)
(* record of the terms and the funding it commits to, and a coin id names  *)
(* the edge or the inputs that issued it.  Collision freedom is then       *)
(* equality, and nothing else is assumed about ids.  The second component  *)
(* of a coin id is its generation, the number of transactions between it   *)
(* and genesis; it is determined by the rest of the id and only serves to  *)
(* bound a model.                                                          *)
(***************************************************************************)
EXTENDS Integers, Sequences, Functions

CONSTANTS
  NoKey,              \* Option::None for a delegate
  U64Max,             \* u64::MAX, scaled down
  MAX_EDGE_OUTPUTS    \* payouts one close may carry

ASSUME LimitsAssumption == U64Max \in Nat /\ MAX_EDGE_OUTPUTS \in Nat

Put(f, k, v) == [x \in DOMAIN f \cup {k} |-> IF x = k THEN v ELSE f[x]]

Drop(f, S) == Restrict(f, DOMAIN f \ S)

SumOf(s) == SumFunction([i \in DOMAIN s |-> s[i].value])

---------------------------------------------------------------------------
(* Parties and payouts *)

Authority == {"Owner", "Signer"}

KeyOf(party, authority) ==
  IF authority = "Owner" THEN party.owner ELSE party.signer

\* PartyKeys::payout: an owner-signed exit issues the coin undelegated
PayoutTo(party, value, ownerSigned) ==
  [owner |-> party.owner,
   delegate |-> IF ownerSigned THEN NoKey ELSE party.payout_delegate,
   value |-> value]

IsDestination(party, payout, ownerSigned) ==
  payout = PayoutTo(party, payout.value, ownerSigned)

PaidSolelyTo(outputs, party) ==
  /\ outputs # <<>>
  /\ \A i \in DOMAIN outputs : IsDestination(party, outputs[i], FALSE)

---------------------------------------------------------------------------
(* Terms.  A payment's parties and horizon are derived from its bond's.    *)

WorkPayment(bondEdge, bondTerms, policy) ==
  [profile |-> "WorkPayment", bond_edge |-> bondEdge, bond_terms |-> bondTerms,
   omit_response_blocks |-> policy.omit_response_blocks,
   start_validity_blocks |-> policy.start_validity_blocks,
   omission_bond |-> policy.omission_bond]

IsPayment(t) == t.profile = "WorkPayment"

IsWorkBond(t) == t.profile = "WorkStakeBond"

PartiesOf(t) ==
  IF IsPayment(t)
  THEN [maker |-> t.bond_terms.parties.taker, taker |-> t.bond_terms.parties.maker]
  ELSE t.parties

TimeoutOf(t) == IF IsPayment(t) THEN t.bond_terms.timeout ELSE t.timeout

AllowedCloses(t) ==
  CASE IsPayment(t)  -> {"Freeze", "Adjudicated"}
    [] IsWorkBond(t) -> {"Timeout"}
    [] OTHER         -> {"Mutual", "Timeout"}

---------------------------------------------------------------------------
(* Object ids *)

EdgeId(t, maker, taker) == [terms |-> t, maker |-> maker, taker |-> taker]

GenesisId(n) == <<"genesis", 0, n>>

Generation(id) == id[2]

NextGeneration(ids) ==
  1 + FoldFunction(LAMBDA id, g : IF Generation(id) > g THEN Generation(id) ELSE g, 0, ids)

PayoutId(e, i, owner) ==
  <<"payout", NextGeneration(e.maker \o e.taker), e, i, owner>>

ReshapeId(inputs, i, owner) ==
  <<"reshape", NextGeneration(inputs), inputs, i, owner>>

---------------------------------------------------------------------------
(* Costs and fees *)

Cost(slots, proofs) == [base |-> 1, slots |-> slots, proofs |-> proofs]

\* Fees::charge; the code's None on overflow is a result above U64Max
Charge(fees, cost) ==
  fees.base * cost.base + fees.slot * cost.slots + fees.proof * cost.proofs

CloseProofs(kind) == IF kind \in {"Mutual", "Freeze"} THEN 2 ELSE 1

WORK_BOND_TIMEOUT_EXTRA_SLOTS == 4

WORK_PAYMENT_CLOSE_SLOTS == 4

CloseCost(t, kind, outputs) ==
  CASE kind \in {"Freeze", "Adjudicated"} ->
         Cost(WORK_PAYMENT_CLOSE_SLOTS, CloseProofs(kind))
    [] kind = "Timeout" /\ IsWorkBond(t) ->
         Cost(outputs + WORK_BOND_TIMEOUT_EXTRA_SLOTS, CloseProofs(kind))
    [] OTHER -> Cost(outputs + 1, CloseProofs(kind))

OpenCost(t, inputs) == Cost(inputs + (IF IsPayment(t) THEN 4 ELSE 1), 2)

OpenReserveCost(t) ==
  CASE IsPayment(t)  -> CloseCost(t, "Freeze", 2)
    [] IsWorkBond(t) -> Cost(MAX_EDGE_OUTPUTS + WORK_BOND_TIMEOUT_EXTRA_SLOTS,
                             CloseProofs("Mutual"))
    [] OTHER         -> CloseCost(t, "Mutual", MAX_EDGE_OUTPUTS)

LifetimeFee(t, fees, height) == fees.lifetime * (TimeoutOf(t) - height)

OpenDebits(t, fees, height, inputs) ==
  Charge(fees, OpenCost(t, inputs)) + LifetimeFee(t, fees, height)
    + Charge(fees, OpenReserveCost(t))

---------------------------------------------------------------------------
(* Edges *)

\* Edge::open: what the funding is worth after its three debits
EdgeOpened(t, fees, height, inputs, total) ==
  [value |-> total - OpenDebits(t, fees, height, inputs),
   reserve |-> Charge(fees, OpenReserveCost(t)),
   close_fees |-> fees,
   timeout |-> TimeoutOf(t),
   parties |-> PartiesOf(t),
   terms |-> t,
   allowed |-> AllowedCloses(t)]

\* EdgeValues::close_value, priced by the schedule the edge stored at open
CloseValue(edge, cost) == edge.value + (edge.reserve - Charge(edge.close_fees, cost))

\* close_value is Some
CloseValueDefined(edge, cost) ==
  /\ Charge(edge.close_fees, cost) <= edge.reserve
  /\ CloseValue(edge, cost) <= U64Max

FreezeTotal(edge) == CloseValue(edge, CloseCost(edge.terms, "Freeze", 2))

AdjudicatedTotal(edge) == CloseValue(edge, CloseCost(edge.terms, "Adjudicated", 2))

\* Mutant: the payout is compared with the locked value, the refund forgotten
PayoutWithoutRefund(t, edge) == SumOf(t.outputs) = edge.value

\* check_timeout_payout: the committed outputs are what the timeout will pay
TimeoutPayoutOk(t, edge) ==
  LET cost == CloseCost(t, "Timeout", Len(t.outputs))
  IN /\ CloseValueDefined(edge, cost)
     /\ SumOf(t.outputs) = CloseValue(edge, cost)
     /\ \A i \in DOMAIN t.outputs :
          \/ IsDestination(t.parties.maker, t.outputs[i], FALSE)
          \/ IsDestination(t.parties.taker, t.outputs[i], FALSE)

RouteMinimum(edge) ==
  IF FreezeTotal(edge) < AdjudicatedTotal(edge)
  THEN FreezeTotal(edge) ELSE AdjudicatedTotal(edge)

\* both work-payment exits can be priced from the one reserve
RoutesDefined(edge) ==
  /\ CloseValueDefined(edge, CloseCost(edge.terms, "Freeze", 2))
  /\ CloseValueDefined(edge, CloseCost(edge.terms, "Adjudicated", 2))

\* Mutant: the omission bond is not set aside
CapacityWithoutBond(edge, omissionBond) == RouteMinimum(edge)

PaymentCapacity(edge, omissionBond) == RouteMinimum(edge) - omissionBond

\* split_payouts: provider first, client second; undefined above the total
SplitPayouts(parties, total, provider, ownerSigned) ==
  <<PayoutTo(parties.taker, provider, ownerSigned.taker),
    PayoutTo(parties.maker, total - provider, ownerSigned.maker)>>

---------------------------------------------------------------------------
(* The contest over a payment close: PendingPaymentClose *)

StartId(opener, claimed, height) == [opener |-> opener, claimed |-> claimed, at |-> height]

PendingOpened(opener, claimed, height, t, ownerSigned) ==
  [opener_role |-> opener,
   start_id |-> StartId(opener, claimed, height),
   response_deadline |-> height + t.omit_response_blocks,
   start_cumulative |-> claimed,
   final_cumulative |-> claimed,
   responded |-> FALSE,
   penalty_due |-> FALSE,
   penalty_amount |-> t.omission_bond,
   owner_signed |-> [maker |-> opener = "Maker" /\ ownerSigned,
                     taker |-> opener = "Taker" /\ ownerSigned]]

RespondedAt(record, amount, ownerSigned) ==
  [record EXCEPT !.final_cumulative = amount,
                 !.responded = TRUE,
                 !.penalty_due = @ \/ record.opener_role = "Maker",
                 !.owner_signed.taker = @ \/ ownerSigned]

Penalty(record) == IF record.penalty_due THEN record.penalty_amount ELSE 0

\* Mutant: agreeing to freeze forgives the penalty
FreezeForgives(record, earned) == 0

FreezePenalty(record, earned) ==
  IF \/ record.penalty_due
     \/ record.opener_role = "Maker" /\ earned > record.start_cumulative
  THEN record.penalty_amount ELSE 0

\* The one response is in, or its window is spent
ContestOver(record, height) == record.responded \/ height >= record.response_deadline

DeadlineFits(t, height) == height + t.omit_response_blocks <= U64Max

\* adjudicated_preimage: neither the opener nor whether it was answered
ContestCommitment(e, record) ==
  [edge |-> e, start_id |-> record.start_id,
   response_deadline |-> record.response_deadline,
   start_cumulative |-> record.start_cumulative,
   final_cumulative |-> record.final_cumulative,
   penalty_due |-> record.penalty_due,
   penalty_amount |-> record.penalty_amount,
   owner_signed |-> record.owner_signed]

\* check_validity_window: inclusive at both ends, at most maxSpan blocks wide
InValidityWindow(height, window, maxSpan) ==
  /\ window.from <= height /\ height <= window.through
  /\ window.through - window.from + 1 <= maxSpan
=============================================================================
