---------------------------- MODULE KernelTypes -----------------------------
(***************************************************************************)
(* Machine-checked proofs about the settlement kernel, for every value of  *)
(* its constants: what opening and closing an edge does to the state, and  *)
(* type correctness.                                                       *)
(***************************************************************************)
EXTENDS Kernel, TLAPS

---------------------------------------------------------------------------
(* Lemmas about the operators *)

\* Amounts are integers, and none exceeds itself.
LEMMA AmountFacts ==
  /\ \A n \in 0..U64Max : n \in Int
  /\ \A n \in Int : ~(n > n) /\ n >= n
BY InputsAssumption

LEMMA GrowsStrictly == \A a, b, c \in Int : a > b /\ b >= c => a > c /\ a >= c
OBVIOUS

LEMMA CapacityType ==
  ASSUME NEW e, NEW b \in 0..U64Max, FreezeTotal(e) \in Int, AdjudicatedTotal(e) \in Int
  PROVE  PaymentCapacity(e, b) \in Int
BY InputsAssumption DEF PaymentCapacity, RouteMinimum

\* A charge is a natural number: fees and costs never go negative.
LEMMA ChargeType ==
  ASSUME NEW f \in FeeSchedules, NEW cost, cost.base \in Nat, cost.slots \in Nat, cost.proofs \in Nat
  PROVE  Charge(f, cost) \in Nat
<1>1. f.base \in Nat /\ f.slot \in Nat /\ f.proof \in Nat
  BY InputsAssumption
<1>2. \A a, b \in Nat : a * b \in Nat
  OBVIOUS
<1>. QED BY <1>1, <1>2 DEF Charge

\* The price of every close of an edge is a natural number.
LEMMA CloseCharge ==
  ASSUME NEW f \in FeeSchedules, NEW t, NEW kind, NEW n \in Nat
  PROVE  Charge(f, CloseCost(t, kind, n)) \in Nat
<1>. DEFINE c == CloseCost(t, kind, n)
<1>1. c.base \in Nat /\ c.slots \in Nat /\ c.proofs \in Nat
  BY DEF CloseCost, Cost, CloseProofs, WORK_PAYMENT_CLOSE_SLOTS, WORK_BOND_TIMEOUT_EXTRA_SLOTS
<1>. QED BY <1>1, ChargeType

\* Well-formed terms of each profile, unfolded.
LEMMA TermsFacts ==
  ASSUME NEW t, WellFormed(t)
  PROVE  /\ PartiesOf(t) \in PartyPair
         /\ TimeoutOf(t) \in Nat
         /\ IsPayment(t) =>
              /\ t.bond_terms \in BondTerms /\ t.bond_edge.terms = t.bond_terms
              /\ IsWorkBond(t.bond_terms) /\ ~IsPayment(t.bond_terms)
              /\ TimeoutOf(t) = TimeoutOf(t.bond_terms)
              /\ t.omission_bond \in 0..U64Max /\ t.omit_response_blocks \in Nat
         /\ ~IsPayment(t) => t.outputs \in Seq(Coin)
<1>1. CASE t \in BasicTerms \cup BondTerms
  BY <1>1, InputsAssumption
  DEF WellFormed, IsPayment, IsWorkBond, PartiesOf, TimeoutOf, PartyPair
<1>2. CASE t \notin BasicTerms \cup BondTerms
  BY <1>2, InputsAssumption
  DEF WellFormed, IsPayment, IsWorkBond, PartiesOf, TimeoutOf, PartyPair
<1>. QED BY <1>1, <1>2

\* What a close does to the edges.
LEMMA CloseEffect ==
  ASSUME NEW e, NEW kind, NEW outputs, CloseEdge(e, kind, outputs)
  PROVE  /\ e \in DOMAIN edges /\ kind \in edges[e].allowed
         /\ DOMAIN edges' = DOMAIN edges \ {e}
         /\ \A x \in DOMAIN edges' : edges'[x] = edges[x]
         /\ UNCHANGED <<signers, certificates, height, fees>>
<1>1. edges' = Drop(edges, {e})
  BY DEF CloseEdge
<1>2. /\ e \in DOMAIN edges /\ kind \in edges[e].allowed
      /\ UNCHANGED <<signers, certificates, height, fees>>
  BY DEF CloseEdge, world
<1>. QED BY <1>1, <1>2 DEF Drop, Restrict

\* What an open of e does to the edges and the leases, and the conditions on
\* terms and bond under which it does it
OpenResult(t, e) ==
  /\ e \notin DOMAIN edges /\ e.terms = t
  /\ DOMAIN edges' = DOMAIN edges \cup {e}
  /\ \A x \in DOMAIN edges : edges'[x] = edges[x]
  /\ edges'[e].terms = t /\ edges'[e].timeout = TimeoutOf(t)
  /\ TimeoutOf(t) > height
  /\ IsPayment(t) =>
       /\ t.bond_edge \in DOMAIN edges \ DOMAIN leases
       /\ edges[t.bond_edge].terms = t.bond_terms
       /\ DOMAIN leases' = DOMAIN leases \cup {t.bond_edge}
       /\ leases'[t.bond_edge] = e
       /\ \A b \in DOMAIN leases : leases'[b] = leases[b]
  /\ ~IsPayment(t) => leases' = leases
  /\ UNCHANGED <<signers, certificates, height, fees, pending>>

\* An accepted open has exactly those effects (apply_open, open_bond_lease).
LEMMA OpenEffect ==
  ASSUME NEW t, NEW maker, NEW taker, NEW ma, NEW ta, Open(t, maker, taker, ma, ta)
  PROVE  OpenResult(t, EdgeId(t, maker, taker))
<1>. DEFINE e == EdgeId(t, maker, taker)
            ids == maker \o taker
            edge == EdgeOpened(t, fees, height, Len(ids), SumOf([i \in DOMAIN ids |-> coins[ids[i]]]))
<1>1. /\ e \notin DOMAIN edges
      /\ edges' = Put(edges, e, edge)
      /\ leases' = IF IsPayment(t) THEN Put(leases, t.bond_edge, e) ELSE leases
      /\ BondFree(t)
      /\ UNCHANGED <<signers, certificates, height, fees, pending>>
  BY DEF Open, world
<1>2. TimeoutOf(t) > height
  BY Zenon DEF Open, OpenAffordable
<1>3. e.terms = t
  BY DEF EdgeId
<1>4. edge.terms = t /\ edge.timeout = TimeoutOf(t)
  BY DEF EdgeOpened
<1>. HIDE DEF e, edge
<1>5. /\ DOMAIN edges' = DOMAIN edges \cup {e}
      /\ \A x \in DOMAIN edges : edges'[x] = edges[x]
      /\ edges'[e] = edge
  BY <1>1 DEF Put
<1>6. IsPayment(t) =>
        /\ t.bond_edge \in DOMAIN edges \ DOMAIN leases
        /\ edges[t.bond_edge].terms = t.bond_terms
        /\ DOMAIN leases' = DOMAIN leases \cup {t.bond_edge}
        /\ leases'[t.bond_edge] = e
        /\ \A b \in DOMAIN leases : leases'[b] = leases[b]
  BY <1>1 DEF Put, BondFree
<1>. QED BY <1>1, <1>2, <1>3, <1>4, <1>5, <1>6 DEF e, OpenResult

---------------------------------------------------------------------------
(* Type correctness *)

\* Consuming an edge and issuing well-typed payouts keeps coins and edges
\* well-typed (apply_close).
LEMMA CloseEdgeType ==
  ASSUME TypeOK, NEW e, NEW kind, NEW outputs \in Seq(Coin), CloseEdge(e, kind, outputs)
  PROVE  CoinsOK' /\ EdgesOK' /\ UNCHANGED <<signers, certificates, height, fees>>
<1>. DEFINE ids == [i \in DOMAIN outputs |-> PayoutId(e, i, outputs[i].owner)]
<1>1. /\ coins' = [id \in DOMAIN coins \cup Range(ids) |->
                     IF id \in DOMAIN coins THEN coins[id]
                     ELSE outputs[CHOOSE i \in DOMAIN ids : ids[i] = id]]
      /\ UNCHANGED <<signers, certificates, height, fees>>
  BY DEF CloseEdge, world
<1>2. EdgesOK'
  BY CloseEffect, Zenon DEF EdgesOK, TypeOK
<1>3. ASSUME NEW id \in Range(ids)
      PROVE  outputs[CHOOSE i \in DOMAIN ids : ids[i] = id] \in Coin
  <2>1. \E i \in DOMAIN ids : ids[i] = id
    BY <1>3 DEF Range
  <2>2. (CHOOSE i \in DOMAIN ids : ids[i] = id) \in DOMAIN ids
    BY <2>1
  <2>3. DOMAIN ids = DOMAIN outputs
    OBVIOUS
  <2>. QED BY <2>2, <2>3
<1>4. CoinsOK'
  <2>1. \A id \in DOMAIN coins : coins[id] \in Coin
    BY DEF TypeOK, CoinsOK
  <2>. HIDE DEF ids
  <2>. QED BY <1>1, <1>3, <2>1, Zenon DEF CoinsOK
<1>. QED BY <1>1, <1>2, <1>4

\* Proposed terms that an open accepts are well-formed (open_bond_lease compares
\* the embedded bond terms with the live bond's).
LEMMA OpenWellFormed ==
  ASSUME EdgesOK, NEW t \in ProposedTerms, BondFree(t)
  PROVE  WellFormed(t)
<1>1. CASE t \in BasicTerms \cup BondTerms
  BY <1>1 DEF WellFormed
<1>2. CASE t \notin BasicTerms \cup BondTerms
  <2>1. PICK b \in LiveBonds, bt \in BondTerms, p \in PaymentPolicies : t = WorkPayment(b, bt, p)
    BY <1>2 DEF ProposedTerms
  <2>2. IsPayment(t) /\ t.bond_edge = b /\ t.bond_terms = bt
    BY <2>1 DEF WorkPayment, IsPayment
  <2>3. b.terms = bt
    BY <2>2 DEF BondFree, EdgesOK
  <2>4. [omit_response_blocks |-> t.omit_response_blocks,
         start_validity_blocks |-> t.start_validity_blocks,
         omission_bond |-> t.omission_bond] = p
    BY <2>1, InputsAssumption DEF WorkPayment
  <2>. QED BY <2>2, <2>3, <2>4 DEF WellFormed
<1>. QED BY <1>1, <1>2

\* The three debits of an open are natural numbers.
LEMMA DebitsType ==
  ASSUME NEW t, WellFormed(t), NEW f \in FeeSchedules, NEW h \in Nat, NEW n \in Nat,
         TimeoutOf(t) > h
  PROVE  Charge(f, OpenReserveCost(t)) \in Nat /\ OpenDebits(t, f, h, n) \in Nat
<1>. DEFINE r == OpenReserveCost(t)
            o == OpenCost(t, n)
<1>1. r.base \in Nat /\ r.slots \in Nat /\ r.proofs \in Nat
  BY LimitsAssumption
  DEF OpenReserveCost, CloseCost, Cost, CloseProofs,
      WORK_PAYMENT_CLOSE_SLOTS, WORK_BOND_TIMEOUT_EXTRA_SLOTS
<1>2. o.base \in Nat /\ o.slots \in Nat /\ o.proofs \in Nat
  BY DEF OpenCost, Cost
<1>. HIDE DEF r, o
<1>3. Charge(f, r) \in Nat /\ Charge(f, o) \in Nat
  BY <1>1, <1>2, ChargeType
<1>4. LifetimeFee(t, f, h) \in Nat
  <2>1. f.lifetime \in Nat /\ TimeoutOf(t) - h \in Nat
    BY InputsAssumption, TermsFacts
  <2>2. \A a, b \in Nat : a * b \in Nat
    OBVIOUS
  <2>. QED BY <2>1, <2>2 DEF LifetimeFee
<1>. QED BY <1>3, <1>4 DEF OpenDebits, r, o

\* Opening an edge keeps the types: its value is what the funding leaves after
\* debits it covers, so it neither underflows nor exceeds the funding
\* (open_debits).
LEMMA OpenType ==
  ASSUME TypeOK, NEW t \in ProposedTerms, NEW maker, NEW taker, NEW ma, NEW ta,
         Len(maker \o taker) \in Nat, Open(t, maker, taker, ma, ta)
  PROVE  TypeOK'
<1>. DEFINE e == EdgeId(t, maker, taker)
            ids == maker \o taker
            total == SumOf([i \in DOMAIN ids |-> coins[ids[i]]])
            edge == EdgeOpened(t, fees, height, Len(ids), total)
<1>1. WellFormed(t)
  BY OpenWellFormed, Zenon DEF Open, TypeOK
<1>2. /\ TimeoutOf(t) > height /\ total \in 0..U64Max
      /\ Charge(fees, OpenReserveCost(t)) <= U64Max
      /\ OpenDebits(t, fees, height, Len(ids)) <= total
  BY Zenon DEF Open, OpenAffordable
<1>3. /\ Charge(fees, OpenReserveCost(t)) \in Nat
      /\ OpenDebits(t, fees, height, Len(ids)) \in Nat
  <2>1. fees \in FeeSchedules /\ height \in Nat
    BY InputsAssumption DEF TypeOK
  <2>2. Len(ids) \in Nat
    OBVIOUS
  <2>. HIDE DEF total, ids
  <2>. QED BY <1>1, <1>2, <2>1, <2>2, DebitsType
<1>4. /\ edge.value \in 0..U64Max /\ edge.reserve \in 0..U64Max
      /\ edge.close_fees = fees /\ edge.timeout = TimeoutOf(t)
      /\ edge.parties = PartiesOf(t) /\ edge.allowed = AllowedCloses(t) /\ edge.terms = t
  <2>. HIDE DEF total, ids
  <2>. QED BY <1>2, <1>3, LimitsAssumption DEF EdgeOpened
<1>5. edges' = Put(edges, e, edge) /\ coins' = Drop(coins, Range(ids))
  BY Zenon DEF Open
<1>6. e.terms = t
  BY DEF EdgeId
<1>7. EdgesOK'
  <2>. HIDE DEF e, edge
  <2>1. /\ DOMAIN edges' = DOMAIN edges \cup {e} /\ edges'[e] = edge
        /\ \A x \in DOMAIN edges : x # e => edges'[x] = edges[x]
    BY <1>5 DEF Put
  <2>. QED BY <1>1, <1>4, <1>6, <2>1 DEF TypeOK, EdgesOK
<1>8. CoinsOK'
  BY <1>5 DEF TypeOK, CoinsOK, Drop, Restrict
<1>. QED BY <1>7, <1>8, OpenEffect, Zenon DEF TypeOK, OpenResult

\* What an edge distributes through a payment exit fits a u64 once the close
\* is priced (EdgeValues::close_value).
LEMMA TotalsType ==
  ASSUME EdgesOK, NEW e \in DOMAIN edges
  PROVE  /\ FreezeTotal(edges[e]) \in Int /\ AdjudicatedTotal(edges[e]) \in Int
         /\ RoutesDefined(edges[e]) =>
              FreezeTotal(edges[e]) <= U64Max /\ AdjudicatedTotal(edges[e]) <= U64Max
<1>. DEFINE f == Charge(edges[e].close_fees, CloseCost(edges[e].terms, "Freeze", 2))
            a == Charge(edges[e].close_fees, CloseCost(edges[e].terms, "Adjudicated", 2))
<1>1. f \in Nat /\ a \in Nat
  BY CloseCharge DEF EdgesOK
<1>2. edges[e].value \in Int /\ edges[e].reserve \in Int
  BY DEF EdgesOK
<1>3. /\ FreezeTotal(edges[e]) = edges[e].value + (edges[e].reserve - f)
      /\ AdjudicatedTotal(edges[e]) = edges[e].value + (edges[e].reserve - a)
  BY DEF FreezeTotal, AdjudicatedTotal, CloseValue
<1>. HIDE DEF f, a
<1>4. RoutesDefined(edges[e]) =>
        FreezeTotal(edges[e]) <= U64Max /\ AdjudicatedTotal(edges[e]) <= U64Max
  BY DEF RoutesDefined, CloseValueDefined, FreezeTotal, AdjudicatedTotal
<1>. QED BY <1>1, <1>2, <1>3, <1>4

\* Splitting a total leaves two well-typed payouts (split_payouts).
LEMMA SplitType ==
  ASSUME NEW parties \in PartyPair, NEW total \in Int, total <= U64Max,
         NEW provider \in Nat, provider <= total, NEW ownerSigned
  PROVE  SplitPayouts(parties, total, provider, ownerSigned) \in Seq(Coin)
<1>1. \A p \in PartyKeys, v \in 0..U64Max : \A s : PayoutTo(p, v, s) \in Coin
  BY DEF PartyKeys, PayoutTo, Coin
<1>2. provider \in 0..U64Max /\ total - provider \in 0..U64Max
  BY LimitsAssumption
<1>3. parties.maker \in PartyKeys /\ parties.taker \in PartyKeys
  BY DEF PartyPair
<1>4. /\ PayoutTo(parties.taker, provider, ownerSigned.taker) \in Coin
      /\ PayoutTo(parties.maker, total - provider, ownerSigned.maker) \in Coin
  BY <1>1, <1>2, <1>3
<1>. QED BY <1>4 DEF SplitPayouts

\* The contests of edges that stay are untouched by a payment exit.
LEMMA DeleteContestType ==
  ASSUME \A x \in DOMAIN pending : pending[x] \in Contest, NEW e, ContestDeleted(e)
  PROVE  \A x \in DOMAIN pending' : pending'[x] \in Contest
<1>1. /\ DOMAIN pending' = DOMAIN pending \ {e}
      /\ \A x \in DOMAIN pending' : pending'[x] = pending[x]
  BY DEF ContestDeleted, Drop, Restrict
<1>. QED BY <1>1

\* A freeze pays both parties amounts that fit a u64 (check_freeze).
LEMMA CloseFreezeType ==
  ASSUME TypeOK, NEW e, NEW earned \in Nat, NEW w, NEW ma, NEW ta,
         CloseFreeze(e, earned, w, ma, ta)
  PROVE  TypeOK'
<1>. DEFINE contested == e \in DOMAIN pending
            provider == IF contested THEN earned + FreezePenalty(pending[e], earned) ELSE earned
            signed == [maker |-> ma = "Owner" \/ (contested /\ pending[e].owner_signed.maker),
                       taker |-> ta = "Owner" \/ (contested /\ pending[e].owner_signed.taker)]
            total == FreezeTotal(edges[e])
            outputs == SplitPayouts(edges[e].parties, total, provider, signed)
<1>1. /\ e \in DOMAIN edges /\ provider <= total
      /\ CloseEdge(e, "Freeze", outputs) /\ ContestDeleted(e)
  BY Zenon DEF CloseFreeze, LivePayments
<1>2. provider \in Nat
  BY DEF TypeOK, Contest, FreezePenalty
<1>3. total \in Int
  BY <1>1, TotalsType DEF TypeOK
<1>4. edges[e].parties \in PartyPair
  BY <1>1, TermsFacts, Zenon DEF TypeOK, EdgesOK
<1>5. total <= U64Max
  <2>1. CloseValueDefined(edges[e], CloseCost(edges[e].terms, "Freeze", Len(outputs)))
    BY <1>1, Zenon DEF CloseEdge
  <2>2. Len(outputs) = 2
    BY DEF SplitPayouts
  <2>. QED BY <2>1, <2>2, Zenon DEF CloseValueDefined, FreezeTotal
<1>6. outputs \in Seq(Coin)
  <2>. HIDE DEF provider, total, signed
  <2>. QED BY <1>1, <1>2, <1>3, <1>4, <1>5, SplitType
<1>. HIDE DEF outputs
<1>. QED BY <1>1, <1>6, CloseEdgeType, DeleteContestType DEF TypeOK

\* So does an adjudication (check_adjudicated).
LEMMA CloseAdjudicatedType ==
  ASSUME TypeOK, NEW e, NEW commitment, CloseAdjudicated(e, commitment)
  PROVE  TypeOK'
<1>. DEFINE provider == pending[e].final_cumulative + Penalty(pending[e])
            total == AdjudicatedTotal(edges[e])
            outputs == SplitPayouts(edges[e].parties, total, provider, pending[e].owner_signed)
<1>1. /\ e \in DOMAIN edges /\ e \in DOMAIN pending /\ provider <= total
      /\ CloseEdge(e, "Adjudicated", outputs) /\ ContestDeleted(e)
  BY DEF CloseAdjudicated, LivePayments
<1>2. provider \in Nat
  BY <1>1 DEF TypeOK, Contest, Penalty
<1>3. total \in Int
  BY <1>1, TotalsType DEF TypeOK
<1>4. edges[e].parties \in PartyPair
  BY <1>1, TermsFacts, Zenon DEF TypeOK, EdgesOK
<1>5. total <= U64Max
  <2>1. CloseValueDefined(edges[e], CloseCost(edges[e].terms, "Adjudicated", Len(outputs)))
    BY <1>1, Zenon DEF CloseEdge
  <2>2. Len(outputs) = 2
    BY DEF SplitPayouts
  <2>. QED BY <2>1, <2>2, Zenon DEF CloseValueDefined, AdjudicatedTotal
<1>6. outputs \in Seq(Coin)
  <2>. HIDE DEF provider, total
  <2>. QED BY <1>1, <1>2, <1>3, <1>4, <1>5, SplitType
<1>. HIDE DEF outputs
<1>. QED BY <1>1, <1>6, CloseEdgeType, DeleteContestType DEF TypeOK

\* A timeout pays what the terms committed, delegated or not (check_timeout).
LEMMA CloseTimeoutType ==
  ASSUME TypeOK, NEW e, NEW byOwner \in BOOLEAN, CloseTimeout(e, byOwner)
  PROVE  TypeOK'
<1>. DEFINE t == edges[e].terms
            outputs == IF byOwner THEN Undelegated(t.outputs) ELSE t.outputs
<1>1. e \in DOMAIN edges /\ ~IsPayment(t) /\ CloseEdge(e, "Timeout", outputs) /\ UNCHANGED pending
  BY Zenon DEF CloseTimeout
<1>2. t.outputs \in Seq(Coin)
  BY <1>1, TermsFacts DEF TypeOK, EdgesOK
<1>. HIDE DEF t
<1>3. Undelegated(t.outputs) \in Seq(Coin)
  <2>1. \A c \in Coin : [c EXCEPT !.delegate = NoKey] \in Coin
    BY DEF Coin
  <2>. QED BY <1>2, <2>1 DEF Undelegated
<1>4. outputs \in Seq(Coin)
  BY <1>2, <1>3
<1>. HIDE DEF outputs
<1>. QED BY <1>1, <1>4, CloseEdgeType DEF TypeOK

\* Opening a contest stores amounts that fit a u64 (apply_start).
LEMMA StartType ==
  ASSUME TypeOK, NEW e, NEW role \in Parties, NEW c \in certificates \cup {NoCertificate},
         NEW w, NEW a, StartPaymentClose(e, role, c, w, a)
  PROVE  TypeOK'
<1>. DEFINE t == edges[e].terms
            record == PendingOpened(role, c.earned, height, t, a = "Owner")
<1>1. /\ e \in DOMAIN edges /\ IsPayment(t) /\ DeadlineFits(t, height)
      /\ pending' = Put(pending, e, record)
      /\ UNCHANGED <<signers, certificates, height, fees, coins, edges>>
  BY Zenon DEF StartPaymentClose, LivePayments, world
<1>2. t.omission_bond \in 0..U64Max /\ t.omit_response_blocks \in Nat
  BY <1>1, TermsFacts, Zenon DEF TypeOK, EdgesOK
<1>3. c.earned \in 0..U64Max
  <2>1. CASE c \in certificates
    BY <2>1, InputsAssumption, Zenon DEF TypeOK
  <2>2. CASE c = NoCertificate
    BY <2>2, LimitsAssumption DEF NoCertificate
  <2>. QED BY <2>1, <2>2
<1>4. record \in Contest
  <2>. HIDE DEF t
  <2>1. height \in Nat
    BY InputsAssumption DEF TypeOK
  <2>2. height + t.omit_response_blocks \in 0..U64Max
    BY <1>1, <1>2, <2>1, LimitsAssumption DEF DeadlineFits
  <2>3. [opener |-> role, claimed |-> c.earned, at |-> height]
          \in [opener : Parties, claimed : 0..U64Max, at : Nat]
    BY <1>3, <2>1, Zenon
  <2>4. [maker |-> role = "Maker" /\ a = "Owner", taker |-> role = "Taker" /\ a = "Owner"]
          \in [maker : BOOLEAN, taker : BOOLEAN]
    OBVIOUS
  <2>. QED BY <1>2, <1>3, <2>2, <2>3, <2>4, Zenon DEF Contest, PendingOpened, StartId
<1>. HIDE DEF record
<1>5. \A x \in DOMAIN pending' : pending'[x] \in Contest
  BY <1>1, <1>4 DEF TypeOK, Put
<1>. QED BY <1>1, <1>5, Zenon DEF TypeOK, CoinsOK, EdgesOK

\* Answering one stores an amount that fits a u64 (apply_response).
LEMMA RespondType ==
  ASSUME TypeOK, NEW e, NEW id, NEW role, NEW c \in certificates, NEW a,
         RespondPaymentClose(e, id, role, c, a)
  PROVE  TypeOK'
<1>. DEFINE record == RespondedAt(pending[e], c.earned, a = "Owner")
<1>1. /\ e \in DOMAIN pending
      /\ pending' = [pending EXCEPT ![e] = record]
      /\ UNCHANGED <<signers, certificates, height, fees, coins, edges>>
  BY DEF RespondPaymentClose, world
<1>2. pending[e] \in Contest /\ c.earned \in 0..U64Max
  BY <1>1, InputsAssumption DEF TypeOK
<1>3. record \in Contest
  BY <1>2, Zenon DEF Contest, RespondedAt
<1>. HIDE DEF record
<1>4. \A x \in DOMAIN pending' : pending'[x] \in Contest
  BY <1>1, <1>3 DEF TypeOK
<1>. QED BY <1>1, <1>4 DEF TypeOK, CoinsOK, EdgesOK

\* A reshape issues the coins it names (Reshape::apply).
LEMMA ReshapeType ==
  ASSUME TypeOK, NEW inputs, NEW outputs \in OutputLists, Reshape(inputs, outputs)
  PROVE  TypeOK'
<1>. DEFINE ids == [i \in DOMAIN outputs |-> ReshapeId(inputs, i, outputs[i].owner)]
            left == Drop(coins, Range(inputs))
<1>1. /\ coins' = [id \in DOMAIN left \cup Range(ids) |->
                     IF id \in DOMAIN left THEN left[id]
                     ELSE outputs[CHOOSE i \in DOMAIN ids : ids[i] = id]]
      /\ UNCHANGED <<signers, certificates, height, fees, edges, pending>>
  BY Zenon DEF Reshape, world
<1>2. \A id \in DOMAIN left : left[id] \in Coin
  BY DEF TypeOK, CoinsOK, Drop, Restrict
<1>3. ASSUME NEW id \in Range(ids)
      PROVE  outputs[CHOOSE i \in DOMAIN ids : ids[i] = id] \in Coin
  <2>1. \E i \in DOMAIN ids : ids[i] = id
    BY <1>3 DEF Range
  <2>2. (CHOOSE i \in DOMAIN ids : ids[i] = id) \in DOMAIN ids
    BY <2>1
  <2>3. DOMAIN ids = DOMAIN outputs
    OBVIOUS
  <2>. QED BY <2>2, <2>3, InputsAssumption
<1>. HIDE DEF ids, left
<1>4. CoinsOK'
  BY <1>1, <1>2, <1>3 DEF CoinsOK
<1>. QED BY <1>1, <1>4, Zenon DEF TypeOK, EdgesOK

\* An owner's coin lists are sequences.
LEMMA CoinListsType ==
  ASSUME NEW owner, NEW ids \in CoinLists(owner)
  PROVE  ids \in Seq(DOMAIN coins)
BY InputsAssumption DEF CoinLists

\* Coins and edges that stay as they are stay well-typed.
LEMMA QuietType ==
  ASSUME CoinsOK, EdgesOK, coins' = coins, edges' = edges
  PROVE  CoinsOK' /\ EdgesOK'
BY DEF CoinsOK, EdgesOK

\* Every step keeps the types.
LEMMA TypeStep == TypeOK /\ [Next]_vars => TypeOK'
<1>. SUFFICES ASSUME TypeOK, [Next]_vars PROVE TypeOK'
  OBVIOUS
<1>1. CASE NextBlock
  <2>1. CoinsOK' /\ EdgesOK'
    BY <1>1, QuietType DEF NextBlock, TypeOK
  <2>2. height' \in 0..MaxHeight
    BY <1>1, InputsAssumption DEF NextBlock, TypeOK
  <2>. QED BY <1>1, <2>1, <2>2 DEF NextBlock, world, TypeOK
<1>2. CASE \E key \in MayRetire : Retire(key)
  <2>1. CoinsOK' /\ EdgesOK'
    BY <1>2, QuietType DEF Retire, TypeOK
  <2>. QED BY <1>2, <2>1 DEF Retire, TypeOK
<1>3. CASE \E e \in LivePayments, earned \in Amounts : SignCertificate(e, earned)
  <2>1. CoinsOK' /\ EdgesOK'
    BY <1>3, QuietType DEF SignCertificate, TypeOK
  <2>. QED BY <1>3, <2>1, SMTT(30) DEF SignCertificate, TypeOK
<1>4. ASSUME NEW t \in ProposedTerms, NEW ma \in Authority, NEW ta \in Authority,
             NEW maker \in CoinLists(PartiesOf(t).maker.owner),
             NEW taker \in CoinLists(PartiesOf(t).taker.owner),
             Open(t, maker, taker, ma, ta)
      PROVE  TypeOK'
  <2>1. maker \in Seq(DOMAIN coins) /\ taker \in Seq(DOMAIN coins)
    BY CoinListsType
  <2>2. Len(maker \o taker) \in Nat
    BY <2>1
  <2>. QED BY <1>4, <2>2, OpenType
<1>5. ASSUME NEW e \in DOMAIN edges, NEW outputs \in OutputLists, NEW ma \in Authority,
             NEW ta \in Authority, CloseMutual(e, outputs, ma, ta)
      PROVE  TypeOK'
  <2>1. CloseEdge(e, "Mutual", outputs) /\ UNCHANGED pending /\ outputs \in Seq(Coin)
    BY <1>5, InputsAssumption DEF CloseMutual
  <2>. QED BY <2>1, CloseEdgeType DEF TypeOK
<1>6. CASE \E e \in DOMAIN edges, byOwner \in BOOLEAN : CloseTimeout(e, byOwner)
  BY <1>6, CloseTimeoutType
<1>7. CASE \E e \in LivePayments, earned \in Amounts \cup {0}, w \in Windows,
             ma, ta \in Authority : CloseFreeze(e, earned, w, ma, ta)
  <2>1. \A earned \in Amounts \cup {0} : earned \in Nat
    BY InputsAssumption
  <2>. QED BY <1>7, <2>1, CloseFreezeType
<1>8. CASE \E e, x \in DOMAIN pending : CloseAdjudicated(e, ContestCommitment(x, pending[x]))
  BY <1>8, CloseAdjudicatedType
<1>9. CASE \E e \in LivePayments, role \in Parties, c \in certificates \cup {NoCertificate},
             w \in Windows, a \in Authority : StartPaymentClose(e, role, c, w, a)
  BY <1>9, StartType
<1>10. CASE \E e, x \in DOMAIN pending, role \in Parties, c \in certificates, a \in Authority :
              RespondPaymentClose(e, pending[x].start_id, role, c, a)
  BY <1>10, RespondType
<1>11. CASE \E owner \in Keys, outputs \in OutputLists :
              \E inputs \in CoinLists(owner) : Reshape(inputs, outputs)
  BY <1>11, ReshapeType
<1>12. CASE UNCHANGED vars
  <2>1. CoinsOK' /\ EdgesOK'
    BY <1>12, QuietType DEF vars, TypeOK
  <2>. QED BY <1>12, <2>1 DEF vars, world, TypeOK
<1>. QED BY <1>1, <1>2, <1>3, <1>4, <1>5, <1>6, <1>7, <1>8, <1>9, <1>10, <1>11, <1>12, Zenon DEF Next

\* Genesis is well-typed.
LEMMA TypeInit == Init => TypeOK
<1>. SUFFICES ASSUME Init PROVE TypeOK
  OBVIOUS
<1>1. CoinsOK
  BY InputsAssumption DEF Init, CoinsOK, GenesisId
<1>. QED BY <1>1, InputsAssumption DEF Init, TypeOK, EdgesOK

\* The kernel's state is well-typed in every reachable state: coins, edges and
\* contests have the shapes the code stores, an edge's fields are those its
\* terms commit to, and no stored amount leaves the range of a u64.
THEOREM TypeCorrect == Spec => []TypeOK
BY TypeInit, TypeStep, PTL DEF Spec
=============================================================================
