--------------------------- MODULE KernelContests ---------------------------
(***************************************************************************)
(* Proofs about bonds, leases and contests: a bond backs one channel, what *)
(* a contest has reached can always be paid, and records only advance.     *)
(***************************************************************************)
EXTENDS KernelTypes

---------------------------------------------------------------------------
(* Bond exclusivity.  LiveChannelIsBonded is inductive only together with   *)
(* the other two: a lease must be known to sit on a live bond and to name a *)
(* channel of that bond, and two channels of one bond must be excluded even *)
(* after the horizon, when neither holds a lease any more.                  *)

LeaseInv ==
  /\ TypeOK
  /\ LiveChannelIsBonded
  /\ BondBacksOneChannel
  /\ RecordsBelongToLiveEdges

\* A live payment's bond: its terms, and a horizon that is the payment's own.
LEMMA BondOfPayment ==
  ASSUME TypeOK, NEW e \in LivePayments
  PROVE  LET b == e.terms.bond_edge
         IN /\ e \in DOMAIN edges /\ edges[e].terms = e.terms /\ IsPayment(e.terms)
            /\ IsWorkBond(b.terms) /\ ~IsPayment(b.terms)
            /\ edges[e].timeout = TimeoutOf(b.terms)
<1>1. e \in DOMAIN edges /\ IsPayment(edges[e].terms)
  BY DEF LivePayments
<1>2. edges[e].terms = e.terms /\ WellFormed(e.terms) /\ edges[e].timeout = TimeoutOf(e.terms)
  BY <1>1 DEF TypeOK, EdgesOK
<1>. QED BY <1>1, <1>2, TermsFacts

\* Heights and horizons are numbers.
LEMMA TimesType ==
  ASSUME TypeOK
  PROVE  height \in Int /\ \A e \in DOMAIN edges : edges[e].timeout \in Int
<1>1. \A e \in DOMAIN edges : WellFormed(e.terms) /\ edges[e].timeout = TimeoutOf(e.terms)
  BY DEF TypeOK, EdgesOK
<1>2. \A e \in DOMAIN edges : TimeoutOf(e.terms) \in Nat
  BY <1>1, TermsFacts
<1>3. height \in Int
  BY DEF TypeOK
<1>. QED BY <1>1, <1>2, <1>3

\* The closes each profile allows (CloseKindSet).
LEMMA AllowedFacts ==
  ASSUME NEW t
  PROVE  /\ "Mutual" \in AllowedCloses(t) => ~IsPayment(t) /\ ~IsWorkBond(t)
         /\ "Timeout" \in AllowedCloses(t) => ~IsPayment(t)
BY DEF AllowedCloses, IsPayment, IsWorkBond

\* An open keeps bonds exclusive: a new payment finds its bond live and
\* unleased, and no edge opened now can be a bond some payment outlived, for
\* that bond's horizon has passed (open_bond_lease, LifetimeExceeded).
LEMMA OpenLease ==
  ASSUME LeaseInv, NEW t \in ProposedTerms, NEW maker, NEW taker, NEW ma, NEW ta,
         Open(t, maker, taker, ma, ta), TypeOK'
  PROVE  LiveChannelIsBonded' /\ BondBacksOneChannel' /\ RecordsBelongToLiveEdges'
<1>. DEFINE x == EdgeId(t, maker, taker)
<1>1. OpenResult(t, x)
  BY OpenEffect
<1>2. WellFormed(t)
  BY OpenWellFormed DEF Open, LeaseInv, TypeOK
<1>. HIDE DEF x
<1>3. LivePayments' = IF IsPayment(t) THEN LivePayments \cup {x} ELSE LivePayments
  BY <1>1 DEF OpenResult, LivePayments
<1>4. ASSUME NEW e \in LivePayments
      PROVE  /\ e.terms.bond_edge # x
             /\ IsPayment(t) => e.terms.bond_edge # t.bond_edge
  <2>1. e.terms.bond_edge \notin DOMAIN edges => height >= TimeoutOf(e.terms.bond_edge.terms)
    BY BondOfPayment DEF LeaseInv, LiveChannelIsBonded
  <2>2. height \in Int /\ TimeoutOf(t) \in Int
    BY <1>2, TermsFacts DEF LeaseInv, TypeOK
  <2>3. e.terms.bond_edge # x
    BY <1>1, <2>1, <2>2 DEF OpenResult
  <2>4. IsPayment(t) => e.terms.bond_edge # t.bond_edge
    BY <1>1 DEF OpenResult, LeaseInv, LiveChannelIsBonded
  <2>. QED BY <2>3, <2>4
<1>5. LiveChannelIsBonded'
  <2>1. ASSUME NEW e \in LivePayments
        PROVE  LET b == e.terms.bond_edge
               IN \/ b \in DOMAIN edges' /\ edges'[b].terms = e.terms.bond_terms
                       /\ b \in DOMAIN leases' /\ leases'[b] = e
                  \/ b \notin DOMAIN edges' /\ height' >= edges'[e].timeout
    <3>1. e \in DOMAIN edges
      BY DEF LivePayments
    <3>. QED BY <1>1, <1>4, <3>1 DEF OpenResult, LeaseInv, LiveChannelIsBonded
  <2>2. IsPayment(t) => LET b == x.terms.bond_edge
               IN b \in DOMAIN edges' /\ edges'[b].terms = x.terms.bond_terms
                       /\ b \in DOMAIN leases' /\ leases'[b] = x
    BY <1>1 DEF OpenResult
  <2>. QED BY <1>3, <2>1, <2>2 DEF LiveChannelIsBonded
<1>6. BondBacksOneChannel'
  <2>1. IsPayment(t) => x.terms = t
    BY <1>1 DEF OpenResult
  <2>2. \A e, f \in LivePayments : e.terms.bond_edge = f.terms.bond_edge => e = f
    BY DEF LeaseInv, BondBacksOneChannel
  <2>3. ASSUME NEW e \in LivePayments', NEW f \in LivePayments',
               e.terms.bond_edge = f.terms.bond_edge
        PROVE  e = f
    BY <1>3, <1>4, <2>1, <2>2, <2>3
  <2>. QED BY <2>3 DEF BondBacksOneChannel
<1>7. RecordsBelongToLiveEdges'
  <2>1. LiveBonds \subseteq LiveBonds' /\ LivePayments \subseteq LivePayments'
    BY <1>1 DEF OpenResult, LiveBonds, LivePayments
  <2>2. IsPayment(t) => t.bond_edge \in LiveBonds
    BY <1>1, <1>2, TermsFacts DEF OpenResult, LiveBonds
  <2>. QED BY <1>1, <2>1, <2>2 DEF OpenResult, LeaseInv, RecordsBelongToLiveEdges
<1>. QED BY <1>5, <1>6, <1>7

\* Closing a payment leaves every other channel's bond and lease alone: a
\* payment is nobody's bond.
LEMMA PaymentExitLease ==
  ASSUME LeaseInv, NEW x \in LivePayments, NEW kind, NEW outputs,
         CloseEdge(x, kind, outputs), ContestDeleted(x), leases' = leases
  PROVE  LiveChannelIsBonded' /\ BondBacksOneChannel' /\ RecordsBelongToLiveEdges'
<1>1. /\ DOMAIN edges' = DOMAIN edges \ {x} /\ height' = height
      /\ \A y \in DOMAIN edges' : edges'[y] = edges[y]
  BY CloseEffect, Zenon
<1>2. LivePayments' = LivePayments \ {x} /\ LiveBonds' = LiveBonds
  BY <1>1 DEF LivePayments, LiveBonds, IsPayment, IsWorkBond
<1>3. \A e \in LivePayments : e.terms.bond_edge # x
  BY BondOfPayment DEF LeaseInv
<1>4. LiveChannelIsBonded'
  <2>1. \A e \in LivePayments \ {x} : e \in DOMAIN edges'
    BY <1>1 DEF LivePayments
  <2>. QED BY <1>1, <1>2, <1>3, <2>1 DEF LeaseInv, LiveChannelIsBonded
<1>5. BondBacksOneChannel'
  BY <1>2 DEF LeaseInv, BondBacksOneChannel
<1>6. RecordsBelongToLiveEdges'
  <2>1. DOMAIN pending' = DOMAIN pending \ {x} /\ \A e \in DOMAIN pending' : pending'[e] = pending[e]
    BY DEF ContestDeleted, Drop, Restrict
  <2>. QED BY <1>2, <2>1 DEF LeaseInv, RecordsBelongToLiveEdges
<1>. QED BY <1>4, <1>5, <1>6

\* A bond leaves under a live channel only at the channel's own horizon
\* (check_timeout refuses the immediate exit while the lease is live).
LEMMA CloseTimeoutLease ==
  ASSUME LeaseInv, NEW x, NEW byOwner, CloseTimeout(x, byOwner)
  PROVE  LiveChannelIsBonded' /\ BondBacksOneChannel' /\ RecordsBelongToLiveEdges'
<1>1. /\ x \in DOMAIN edges /\ ~IsPayment(edges[x].terms)
      /\ height < edges[x].timeout => ~LiveLease(x)
      /\ leases' = Drop(leases, {x}) /\ pending' = pending
      /\ \E outputs : CloseEdge(x, "Timeout", outputs)
  BY DEF CloseTimeout
<1>2. /\ DOMAIN edges' = DOMAIN edges \ {x} /\ height' = height
      /\ \A y \in DOMAIN edges' : edges'[y] = edges[y]
  BY <1>1, CloseEffect, Zenon
<1>3. DOMAIN leases' = DOMAIN leases \ {x} /\ \A b \in DOMAIN leases' : leases'[b] = leases[b]
  BY <1>1 DEF Drop, Restrict
<1>4. LivePayments' = LivePayments /\ LiveBonds' = LiveBonds \ {x}
  BY <1>1, <1>2 DEF LivePayments, LiveBonds, IsPayment, IsWorkBond
<1>5. LiveChannelIsBonded'
  <2>. SUFFICES ASSUME NEW e \in LivePayments
       PROVE  LET b == e.terms.bond_edge
              IN \/ b \in DOMAIN edges' /\ edges'[b].terms = e.terms.bond_terms
                      /\ b \in DOMAIN leases' /\ leases'[b] = e
                 \/ b \notin DOMAIN edges' /\ height' >= edges'[e].timeout
    BY <1>4 DEF LiveChannelIsBonded
  <2>1. e \in DOMAIN edges' /\ edges'[e] = edges[e]
    BY <1>1, <1>2 DEF LivePayments
  <2>2. CASE e.terms.bond_edge # x
    BY <1>2, <1>3, <2>1, <2>2 DEF LeaseInv, LiveChannelIsBonded
  <2>3. CASE e.terms.bond_edge = x
    <3>1. LiveLease(x)
      BY <1>1, <2>3 DEF LeaseInv, LiveChannelIsBonded, LiveLease, LivePayments
    <3>2. edges[x].timeout = edges[e].timeout
      <4>1. edges[e].timeout = TimeoutOf(x.terms)
        BY <2>3, BondOfPayment DEF LeaseInv
      <4>2. edges[x].timeout = TimeoutOf(x.terms)
        BY <1>1 DEF LeaseInv, TypeOK, EdgesOK
      <4>. QED BY <4>1, <4>2
    <3>3. height \in Int /\ edges[x].timeout \in Int
      BY <1>1, TimesType DEF LeaseInv
    <3>. QED BY <1>1, <1>2, <2>1, <2>3, <3>1, <3>2, <3>3, SMTT(30)
  <2>. QED BY <2>2, <2>3
<1>6. BondBacksOneChannel'
  BY <1>4 DEF LeaseInv, BondBacksOneChannel
<1>7. RecordsBelongToLiveEdges'
  BY <1>1, <1>3, <1>4, Zenon DEF LeaseInv, RecordsBelongToLiveEdges
<1>. QED BY <1>5, <1>6, <1>7

\* A mutual close ends a basic edge, which is neither bond nor channel.
LEMMA CloseMutualLease ==
  ASSUME LeaseInv, NEW x, NEW outputs, NEW ma, NEW ta, CloseMutual(x, outputs, ma, ta)
  PROVE  LiveChannelIsBonded' /\ BondBacksOneChannel' /\ RecordsBelongToLiveEdges'
<1>1. CloseEdge(x, "Mutual", outputs) /\ leases' = leases /\ pending' = pending
  BY DEF CloseMutual
<1>2. /\ x \in DOMAIN edges /\ "Mutual" \in edges[x].allowed
      /\ DOMAIN edges' = DOMAIN edges \ {x} /\ height' = height
      /\ \A y \in DOMAIN edges' : edges'[y] = edges[y]
  BY <1>1, CloseEffect, Zenon
<1>3. ~IsPayment(x.terms) /\ ~IsWorkBond(x.terms) /\ edges[x].terms = x.terms
  BY <1>2, AllowedFacts DEF LeaseInv, TypeOK, EdgesOK
<1>4. LivePayments' = LivePayments /\ LiveBonds' = LiveBonds
  BY <1>2, <1>3 DEF LivePayments, LiveBonds
<1>5. \A e \in LivePayments : e.terms.bond_edge # x /\ e \in DOMAIN edges'
  BY <1>2, <1>3, BondOfPayment DEF LeaseInv
<1>6. LiveChannelIsBonded'
  BY <1>1, <1>2, <1>4, <1>5 DEF LeaseInv, LiveChannelIsBonded
<1>7. BondBacksOneChannel' /\ RecordsBelongToLiveEdges'
  BY <1>1, <1>4 DEF LeaseInv, BondBacksOneChannel, RecordsBelongToLiveEdges
<1>. QED BY <1>6, <1>7

\* Steps that touch neither edges nor leases, and whose contests stay those of
\* live channels, keep bonds exclusive as blocks pass.
LEMMA QuietLease ==
  ASSUME LeaseInv, edges' = edges, leases' = leases, height' \in Int, height' >= height,
         \A e \in DOMAIN pending' :
           e \in LivePayments /\ pending'[e].penalty_amount = e.terms.omission_bond
  PROVE  LiveChannelIsBonded' /\ BondBacksOneChannel' /\ RecordsBelongToLiveEdges'
<1>1. LivePayments' = LivePayments /\ LiveBonds' = LiveBonds
  BY DEF LivePayments, LiveBonds
<1>2. LiveChannelIsBonded'
  <2>1. height \in Int /\ \A e \in DOMAIN edges : edges[e].timeout \in Int
    BY TimesType DEF LeaseInv
  <2>2. ASSUME NEW e \in LivePayments, height >= edges[e].timeout
        PROVE  height' >= edges'[e].timeout
    BY <2>1, <2>2 DEF LivePayments
  <2>3. LiveChannelIsBonded
    BY DEF LeaseInv
  <2>. QED BY <1>1, <2>2, <2>3 DEF LiveChannelIsBonded
<1>. QED BY <1>1, <1>2 DEF LeaseInv, BondBacksOneChannel, RecordsBelongToLiveEdges

\* In particular steps that change no edge, record or height.
LEMMA SameLease ==
  ASSUME LeaseInv, edges' = edges, leases' = leases, pending' = pending, height' = height
  PROVE  LiveChannelIsBonded' /\ BondBacksOneChannel' /\ RecordsBelongToLiveEdges'
BY DEF LeaseInv, LiveChannelIsBonded, BondBacksOneChannel, RecordsBelongToLiveEdges,
       LivePayments, LiveBonds

\* Every step keeps the lease invariant.
LEMMA LeaseStep == LeaseInv /\ [Next]_vars => LeaseInv'
<1>. SUFFICES ASSUME LeaseInv, [Next]_vars
     PROVE  LiveChannelIsBonded' /\ BondBacksOneChannel' /\ RecordsBelongToLiveEdges'
  BY TypeStep DEF LeaseInv
<1>. USE DEF world
<1>0. /\ TypeOK /\ TypeOK' /\ height \in Int
      /\ \A e \in DOMAIN pending :
           e \in LivePayments /\ pending[e].penalty_amount = e.terms.omission_bond
  <2>1. TypeOK /\ TypeOK' /\ RecordsBelongToLiveEdges
    BY TypeStep DEF LeaseInv
  <2>. QED BY <2>1, TimesType DEF RecordsBelongToLiveEdges
<1>1. CASE NextBlock
  <2>1. /\ edges' = edges /\ leases' = leases /\ pending' = pending
        /\ height' \in Int /\ height' >= height
    BY <1>0, <1>1 DEF NextBlock
  <2>. QED BY <1>0, <2>1, QuietLease
<1>2. CASE \E key \in MayRetire : Retire(key)
  BY <1>2, SameLease DEF Retire
<1>3. CASE \E e \in LivePayments, earned \in Amounts : SignCertificate(e, earned)
  BY <1>3, SameLease DEF SignCertificate
<1>4. CASE \E t \in ProposedTerms, ma, ta \in Authority :
             \E maker \in CoinLists(PartiesOf(t).maker.owner),
                taker \in CoinLists(PartiesOf(t).taker.owner) : Open(t, maker, taker, ma, ta)
  BY <1>0, <1>4, OpenLease
<1>5. CASE \E e \in DOMAIN edges, outputs \in OutputLists, ma, ta \in Authority :
             CloseMutual(e, outputs, ma, ta)
  BY <1>5, CloseMutualLease
<1>6. CASE \E e \in DOMAIN edges, byOwner \in BOOLEAN : CloseTimeout(e, byOwner)
  BY <1>6, CloseTimeoutLease
<1>7. ASSUME NEW e \in LivePayments, NEW earned \in Amounts \cup {0}, NEW w \in Windows,
             NEW ma \in Authority, NEW ta \in Authority, CloseFreeze(e, earned, w, ma, ta)
      PROVE  LiveChannelIsBonded' /\ BondBacksOneChannel' /\ RecordsBelongToLiveEdges'
  <2>1. /\ \E outputs : CloseEdge(e, "Freeze", outputs)
        /\ ContestDeleted(e) /\ leases' = leases
    BY <1>7 DEF CloseFreeze
  <2>. QED BY <2>1, PaymentExitLease
<1>8. ASSUME NEW e \in DOMAIN pending, NEW commitment, CloseAdjudicated(e, commitment)
      PROVE  LiveChannelIsBonded' /\ BondBacksOneChannel' /\ RecordsBelongToLiveEdges'
  <2>1. /\ \E outputs : CloseEdge(e, "Adjudicated", outputs)
        /\ e \in LivePayments /\ ContestDeleted(e) /\ leases' = leases
    BY <1>8 DEF CloseAdjudicated
  <2>. QED BY <2>1, PaymentExitLease
<1>9. ASSUME NEW e \in LivePayments, NEW role \in Parties, NEW c, NEW w, NEW a,
             StartPaymentClose(e, role, c, w, a)
      PROVE  LiveChannelIsBonded' /\ BondBacksOneChannel' /\ RecordsBelongToLiveEdges'
  <2>. DEFINE record == PendingOpened(role, c.earned, height, edges[e].terms, a = "Owner")
  <2>1. /\ pending' = Put(pending, e, record)
        /\ edges' = edges /\ leases' = leases /\ height' = height
    BY <1>9, Zenon DEF StartPaymentClose
  <2>2. record.penalty_amount = e.terms.omission_bond
    <3>1. edges[e].terms = e.terms
      BY <1>0, BondOfPayment
    <3>. QED BY <3>1, Zenon DEF PendingOpened
  <2>. HIDE DEF record
  <2>3. /\ DOMAIN pending' = DOMAIN pending \cup {e} /\ pending'[e] = record
        /\ \A x \in DOMAIN pending \ {e} : pending'[x] = pending[x]
    BY <2>1 DEF Put
  <2>4. \A x \in DOMAIN pending' :
          x \in LivePayments /\ pending'[x].penalty_amount = x.terms.omission_bond
    BY <1>0, <2>3, <2>2
  <2>5. height' \in Int /\ height' >= height
    BY <1>0, <2>1
  <2>. QED BY <2>1, <2>4, <2>5, QuietLease
<1>10. ASSUME NEW e \in DOMAIN pending, NEW id, NEW role \in Parties, NEW c, NEW a,
              RespondPaymentClose(e, id, role, c, a)
       PROVE  LiveChannelIsBonded' /\ BondBacksOneChannel' /\ RecordsBelongToLiveEdges'
  <2>. DEFINE record == RespondedAt(pending[e], c.earned, a = "Owner")
  <2>1. /\ pending' = [pending EXCEPT ![e] = record]
        /\ edges' = edges /\ leases' = leases /\ height' = height
    BY <1>10 DEF RespondPaymentClose
  <2>2. record.penalty_amount = pending[e].penalty_amount
    BY <1>0 DEF RespondedAt, TypeOK, Contest
  <2>. HIDE DEF record
  <2>3. \A x \in DOMAIN pending' :
          x \in LivePayments /\ pending'[x].penalty_amount = x.terms.omission_bond
    BY <1>0, <2>1, <2>2
  <2>4. height' \in Int /\ height' >= height
    BY <1>0, <2>1
  <2>. QED BY <2>1, <2>3, <2>4, QuietLease
<1>11. CASE \E owner \in Keys, outputs \in OutputLists :
              \E inputs \in CoinLists(owner) : Reshape(inputs, outputs)
  BY <1>11, SameLease DEF Reshape
<1>12. CASE UNCHANGED vars
  BY <1>12, SameLease DEF vars
<1>. QED BY <1>1, <1>2, <1>3, <1>4, <1>5, <1>6, <1>7, <1>8, <1>9, <1>10, <1>11, <1>12, Zenon DEF Next

\* At genesis there are no edges and no records.
LEMMA LeaseInit == Init => LeaseInv
<1>. SUFFICES ASSUME Init PROVE LeaseInv
  OBVIOUS
<1>1. DOMAIN edges = {} /\ DOMAIN leases = {} /\ DOMAIN pending = {}
  BY DEF Init
<1>2. LivePayments = {}
  BY <1>1 DEF LivePayments
<1>3. LiveChannelIsBonded /\ BondBacksOneChannel
  BY <1>2 DEF LiveChannelIsBonded, BondBacksOneChannel
<1>4. RecordsBelongToLiveEdges
  BY <1>1 DEF RecordsBelongToLiveEdges
<1>. QED BY <1>3, <1>4, TypeInit DEF LeaseInv

\* The lease invariant holds always.
LEMMA LeaseInvariant == Spec => []LeaseInv
BY LeaseInit, LeaseStep, PTL DEF Spec

\* Before its horizon every live channel holds the lease of a live bond with the
\* terms it embeds, whatever edges were opened, closed or posted again meanwhile.
THEOREM ChannelsAreBonded == Spec => []LiveChannelIsBonded
BY LeaseInvariant, PTL DEF LeaseInv

\* No bond ever backs two live channels, before or after its horizon.
THEOREM BondsAreExclusive == Spec => []BondBacksOneChannel
BY LeaseInvariant, PTL DEF LeaseInv

\* No lease or contest outlives the edge it is keyed by.
THEOREM RecordsAreOwned == Spec => []RecordsBelongToLiveEdges
BY LeaseInvariant, PTL DEF LeaseInv

\* Only an open adds an edge or changes a lease that stays.
LEMMA NonOpenSteps ==
  ASSUME [Next]_vars,
         ~ \E t \in ProposedTerms, ma, ta \in Authority :
             \E maker \in CoinLists(PartiesOf(t).maker.owner),
                taker \in CoinLists(PartiesOf(t).taker.owner) : Open(t, maker, taker, ma, ta)
  PROVE  /\ DOMAIN edges' \subseteq DOMAIN edges
         /\ \A b \in DOMAIN leases' : b \in DOMAIN leases => leases'[b] = leases[b]
<1>1. CASE \E e \in DOMAIN edges, outputs \in OutputLists, ma, ta \in Authority :
             CloseMutual(e, outputs, ma, ta)
  BY <1>1, CloseEffect, Zenon DEF CloseMutual
<1>2. ASSUME NEW e, NEW byOwner, CloseTimeout(e, byOwner)
      PROVE  /\ DOMAIN edges' \subseteq DOMAIN edges
             /\ \A b \in DOMAIN leases' : b \in DOMAIN leases => leases'[b] = leases[b]
  <2>1. (\E outputs : CloseEdge(e, "Timeout", outputs)) /\ leases' = Drop(leases, {e})
    BY <1>2 DEF CloseTimeout
  <2>2. DOMAIN edges' \subseteq DOMAIN edges
    BY <2>1, CloseEffect, Zenon
  <2>. QED BY <2>1, <2>2 DEF Drop, Restrict
<1>3. ASSUME NEW e, NEW earned, NEW w, NEW ma, NEW ta, CloseFreeze(e, earned, w, ma, ta)
      PROVE  DOMAIN edges' \subseteq DOMAIN edges /\ leases' = leases
  <2>1. (\E outputs : CloseEdge(e, "Freeze", outputs)) /\ leases' = leases
    BY <1>3, Zenon DEF CloseFreeze
  <2>. QED BY <2>1, CloseEffect, Zenon
<1>4. ASSUME NEW e, NEW commitment, CloseAdjudicated(e, commitment)
      PROVE  DOMAIN edges' \subseteq DOMAIN edges /\ leases' = leases
  <2>1. (\E outputs : CloseEdge(e, "Adjudicated", outputs)) /\ leases' = leases
    BY <1>4 DEF CloseAdjudicated
  <2>. QED BY <2>1, CloseEffect, Zenon
<1>5. CASE \/ NextBlock \/ UNCHANGED vars
           \/ \E key \in MayRetire : Retire(key)
           \/ \E e \in LivePayments, earned \in Amounts : SignCertificate(e, earned)
           \/ \E e \in LivePayments, role \in Parties, c \in certificates \cup {NoCertificate},
                 w \in Windows, a \in Authority : StartPaymentClose(e, role, c, w, a)
           \/ \E e, x \in DOMAIN pending, role \in Parties, c \in certificates, a \in Authority :
                 RespondPaymentClose(e, pending[x].start_id, role, c, a)
           \/ \E owner \in Keys, outputs \in OutputLists :
                 \E inputs \in CoinLists(owner) : Reshape(inputs, outputs)
  <2>1. NextBlock \/ UNCHANGED vars => edges' = edges /\ leases' = leases
    BY Zenon DEF NextBlock, vars
  <2>2. \A key : Retire(key) => edges' = edges /\ leases' = leases
    BY Zenon DEF Retire
  <2>3. \A e, earned : SignCertificate(e, earned) => edges' = edges /\ leases' = leases
    BY Zenon DEF SignCertificate
  <2>4. \A e, role, c, w, a :
          StartPaymentClose(e, role, c, w, a) => edges' = edges /\ leases' = leases
    BY Zenon DEF StartPaymentClose
  <2>5. \A e, id, role, c, a :
          RespondPaymentClose(e, id, role, c, a) => edges' = edges /\ leases' = leases
    BY DEF RespondPaymentClose
  <2>6. \A inputs, outputs : Reshape(inputs, outputs) => edges' = edges /\ leases' = leases
    BY Zenon DEF Reshape
  <2>7. edges' = edges /\ leases' = leases
    BY <1>5, <2>1, <2>2, <2>3, <2>4, <2>5, <2>6, Zenon
  <2>. QED BY <2>7
<1>. QED BY <1>1, <1>2, <1>3, <1>4, <1>5, Zenon DEF Next

\* A stale lease stays stale: the channel it names cannot be opened again while
\* the lease is there, nor can the lease be replaced.
THEOREM StaleLeasesStayStale == Spec => StaleLeaseStaysStale
<1>1. ASSUME LeaseInv, [Next]_vars, NEW b \in DOMAIN leases, ~LiveLease(b), b \in DOMAIN leases'
      PROVE  leases'[b] = leases[b] /\ leases'[b] \notin DOMAIN edges'
  <2>1. /\ IsPayment(leases[b].terms) /\ leases[b].terms.bond_edge = b
        /\ leases[b] \notin DOMAIN edges
    BY <1>1 DEF LeaseInv, RecordsBelongToLiveEdges, LiveLease
  <2>2. ASSUME NEW t \in ProposedTerms, NEW maker, NEW taker, NEW ma, NEW ta,
               Open(t, maker, taker, ma, ta)
        PROVE  leases'[b] = leases[b] /\ leases'[b] \notin DOMAIN edges'
    <3>. DEFINE x == EdgeId(t, maker, taker)
    <3>1. OpenResult(t, x)
      BY <2>2, OpenEffect
    <3>. HIDE DEF x
    <3>2. leases'[b] = leases[b]
      BY <1>1, <3>1 DEF OpenResult
    <3>3. leases[b] # x
      BY <1>1, <2>1, <3>1 DEF OpenResult
    <3>. QED BY <2>1, <3>1, <3>2, <3>3, Zenon DEF OpenResult
  <2>. QED BY <1>1, <2>1, <2>2, NonOpenSteps, Zenon
<1>2. LeaseInv /\ [Next]_vars =>
        [\A b \in DOMAIN leases :
           ~LiveLease(b) /\ b \in DOMAIN leases' =>
             leases'[b] = leases[b] /\ leases'[b] \notin DOMAIN edges']_vars
  BY <1>1
<1>. QED BY <1>2, LeaseInvariant, PTL DEF Spec, StaleLeaseStaysStale

---------------------------------------------------------------------------
(***************************************************************************)
(* Proofs about the contest over a payment close: what it has reached can  *)
(* always be paid, and the omission bond is forfeit exactly on proof.      *)
(***************************************************************************)

\* Every live channel can price both its exits and holds more than its omission
\* bond; the start of a contest without a certificate relies on it.
PaymentsFunded ==
  \A e \in LivePayments :
    RoutesDefined(edges[e]) /\ PaymentCapacity(edges[e], e.terms.omission_bond) > 0

ContestInv ==
  /\ LeaseInv
  /\ PaymentsFunded
  /\ ContestPayable
  /\ PenaltyIsProvedUnderstatement

\* An amount within capacity leaves room for the omission bond on either exit
\* (check_capacity).
LEMMA CapacityLeavesBond ==
  ASSUME EdgesOK, NEW e \in DOMAIN edges, NEW amount \in Int, NEW bond \in Int,
         amount <= PaymentCapacity(edges[e], bond)
  PROVE  /\ amount + bond <= AdjudicatedTotal(edges[e])
         /\ amount + bond <= FreezeTotal(edges[e])
BY TotalsType DEF PaymentCapacity, RouteMinimum

\* A step that keeps every surviving channel and contest as it was
Keeps ==
  /\ \A e \in LivePayments' : e \in LivePayments /\ edges'[e] = edges[e]
  /\ \A e \in DOMAIN pending' : e \in DOMAIN pending /\ pending'[e] = pending[e]

SomeOpen ==
  \E t \in ProposedTerms, ma, ta \in Authority :
    \E maker \in CoinLists(PartiesOf(t).maker.owner),
       taker \in CoinLists(PartiesOf(t).taker.owner) : Open(t, maker, taker, ma, ta)

SomeStart(e) ==
  \E role \in Parties, c \in certificates \cup {NoCertificate}, w \in Windows,
     a \in Authority : StartPaymentClose(e, role, c, w, a)

SomeResponse(e) ==
  \E x \in DOMAIN pending, role \in Parties, c \in certificates, a \in Authority :
    RespondPaymentClose(e, pending[x].start_id, role, c, a)

\* Consuming an edge keeps the channels and contests of the others.
LEMMA CloseKeeps ==
  ASSUME NEW e, NEW kind, NEW outputs, CloseEdge(e, kind, outputs),
         pending' = pending \/ ContestDeleted(e)
  PROVE  Keeps
<1>1. /\ DOMAIN edges' = DOMAIN edges \ {e}
      /\ \A x \in DOMAIN edges' : edges'[x] = edges[x]
  BY CloseEffect, Zenon
<1>2. \A x \in DOMAIN pending' : x \in DOMAIN pending /\ pending'[x] = pending[x]
  BY DEF ContestDeleted, Drop, Restrict
<1>. QED BY <1>1, <1>2 DEF Keeps, LivePayments

\* Channels and contests change only by an open, a start or a response.
LEMMA ContestSteps ==
  ASSUME [Next]_vars
  PROVE  \/ Keeps
         \/ SomeOpen
         \/ \E e \in LivePayments : SomeStart(e)
         \/ \E e \in DOMAIN pending : SomeResponse(e)
<1>1. CASE \E e \in DOMAIN edges, outputs \in OutputLists, ma, ta \in Authority :
             CloseMutual(e, outputs, ma, ta)
  BY <1>1, CloseKeeps, Zenon DEF CloseMutual
<1>2. CASE \E e \in DOMAIN edges, byOwner \in BOOLEAN : CloseTimeout(e, byOwner)
  <2>1. PICK e \in DOMAIN edges, byOwner \in BOOLEAN : CloseTimeout(e, byOwner)
    BY <1>2
  <2>2. (\E outputs : CloseEdge(e, "Timeout", outputs)) /\ pending' = pending
    BY <2>1 DEF CloseTimeout
  <2>. QED BY <2>2, CloseKeeps
<1>3. ASSUME NEW e, NEW earned, NEW w, NEW ma, NEW ta, CloseFreeze(e, earned, w, ma, ta)
      PROVE  Keeps
  <2>1. (\E outputs : CloseEdge(e, "Freeze", outputs)) /\ ContestDeleted(e)
    BY <1>3, Zenon DEF CloseFreeze
  <2>. QED BY <2>1, CloseKeeps
<1>4. ASSUME NEW e, NEW commitment, CloseAdjudicated(e, commitment)
      PROVE  Keeps
  <2>1. (\E outputs : CloseEdge(e, "Adjudicated", outputs)) /\ ContestDeleted(e)
    BY <1>4, Zenon DEF CloseAdjudicated
  <2>. QED BY <2>1, CloseKeeps
<1>5. CASE \/ NextBlock \/ UNCHANGED vars
           \/ \E key \in MayRetire : Retire(key)
           \/ \E e \in LivePayments, earned \in Amounts : SignCertificate(e, earned)
           \/ \E owner \in Keys, outputs \in OutputLists :
                 \E inputs \in CoinLists(owner) : Reshape(inputs, outputs)
  <2>1. edges' = edges /\ pending' = pending
    BY <1>5, Zenon DEF NextBlock, vars, Retire, SignCertificate, Reshape
  <2>. QED BY <2>1 DEF Keeps, LivePayments
<1>. QED BY <1>1, <1>2, <1>3, <1>4, <1>5, Zenon DEF Next, SomeOpen, SomeStart, SomeResponse

\* A step that keeps channels and contests keeps everything said of them.
LEMMA KeepsContestInv ==
  ASSUME ContestInv, LeaseInv', Keeps
  PROVE  PaymentsFunded' /\ ContestPayable' /\ PenaltyIsProvedUnderstatement'
<1>1. PaymentsFunded'
  BY DEF ContestInv, PaymentsFunded, Keeps
<1>2. \A e \in DOMAIN pending' : e \in DOMAIN pending /\ pending'[e] = pending[e] /\ edges'[e] = edges[e]
  BY DEF LeaseInv, RecordsBelongToLiveEdges, Keeps
<1>3. ContestPayable'
  BY <1>2 DEF ContestInv, ContestPayable
<1>4. PenaltyIsProvedUnderstatement'
  BY <1>2 DEF ContestInv, PenaltyIsProvedUnderstatement
<1>. QED BY <1>1, <1>3, <1>4

\* A channel is opened with capacity above its omission bond
\* (check_payment_capacity).
LEMMA OpenContestInv ==
  ASSUME ContestInv, LeaseInv', SomeOpen
  PROVE  PaymentsFunded' /\ ContestPayable' /\ PenaltyIsProvedUnderstatement'
<1>1. PICK t, maker, taker, ma, ta : Open(t, maker, taker, ma, ta)
  BY DEF SomeOpen
<1>. DEFINE x == EdgeId(t, maker, taker)
            ids == maker \o taker
            edge == EdgeOpened(t, fees, height, Len(ids), SumOf([i \in DOMAIN ids |-> coins[ids[i]]]))
<1>2. edges' = Put(edges, x, edge) /\ WorkProfileOk(t, edge, maker, taker)
  BY <1>1, Zenon DEF Open
<1>3. OpenResult(t, x)
  BY <1>1, OpenEffect
<1>. HIDE DEF x, edge
<1>4. edges'[x] = edge
  BY <1>2 DEF Put
<1>5. PaymentsFunded'
  <2>1. LivePayments' \subseteq LivePayments \cup {x}
    BY <1>3 DEF OpenResult, LivePayments
  <2>2. \A e \in LivePayments : edges'[e] = edges[e]
    BY <1>3 DEF OpenResult, LivePayments
  <2>3. x \in LivePayments' => IsPayment(t)
    BY <1>3 DEF OpenResult, LivePayments
  <2>4. IsPayment(t) => RoutesDefined(edge) /\ PaymentCapacity(edge, x.terms.omission_bond) > 0
    BY <1>2, <1>3 DEF WorkProfileOk, OpenResult
  <2>. QED BY <1>4, <2>1, <2>2, <2>3, <2>4 DEF ContestInv, PaymentsFunded
<1>6. pending' = pending /\ \A e \in DOMAIN pending : edges'[e] = edges[e]
  BY <1>3, Zenon DEF OpenResult, ContestInv, LeaseInv, RecordsBelongToLiveEdges, LivePayments
<1>7. ContestPayable' /\ PenaltyIsProvedUnderstatement'
  BY <1>6 DEF ContestInv, ContestPayable, PenaltyIsProvedUnderstatement
<1>. QED BY <1>5, <1>7

\* A start records an amount within capacity, or zero (apply_start).
LEMMA StartContestInv ==
  ASSUME ContestInv, LeaseInv', NEW e \in LivePayments, SomeStart(e)
  PROVE  PaymentsFunded' /\ ContestPayable' /\ PenaltyIsProvedUnderstatement'
<1>1. PICK role \in Parties, c \in certificates \cup {NoCertificate}, w \in Windows,
           a \in Authority : StartPaymentClose(e, role, c, w, a)
  BY DEF SomeStart
<1>. DEFINE t == edges[e].terms
            record == PendingOpened(role, c.earned, height, t, a = "Owner")
<1>2. /\ pending' = Put(pending, e, record) /\ edges' = edges
      /\ c # NoCertificate => CertificateOk(e, c, t.omission_bond)
  BY <1>1, Zenon DEF StartPaymentClose
<1>3. /\ e \in DOMAIN edges /\ t = e.terms /\ t.omission_bond \in 0..U64Max
      /\ RoutesDefined(edges[e]) /\ PaymentCapacity(edges[e], t.omission_bond) > 0
      /\ EdgesOK
  BY TermsFacts, Zenon DEF ContestInv, PaymentsFunded, LivePayments, LeaseInv, TypeOK, EdgesOK
<1>4. c.earned \in Int /\ c.earned <= PaymentCapacity(edges[e], t.omission_bond)
  <2>. HIDE DEF t
  <2>1. CASE c = NoCertificate
    <3>1. FreezeTotal(edges[e]) \in Int /\ AdjudicatedTotal(edges[e]) \in Int
      BY <1>3, TotalsType
    <3>2. PaymentCapacity(edges[e], t.omission_bond) \in Int
      BY <1>3, <3>1, CapacityType, Zenon
    <3>. QED BY <1>3, <2>1, <3>2 DEF NoCertificate
  <2>2. CASE c # NoCertificate
    <3>1. TypeOK /\ c \in certificates
      BY <2>2 DEF ContestInv, LeaseInv
    <3>2. c.earned \in 0..U64Max
      BY <3>1, InputsAssumption, Zenon DEF TypeOK
    <3>3. CertificateOk(e, c, t.omission_bond)
      BY <1>2, <2>2
    <3>4. c.earned <= PaymentCapacity(edges[e], t.omission_bond)
      BY <3>3, Zenon DEF CertificateOk
    <3>. QED BY <3>2, <3>4
  <2>. QED BY <2>1, <2>2
<1>5. /\ c.earned + t.omission_bond <= AdjudicatedTotal(edges[e])
      /\ c.earned + t.omission_bond <= FreezeTotal(edges[e])
  <2>. HIDE DEF t
  <2>1. t.omission_bond \in Int
    BY <1>3
  <2>. QED BY <1>3, <1>4, <2>1, CapacityLeavesBond, Zenon
<1>6. /\ record.final_cumulative = c.earned /\ record.start_cumulative = c.earned
      /\ record.penalty_amount = t.omission_bond
      /\ record.responded = FALSE /\ record.penalty_due = FALSE
  BY Zenon DEF PendingOpened
<1>. HIDE DEF record, t
<1>7. /\ DOMAIN pending' = DOMAIN pending \cup {e} /\ pending'[e] = record
      /\ \A x \in DOMAIN pending : x # e => pending'[x] = pending[x]
  BY <1>2 DEF Put
<1>8. ContestPayable'
  BY <1>2, <1>3, <1>5, <1>6, <1>7, Zenon DEF ContestInv, ContestPayable
<1>9. PenaltyIsProvedUnderstatement'
  <2>1. PenaltyIsProvedUnderstatement /\ c.earned \in Int
    BY <1>4 DEF ContestInv
  <2>2. /\ ~record.penalty_due /\ ~record.responded
        /\ ~(record.final_cumulative > record.start_cumulative)
        /\ record.final_cumulative >= record.start_cumulative
    BY <1>6, <2>1, AmountFacts, Zenon
  <2>. QED BY <1>7, <2>1, <2>2, Zenon DEF PenaltyIsProvedUnderstatement
<1>10. PaymentsFunded'
  BY <1>2 DEF ContestInv, PaymentsFunded, LivePayments
<1>. QED BY <1>8, <1>9, <1>10

\* A response raises the amount within capacity, and is a client's proved
\* understatement iff the client opened the contest (check_response).
LEMMA ResponseContestInv ==
  ASSUME ContestInv, LeaseInv', NEW e \in DOMAIN pending, SomeResponse(e)
  PROVE  PaymentsFunded' /\ ContestPayable' /\ PenaltyIsProvedUnderstatement'
<1>1. PICK x \in DOMAIN pending, role \in Parties, c \in certificates, a \in Authority :
        RespondPaymentClose(e, pending[x].start_id, role, c, a)
  BY DEF SomeResponse
<1>. DEFINE r == pending[e]
            record == RespondedAt(r, c.earned, a = "Owner")
<1>2. /\ pending' = [pending EXCEPT ![e] = record] /\ edges' = edges
      /\ ~r.responded /\ c.earned > r.final_cumulative
      /\ CertificateOk(e, c, r.penalty_amount)
  BY <1>1 DEF RespondPaymentClose
<1>3. r \in Contest /\ c.earned \in Int /\ e \in DOMAIN edges /\ EdgesOK
  <2>1. TypeOK /\ e \in LivePayments
    BY Zenon DEF ContestInv, LeaseInv, RecordsBelongToLiveEdges
  <2>2. c.earned \in 0..U64Max
    BY <2>1, InputsAssumption, Zenon DEF TypeOK
  <2>3. r \in Contest
    BY <2>1 DEF TypeOK
  <2>4. EdgesOK
    BY <2>1 DEF TypeOK
  <2>. QED BY <2>1, <2>2, <2>3, <2>4, AmountFacts, Zenon DEF LivePayments
<1>4. /\ record.final_cumulative = c.earned /\ record.start_cumulative = r.start_cumulative
      /\ record.penalty_amount = r.penalty_amount /\ record.opener_role = r.opener_role
      /\ record.responded = TRUE
      /\ record.penalty_due <=> (r.penalty_due \/ r.opener_role = "Maker")
  BY <1>3, Zenon DEF RespondedAt, Contest
<1>5. /\ r.penalty_amount \in Int /\ r.start_cumulative \in Int /\ r.final_cumulative \in Int
  BY <1>3 DEF Contest
<1>6. /\ c.earned + r.penalty_amount <= AdjudicatedTotal(edges[e])
      /\ c.earned + r.penalty_amount <= FreezeTotal(edges[e])
  BY <1>2, <1>3, <1>5, CapacityLeavesBond DEF CertificateOk
<1>7. ~r.penalty_due /\ r.final_cumulative >= r.start_cumulative
  BY <1>2 DEF ContestInv, PenaltyIsProvedUnderstatement
<1>. HIDE DEF record, r
<1>8. /\ DOMAIN pending' = DOMAIN pending /\ pending'[e] = record
      /\ \A y \in DOMAIN pending : y # e => pending'[y] = pending[y]
  BY <1>2
<1>9. ContestPayable'
  BY <1>2, <1>4, <1>6, <1>8 DEF ContestInv, ContestPayable, CertificateOk
<1>10. PenaltyIsProvedUnderstatement'
  <2>1. c.earned > r.start_cumulative /\ c.earned >= r.start_cumulative
    BY <1>2, <1>3, <1>5, <1>7, GrowsStrictly, Zenon
  <2>2. /\ record.final_cumulative > record.start_cumulative
        /\ record.final_cumulative >= record.start_cumulative
    BY <1>4, <2>1, Zenon
  <2>3. record.penalty_due <=> record.responded /\ record.opener_role = "Maker"
    BY <1>4, <1>7, Zenon
  <2>4. PenaltyIsProvedUnderstatement
    BY DEF ContestInv
  <2>. QED BY <1>4, <1>8, <2>2, <2>3, <2>4, Zenon DEF PenaltyIsProvedUnderstatement
<1>11. PaymentsFunded'
  BY <1>2 DEF ContestInv, PaymentsFunded, LivePayments
<1>. QED BY <1>9, <1>10, <1>11

\* The contest invariant holds initially and is kept by every step.
LEMMA ContestInvariant == Spec => []ContestInv
<1>1. Init => LeaseInv
  BY LeaseInit
<1>2. Init => PaymentsFunded /\ ContestPayable /\ PenaltyIsProvedUnderstatement
  <2>1. Init => DOMAIN edges = {} /\ DOMAIN pending = {}
    BY DEF Init
  <2>2. DOMAIN edges = {} => PaymentsFunded
    BY DEF PaymentsFunded, LivePayments
  <2>3. DOMAIN pending = {} => ContestPayable /\ PenaltyIsProvedUnderstatement
    BY Zenon DEF ContestPayable, PenaltyIsProvedUnderstatement
  <2>. QED BY <2>1, <2>2, <2>3
<1>3. ContestInv /\ [Next]_vars => ContestInv'
  <2>. SUFFICES ASSUME ContestInv, [Next]_vars PROVE ContestInv'
    OBVIOUS
  <2>1. LeaseInv'
    BY LeaseStep DEF ContestInv
  <2>. QED BY <2>1, ContestSteps, KeepsContestInv, OpenContestInv, StartContestInv,
              ResponseContestInv DEF ContestInv
<1>. QED BY <1>1, <1>2, <1>3, PTL DEF Spec, ContestInv

\* Whatever a contest has reached, both exits can pay it with the penalty.
THEOREM ContestsArePayable == Spec => []ContestPayable
BY ContestInvariant, PTL DEF ContestInv

\* The omission bond is forfeit exactly when the client's own certificate, in a
\* response, exceeded the client's own start.
THEOREM PenaltiesAreProved == Spec => []PenaltyIsProvedUnderstatement
BY ContestInvariant, PTL DEF ContestInv

\* A contest changes at most once while it lives, upwards and in time.
THEOREM ContestsOnlyAdvance == Spec => ContestOnlyAdvances
<1>1. ASSUME ContestInv, [Next]_vars, NEW e \in DOMAIN pending \cap DOMAIN pending',
             pending'[e] # pending[e]
      PROVE  LET r == pending[e] s == pending'[e]
             IN /\ ~r.responded /\ s.responded /\ height < r.response_deadline
                /\ s.final_cumulative > r.final_cumulative
                /\ s.start_id = r.start_id /\ s.response_deadline = r.response_deadline
                /\ s.start_cumulative = r.start_cumulative /\ s.opener_role = r.opener_role
                /\ r.owner_signed.maker = s.owner_signed.maker
                /\ r.owner_signed.taker => s.owner_signed.taker
  <2>0. SomeOpen => pending' = pending
    BY OpenEffect, Zenon DEF SomeOpen, OpenResult
  <2>1. ~Keeps /\ ~SomeOpen
    BY <1>1, <2>0, Zenon DEF Keeps
  <2>2. ASSUME NEW x \in LivePayments, SomeStart(x) PROVE FALSE
    <3>1. PICK role \in Parties, c \in certificates \cup {NoCertificate}, w \in Windows,
               a \in Authority : StartPaymentClose(x, role, c, w, a)
      BY <2>2, Zenon DEF SomeStart
    <3>2. PICK r : x \notin DOMAIN pending /\ pending' = Put(pending, x, r)
      BY <3>1, Zenon DEF StartPaymentClose
    <3>3. pending'[e] = pending[e]
      BY <3>2 DEF Put
    <3>. QED BY <1>1, <3>3, Zenon
  <2>3. PICK x \in DOMAIN pending : SomeResponse(x)
    <3>1. \/ Keeps \/ SomeOpen \/ \E x \in LivePayments : SomeStart(x)
          \/ \E x \in DOMAIN pending : SomeResponse(x)
      BY <1>1, ContestSteps, Zenon
    <3>. QED BY <2>1, <2>2, <3>1, Zenon
  <2>4. PICK role, c, a : RespondPaymentClose(x, pending[x].start_id, role, c, a)
    BY <2>3, Zenon DEF SomeResponse, RespondPaymentClose
  <2>5. pending' = [pending EXCEPT ![x] = RespondedAt(pending[x], c.earned, a = "Owner")]
    BY <2>4 DEF RespondPaymentClose
  <2>6. x = e
    BY <1>1, <2>5
  <2>7. /\ ~pending[e].responded /\ height < pending[e].response_deadline
        /\ c.earned > pending[e].final_cumulative
    BY <2>4, <2>6 DEF RespondPaymentClose
  <2>8. pending[e] \in Contest
    BY <1>1, Zenon DEF ContestInv, LeaseInv, TypeOK
  <2>9. pending'[e] = RespondedAt(pending[e], c.earned, a = "Owner")
    BY <1>1, <2>5, <2>6
  <2>. QED BY <2>7, <2>8, <2>9 DEF Contest, RespondedAt
<1>2. ContestInv /\ [Next]_vars =>
        [\A e \in DOMAIN pending \cap DOMAIN pending' :
           LET r == pending[e] s == pending'[e]
           IN s # r =>
                /\ ~r.responded /\ s.responded /\ height < r.response_deadline
                /\ s.final_cumulative > r.final_cumulative
                /\ s.start_id = r.start_id /\ s.response_deadline = r.response_deadline
                /\ s.start_cumulative = r.start_cumulative /\ s.opener_role = r.opener_role
                /\ r.owner_signed.maker = s.owner_signed.maker
                /\ r.owner_signed.taker => s.owner_signed.taker]_vars
  BY <1>1, Zenon
<1>. QED BY <1>2, ContestInvariant, PTL DEF Spec, ContestOnlyAdvances
=============================================================================
