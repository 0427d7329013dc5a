------------------------- MODULE KernelSettlements --------------------------
(***************************************************************************)
(* Proofs about how a channel ends: a silent party is heard, a settlement  *)
(* honours its contest, and what a silent owner keeps.                     *)
(***************************************************************************)
EXTENDS KernelContests

---------------------------------------------------------------------------
(* How a channel can end *)

SomeFreeze(e) ==
  \E earned \in Amounts \cup {0}, w \in Windows, ma, ta \in Authority :
    CloseFreeze(e, earned, w, ma, ta)

SomeAdjudication(e) ==
  \E x \in DOMAIN pending : CloseAdjudicated(e, ContestCommitment(x, pending[x]))

\* A channel ends by agreement or by adjudication and in no other way.
LEMMA ChannelExits ==
  ASSUME LeaseInv, [Next]_vars, NEW e \in LivePayments, e \notin DOMAIN edges'
  PROVE  SomeFreeze(e) \/ SomeAdjudication(e)
<1>. USE DEF SomeFreeze, SomeAdjudication
<1>0. e \in DOMAIN edges /\ IsPayment(edges[e].terms) /\ edges[e].allowed = AllowedCloses(e.terms)
      /\ edges[e].terms = e.terms
  BY DEF LivePayments, LeaseInv, TypeOK, EdgesOK
<1>1. ASSUME NEW x, NEW outputs, NEW ma, NEW ta, CloseMutual(x, outputs, ma, ta)
      PROVE  FALSE
  <2>1. CloseEdge(x, "Mutual", outputs)
    BY <1>1 DEF CloseMutual
  <2>2. x = e /\ "Mutual" \in edges[x].allowed
    BY <1>0, <2>1, CloseEffect, Zenon
  <2>. QED BY <1>0, <2>2, AllowedFacts
<1>2. ASSUME NEW x, NEW byOwner, CloseTimeout(x, byOwner)
      PROVE  FALSE
  <2>1. (\E outputs : CloseEdge(x, "Timeout", outputs)) /\ ~IsPayment(edges[x].terms)
    BY <1>2 DEF CloseTimeout
  <2>2. x = e
    BY <1>0, <2>1, CloseEffect, Zenon
  <2>. QED BY <1>0, <2>1, <2>2
<1>3. ASSUME NEW x, NEW earned \in Amounts \cup {0}, NEW w \in Windows, NEW ma \in Authority,
             NEW ta \in Authority, CloseFreeze(x, earned, w, ma, ta)
      PROVE  SomeFreeze(e)
  <2>1. \E outputs : CloseEdge(x, "Freeze", outputs)
    BY <1>3 DEF CloseFreeze
  <2>2. x = e
    BY <1>0, <2>1, CloseEffect, Zenon
  <2>. QED BY <1>3, <2>2
<1>4. ASSUME NEW x, NEW y \in DOMAIN pending, CloseAdjudicated(x, ContestCommitment(y, pending[y]))
      PROVE  SomeAdjudication(e)
  <2>1. \E outputs : CloseEdge(x, "Adjudicated", outputs)
    BY <1>4 DEF CloseAdjudicated
  <2>2. x = e
    BY <1>0, <2>1, CloseEffect, Zenon
  <2>. QED BY <1>4, <2>2
<1>5. ~SomeOpen
  BY <1>0, OpenEffect, Zenon DEF SomeOpen, OpenResult
<1>6. ~ \/ NextBlock \/ UNCHANGED vars
        \/ \E key \in MayRetire : Retire(key)
        \/ \E x \in LivePayments, earned \in Amounts : SignCertificate(x, earned)
        \/ \E x \in LivePayments, role \in Parties, c \in certificates \cup {NoCertificate},
              w \in Windows, a \in Authority : StartPaymentClose(x, role, c, w, a)
        \/ \E x, y \in DOMAIN pending, role \in Parties, c \in certificates, a \in Authority :
              RespondPaymentClose(x, pending[y].start_id, role, c, a)
        \/ \E owner \in Keys, outputs \in OutputLists :
              \E inputs \in CoinLists(owner) : Reshape(inputs, outputs)
  <2>1. ~NextBlock /\ ~UNCHANGED vars
    BY <1>0 DEF NextBlock, vars
  <2>2. /\ \A key : ~Retire(key)
        /\ \A x, earned : ~SignCertificate(x, earned)
    BY <1>0 DEF Retire, SignCertificate
  <2>3. /\ \A x, role, c, w, a : ~StartPaymentClose(x, role, c, w, a)
        /\ \A x, id, role, c, a : ~RespondPaymentClose(x, id, role, c, a)
    BY <1>0 DEF StartPaymentClose, RespondPaymentClose
  <2>4. \A inputs, outputs : ~Reshape(inputs, outputs)
    BY <1>0 DEF Reshape
  <2>. QED BY <2>1, <2>2, <2>3, <2>4, Zenon
<1>. QED BY <1>1, <1>2, <1>3, <1>4, <1>5, <1>6 DEF Next, SomeOpen

\* A party that signs nothing loses its channel only to a contest that is over.
THEOREM SilentPartiesAreHeard == Spec => SilentPartyIsHeard
<1>1. ASSUME LeaseInv, [Next]_vars, NEW e \in LivePayments, e \notin DOMAIN edges'
      PROVE  \/ ~Silent(edges[e].parties.maker) /\ ~Silent(edges[e].parties.taker)
             \/ e \in DOMAIN pending
                  /\ (pending[e].responded \/ height >= pending[e].response_deadline)
  <2>1. CASE SomeFreeze(e)
    BY <2>1 DEF SomeFreeze, CloseFreeze, Silent, SignedByEither
  <2>2. CASE SomeAdjudication(e)
    BY <2>2 DEF SomeAdjudication, CloseAdjudicated, ContestOver
  <2>. QED BY <1>1, <2>1, <2>2, ChannelExits
<1>2. LeaseInv /\ [Next]_vars =>
        [\A e \in LivePayments :
           e \notin DOMAIN edges' =>
             \/ ~Silent(edges[e].parties.maker) /\ ~Silent(edges[e].parties.taker)
             \/ e \in DOMAIN pending
                  /\ (pending[e].responded \/ height >= pending[e].response_deadline)]_vars
  BY <1>1
<1>. QED BY <1>2, LeaseInvariant, PTL DEF Spec, SilentPartyIsHeard

\* A close issues each of its payouts under that payout's own id
\* (Payout::close_coin; the position makes the ids distinct).
LEMMA PayoutsIssued ==
  ASSUME NEW e, NEW kind, NEW outputs, CloseEdge(e, kind, outputs), NEW i \in DOMAIN outputs
  PROVE  coins'[PayoutId(e, i, outputs[i].owner)] = outputs[i]
<1>. DEFINE ids == [j \in DOMAIN outputs |-> PayoutId(e, j, outputs[j].owner)]
<1>1. /\ coins' = [id \in DOMAIN coins \cup Range(ids) |->
                     IF id \in DOMAIN coins THEN coins[id]
                     ELSE outputs[CHOOSE j \in DOMAIN ids : ids[j] = id]]
      /\ Range(ids) \cap DOMAIN coins = {}
  BY DEF CloseEdge
<1>2. DOMAIN ids = DOMAIN outputs /\ ids[i] = PayoutId(e, i, outputs[i].owner)
  OBVIOUS
<1>3. \A j \in DOMAIN ids : ids[j] = ids[i] => j = i
  BY DEF PayoutId
<1>. HIDE DEF ids
<1>4. ids[i] \in Range(ids)
  BY <1>2 DEF Range
<1>5. (CHOOSE j \in DOMAIN ids : ids[j] = ids[i]) = i
  BY <1>2, <1>3
<1>. QED BY <1>1, <1>2, <1>4, <1>5

\* The two coins a payment exit leaves behind
PaidAsSplit(e, total, provider, signed) ==
  /\ ProviderPaid(e).value = provider
  /\ ClientPaid(e).value = total - provider
  /\ signed.taker => ProviderPaid(e).delegate = NoKey
  /\ signed.maker => ClientPaid(e).delegate = NoKey

\* Both payouts of a split, as issued (split_payouts and apply_close).
LEMMA SplitIssued ==
  ASSUME NEW e, NEW kind, NEW total \in Int, NEW provider \in Int, NEW signed, NEW outputs,
         CloseEdge(e, kind, outputs),
         outputs = SplitPayouts(edges[e].parties, total, provider, signed)
  PROVE  PaidAsSplit(e, total, provider, signed)
<1>1. /\ DOMAIN outputs = {1, 2}
      /\ outputs[1] = PayoutTo(edges[e].parties.taker, provider, signed.taker)
      /\ outputs[2] = PayoutTo(edges[e].parties.maker, total - provider, signed.maker)
  <2>. DEFINE first == PayoutTo(edges[e].parties.taker, provider, signed.taker)
              second == PayoutTo(edges[e].parties.maker, total - provider, signed.maker)
  <2>1. outputs = <<first, second>>
    BY DEF SplitPayouts
  <2>. HIDE DEF first, second
  <2>2. DOMAIN outputs = {1, 2} /\ outputs[1] = first /\ outputs[2] = second
    BY <2>1
  <2>. QED BY <2>2 DEF first, second
<1>2. /\ outputs[1].owner = edges[e].parties.taker.owner
      /\ outputs[2].owner = edges[e].parties.maker.owner
      /\ outputs[1].value = provider /\ outputs[2].value = total - provider
      /\ signed.taker => outputs[1].delegate = NoKey
      /\ signed.maker => outputs[2].delegate = NoKey
  <2>1. ASSUME NEW party, NEW value, NEW own
        PROVE  /\ PayoutTo(party, value, own).owner = party.owner
               /\ PayoutTo(party, value, own).value = value
               /\ own => PayoutTo(party, value, own).delegate = NoKey
    BY DEF PayoutTo
  <2>. QED BY <1>1, <2>1
<1>3. /\ coins'[PayoutId(e, 1, outputs[1].owner)] = outputs[1]
      /\ coins'[PayoutId(e, 2, outputs[2].owner)] = outputs[2]
  <2>1. ASSUME NEW i \in DOMAIN outputs
        PROVE  coins'[PayoutId(e, i, outputs[i].owner)] = outputs[i]
    BY PayoutsIssued
  <2>. QED BY <1>1, <2>1, Zenon
<1>4. ProviderPaid(e) = outputs[1] /\ ClientPaid(e) = outputs[2]
  BY <1>2, <1>3 DEF ProviderPaid, ClientPaid
<1>. QED BY <1>2, <1>4 DEF PaidAsSplit

\* The end of a contest honours what it settled, whichever exit is taken.
THEOREM SettlementsHonourContests == Spec => SettlementHonoursContest
<1>1. ASSUME LeaseInv, [Next]_vars, NEW e \in DOMAIN pending, e \notin DOMAIN edges'
      PROVE  LET r == pending[e]
             IN /\ ProviderPaid(e).value >= r.final_cumulative + Penalty(r)
                /\ ProviderPaid(e).value + ClientPaid(e).value
                     \in {FreezeTotal(edges[e]), AdjudicatedTotal(edges[e])}
                /\ r.owner_signed.maker => ClientPaid(e).delegate = NoKey
                /\ r.owner_signed.taker => ProviderPaid(e).delegate = NoKey
  <2>. DEFINE r == pending[e]
  <2>1. /\ e \in LivePayments /\ e \in DOMAIN edges /\ r \in Contest
        /\ FreezeTotal(edges[e]) \in Int /\ AdjudicatedTotal(edges[e]) \in Int
    BY <1>1, TotalsType DEF LeaseInv, RecordsBelongToLiveEdges, LivePayments, TypeOK
  <2>2. CASE SomeFreeze(e)
    <3>1. PICK earned \in Amounts \cup {0}, w \in Windows, ma \in Authority, ta \in Authority :
            CloseFreeze(e, earned, w, ma, ta)
      BY <2>2 DEF SomeFreeze
    <3>. DEFINE provider == earned + FreezePenalty(r, earned)
                signed == [maker |-> ma = "Owner" \/ r.owner_signed.maker,
                           taker |-> ta = "Owner" \/ r.owner_signed.taker]
                total == FreezeTotal(edges[e])
    <3>2. /\ earned >= r.final_cumulative
          /\ CloseEdge(e, "Freeze", SplitPayouts(edges[e].parties, total, provider, signed))
      BY <1>1, <3>1 DEF CloseFreeze
    <3>3. earned \in Int
      BY InputsAssumption
    <3>4. provider \in Int /\ provider >= r.final_cumulative + Penalty(r)
      <4>1. /\ r.final_cumulative \in Int /\ r.start_cumulative \in Int
            /\ r.penalty_amount \in Nat
        BY <2>1 DEF Contest
      <4>. HIDE DEF r
      <4>2. FreezePenalty(r, earned) \in Nat /\ Penalty(r) \in Nat
        BY <4>1 DEF FreezePenalty, Penalty
      <4>3. FreezePenalty(r, earned) >= Penalty(r)
        BY <4>1 DEF FreezePenalty, Penalty
      <4>4. earned + FreezePenalty(r, earned) >= r.final_cumulative + Penalty(r)
        <5>1. PICK f, q, g : f = FreezePenalty(r, earned) /\ q = Penalty(r) /\ g = r.final_cumulative
          OBVIOUS
        <5>2. earned \in Int /\ f \in Nat /\ q \in Nat /\ g \in Int /\ earned >= g /\ f >= q
          BY <3>2, <3>3, <4>1, <4>2, <4>3, <5>1
        <5>3. earned + f >= g + q
          BY <5>2
        <5>. QED BY <5>1, <5>3
      <4>. QED BY <3>3, <4>2, <4>4
    <3>5. (r.owner_signed.maker => signed.maker) /\ (r.owner_signed.taker => signed.taker)
      BY Zenon
    <3>. HIDE DEF provider, total, signed
    <3>6. PICK p, t, s, outputs :
            /\ p = provider /\ t = total /\ s = signed
            /\ outputs = SplitPayouts(edges[e].parties, t, p, s) /\ CloseEdge(e, "Freeze", outputs)
      BY <3>2
    <3>7. /\ t = FreezeTotal(edges[e]) /\ p \in Int /\ p >= r.final_cumulative + Penalty(r)
          /\ (r.owner_signed.maker => s.maker) /\ (r.owner_signed.taker => s.taker)
      BY <3>4, <3>5, <3>6 DEF total
    <3>8. PaidAsSplit(e, t, p, s)
      BY <2>1, <3>6, <3>7, SplitIssued, Zenon
    <3>9. /\ ProviderPaid(e).value = p /\ ClientPaid(e).value = t - p
          /\ s.taker => ProviderPaid(e).delegate = NoKey
          /\ s.maker => ClientPaid(e).delegate = NoKey
      BY <3>8 DEF PaidAsSplit
    <3>10. p + (t - p) = t
      BY <2>1, <3>7
    <3>. QED BY <3>7, <3>9, <3>10
  <2>3. CASE SomeAdjudication(e)
    <3>. DEFINE provider == r.final_cumulative + Penalty(r)
                total == AdjudicatedTotal(edges[e])
    <3>1. CloseEdge(e, "Adjudicated", SplitPayouts(edges[e].parties, total, provider, r.owner_signed))
      BY <2>3 DEF SomeAdjudication, CloseAdjudicated
    <3>2. provider \in Int /\ total \in Int
      BY <2>1 DEF Contest, Penalty
    <3>. HIDE DEF provider, total
    <3>3. PICK p, t, s, outputs :
            /\ p = provider /\ t = total /\ s = r.owner_signed
            /\ outputs = SplitPayouts(edges[e].parties, t, p, s)
            /\ CloseEdge(e, "Adjudicated", outputs)
      BY <3>1
    <3>4. p \in Int /\ t \in Int
      BY <3>2, <3>3
    <3>5. PaidAsSplit(e, t, p, s)
      BY <3>3, <3>4, SplitIssued, Zenon
    <3>6. t = AdjudicatedTotal(edges[e]) /\ p = r.final_cumulative + Penalty(r)
      BY <3>3 DEF total, provider
    <3>7. /\ ProviderPaid(e).value = p /\ ClientPaid(e).value = t - p
          /\ s.taker => ProviderPaid(e).delegate = NoKey
          /\ s.maker => ClientPaid(e).delegate = NoKey
      BY <3>5 DEF PaidAsSplit
    <3>8. p >= p /\ p + (t - p) = t
      BY <3>4
    <3>. QED BY <3>3, <3>6, <3>7, <3>8
  <2>. QED BY <1>1, <2>1, <2>2, <2>3, ChannelExits
<1>2. LeaseInv /\ [Next]_vars =>
        [\A e \in DOMAIN pending :
           e \notin DOMAIN edges' =>
             LET r == pending[e]
             IN /\ ProviderPaid(e).value >= r.final_cumulative + Penalty(r)
                /\ ProviderPaid(e).value + ClientPaid(e).value
                     \in {FreezeTotal(edges[e]), AdjudicatedTotal(edges[e])}
                /\ r.owner_signed.maker => ClientPaid(e).delegate = NoKey
                /\ r.owner_signed.taker => ProviderPaid(e).delegate = NoKey]_vars
  BY <1>1
<1>. QED BY <1>2, LeaseInvariant, PTL DEF Spec, SettlementHonoursContest

---------------------------------------------------------------------------
(* What a client that has stopped signing can be charged *)

\* What a contest has settled so far is nothing, or what some certificate of the
\* channel says (check_certificate in a start and in a response).
SettledIsCertified ==
  \A e \in DOMAIN pending :
    \/ pending[e].final_cumulative = 0
    \/ \E c \in certificates :
         c.payment_edge = e /\ c.earned = pending[e].final_cumulative

CertifiedInv == ContestInv /\ SettledIsCertified

\* Every exit of an edge is one close of it.
LEMMA ClosesAreCloseEdges ==
  /\ \A e, outputs, ma, ta : CloseMutual(e, outputs, ma, ta) => \E kind, x : CloseEdge(e, kind, x)
  /\ \A e, byOwner : CloseTimeout(e, byOwner) => \E kind, x : CloseEdge(e, kind, x)
  /\ \A e, earned, w, ma, ta :
       CloseFreeze(e, earned, w, ma, ta) => \E kind, x : CloseEdge(e, kind, x)
  /\ \A e, id : CloseAdjudicated(e, id) => \E kind, x : CloseEdge(e, kind, x)
<1>1. \A e, outputs, ma, ta : CloseMutual(e, outputs, ma, ta) => \E kind, x : CloseEdge(e, kind, x)
  BY Zenon DEF CloseMutual
<1>2. \A e, byOwner : CloseTimeout(e, byOwner) => \E kind, x : CloseEdge(e, kind, x)
  BY Zenon DEF CloseTimeout
<1>3. \A e, earned, w, ma, ta :
        CloseFreeze(e, earned, w, ma, ta) => \E kind, x : CloseEdge(e, kind, x)
  <2>1. ASSUME NEW e, NEW earned, NEW w, NEW ma, NEW ta, CloseFreeze(e, earned, w, ma, ta)
        PROVE  \E x : CloseEdge(e, "Freeze", x)
    BY <2>1, Zenon DEF CloseFreeze
  <2>. QED BY <2>1, Zenon
<1>4. \A e, id : CloseAdjudicated(e, id) => \E kind, x : CloseEdge(e, kind, x)
  BY Zenon DEF CloseAdjudicated
<1>. QED BY <1>1, <1>2, <1>3, <1>4

\* A certificate never expires.
LEMMA CertificatesStay ==
  ASSUME [Next]_vars
  PROVE  certificates \subseteq certificates'
<1>1. ASSUME NEW e, NEW kind, NEW outputs, CloseEdge(e, kind, outputs)
      PROVE  certificates' = certificates
  BY <1>1, CloseEffect, Zenon
<1>2. SomeOpen => certificates' = certificates
  BY OpenEffect, Zenon DEF SomeOpen, OpenResult
<1>3. /\ \A e, outputs, ma, ta : CloseMutual(e, outputs, ma, ta) => certificates' = certificates
      /\ \A e, byOwner : CloseTimeout(e, byOwner) => certificates' = certificates
      /\ \A e, earned, w, ma, ta : CloseFreeze(e, earned, w, ma, ta) => certificates' = certificates
      /\ \A e, x : CloseAdjudicated(e, x) => certificates' = certificates
  BY <1>1, ClosesAreCloseEdges, Zenon
<1>4. /\ NextBlock \/ UNCHANGED vars => certificates' = certificates
      /\ \A key : Retire(key) => certificates' = certificates
  BY DEF NextBlock, vars, world, Retire
<1>5. \A e, earned : SignCertificate(e, earned) => certificates \subseteq certificates'
  BY DEF SignCertificate
<1>6. \A e, role, c, w, a : StartPaymentClose(e, role, c, w, a) => certificates' = certificates
  BY Zenon DEF StartPaymentClose, world
<1>7. \A e, id, role, c, a :
        RespondPaymentClose(e, id, role, c, a) => certificates' = certificates
  BY DEF RespondPaymentClose, world
<1>8. \A inputs, outputs : Reshape(inputs, outputs) => certificates' = certificates
  BY DEF Reshape, world
<1>. QED BY <1>2, <1>3, <1>4, <1>5, <1>6, <1>7, <1>8, Zenon DEF Next, SomeOpen

\* A contest that is opened or answered takes its amount from a certificate.
LEMMA CertifiedStep ==
  ASSUME CertifiedInv, [Next]_vars
  PROVE  SettledIsCertified'
<1>0. certificates \subseteq certificates'
  BY CertificatesStay
<1>1. CASE Keeps
  <2>1. SettledIsCertified
    BY DEF CertifiedInv
  <2>. QED BY <1>0, <1>1, <2>1, Zenon DEF Keeps, SettledIsCertified
<1>2. CASE SomeOpen
  <2>1. pending' = pending
    BY <1>2, OpenEffect, Zenon DEF SomeOpen, OpenResult
  <2>. QED BY <1>0, <2>1 DEF CertifiedInv, SettledIsCertified
<1>3. ASSUME NEW e \in LivePayments, SomeStart(e) PROVE SettledIsCertified'
  <2>1. PICK role \in Parties, c \in certificates \cup {NoCertificate}, w \in Windows,
             a \in Authority : StartPaymentClose(e, role, c, w, a)
    BY <1>3 DEF SomeStart
  <2>. DEFINE record == PendingOpened(role, c.earned, height, edges[e].terms, a = "Owner")
  <2>2. /\ pending' = Put(pending, e, record)
        /\ c # NoCertificate => c \in certificates /\ c.payment_edge = e
    BY <2>1, Zenon DEF StartPaymentClose, CertificateOk
  <2>3. record.final_cumulative = c.earned
    BY Zenon DEF PendingOpened
  <2>4. c = NoCertificate => c.earned = 0
    BY DEF NoCertificate
  <2>. HIDE DEF record
  <2>5. /\ DOMAIN pending' = DOMAIN pending \cup {e} /\ pending'[e] = record
        /\ \A x \in DOMAIN pending : x # e => pending'[x] = pending[x]
    BY <2>2 DEF Put
  <2>6. ASSUME NEW x \in DOMAIN pending', x # e
        PROVE  \/ pending'[x].final_cumulative = 0
               \/ \E y \in certificates' :
                    y.payment_edge = x /\ y.earned = pending'[x].final_cumulative
    <3>1. x \in DOMAIN pending /\ pending'[x] = pending[x]
      BY <2>5, <2>6
    <3>. QED BY <1>0, <3>1 DEF CertifiedInv, SettledIsCertified
  <2>7. \/ pending'[e].final_cumulative = 0
        \/ \E y \in certificates' :
             y.payment_edge = e /\ y.earned = pending'[e].final_cumulative
    BY <1>0, <2>2, <2>3, <2>4, <2>5
  <2>. QED BY <2>6, <2>7 DEF SettledIsCertified
<1>4. ASSUME NEW e \in DOMAIN pending, SomeResponse(e) PROVE SettledIsCertified'
  <2>1. PICK x \in DOMAIN pending, role \in Parties, c \in certificates, a \in Authority :
          RespondPaymentClose(e, pending[x].start_id, role, c, a)
    BY <1>4 DEF SomeResponse
  <2>. DEFINE record == RespondedAt(pending[e], c.earned, a = "Owner")
  <2>2. pending' = [pending EXCEPT ![e] = record] /\ c.payment_edge = e
    BY <2>1 DEF RespondPaymentClose, CertificateOk
  <2>3. pending[e] \in Contest
    BY DEF CertifiedInv, ContestInv, LeaseInv, TypeOK
  <2>4. record.final_cumulative = c.earned
    BY <2>3 DEF RespondedAt, Contest
  <2>. HIDE DEF record
  <2>. QED BY <1>0, <2>2, <2>4 DEF CertifiedInv, SettledIsCertified
<1>. QED BY <1>1, <1>2, <1>3, <1>4, ContestSteps

LEMMA CertifiedInvariant == Spec => []CertifiedInv
<1>1. Init => SettledIsCertified
  BY DEF Init, SettledIsCertified
<1>2. SettledIsCertified /\ ContestInv /\ [Next]_vars => SettledIsCertified'
  BY CertifiedStep DEF CertifiedInv
<1>. QED BY <1>1, <1>2, ContestInvariant, PTL DEF Spec, CertifiedInv

\* A client that signs nothing is charged what it certified, and its omission bond
\* only on top of a certificate that its own start understated.
THEOREM SilentClientsAreNotOvercharged == Spec => SilentClientNeverOvercharged
<1>1. ASSUME CertifiedInv, [Next]_vars, NEW e \in LivePayments, e \notin DOMAIN edges',
             Silent(edges[e].parties.maker)
      PROVE  LET paid == ProviderPaid(e).value
                 owed == {c \in certificates : c.payment_edge = e}
                 understated == \E c \in owed :
                   /\ pending[e].opener_role = "Maker"
                   /\ c.earned > pending[e].start_cumulative
             IN \/ paid = 0
                \/ \E c \in owed : paid <= c.earned
                \/ understated /\ \E c \in owed : paid <= c.earned + e.terms.omission_bond
  <2>. DEFINE r == pending[e]
              provider == r.final_cumulative + Penalty(r)
              total == AdjudicatedTotal(edges[e])
  <2>1. ~SomeFreeze(e)
    BY <1>1, Zenon DEF SomeFreeze, CloseFreeze, Silent, SignedByEither
  <2>2. SomeAdjudication(e)
    BY <1>1, <2>1, ChannelExits DEF CertifiedInv, ContestInv
  <2>3. /\ e \in DOMAIN pending /\ r \in Contest
        /\ r.penalty_amount = e.terms.omission_bond
        /\ r.penalty_due => r.responded /\ r.opener_role = "Maker"
        /\ r.responded => r.final_cumulative > r.start_cumulative
    <3>1. e \in DOMAIN pending
      BY <2>2 DEF SomeAdjudication, CloseAdjudicated
    <3>2. r \in Contest /\ r.penalty_amount = e.terms.omission_bond
      BY <1>1, <3>1 DEF CertifiedInv, ContestInv, LeaseInv, TypeOK, RecordsBelongToLiveEdges
    <3>3. /\ r.penalty_due => r.responded /\ r.opener_role = "Maker"
          /\ r.responded => r.final_cumulative > r.start_cumulative
      BY <1>1, <3>1 DEF CertifiedInv, ContestInv, PenaltyIsProvedUnderstatement
    <3>. QED BY <3>1, <3>2, <3>3
  <2>4. CloseEdge(e, "Adjudicated", SplitPayouts(edges[e].parties, total, provider, r.owner_signed))
    BY <2>2 DEF SomeAdjudication, CloseAdjudicated
  <2>5. /\ r.final_cumulative \in Nat /\ r.start_cumulative \in Nat /\ r.penalty_amount \in Nat
        /\ Penalty(r) = IF r.penalty_due THEN r.penalty_amount ELSE 0
    BY <2>3 DEF Contest, Penalty
  <2>6. provider \in Int /\ total \in Int
    <3>1. EdgesOK /\ e \in DOMAIN edges
      BY <1>1 DEF LivePayments, CertifiedInv, ContestInv, LeaseInv, TypeOK
    <3>2. total \in Int
      BY <3>1, TotalsType
    <3>3. provider \in Int
      BY <2>5
    <3>. QED BY <3>2, <3>3
  <2>7. \/ r.final_cumulative = 0
        \/ \E c \in certificates : c.payment_edge = e /\ c.earned = r.final_cumulative
    BY <1>1, <2>3 DEF CertifiedInv, SettledIsCertified
  <2>8. ProviderPaid(e).value = r.final_cumulative + Penalty(r)
    <3>. HIDE DEF provider, total, r
    <3>1. PICK p, t, s, outputs :
            /\ p = provider /\ t = total /\ s = r.owner_signed
            /\ outputs = SplitPayouts(edges[e].parties, t, p, s)
            /\ CloseEdge(e, "Adjudicated", outputs)
      BY <2>4
    <3>2. p \in Int /\ t \in Int
      BY <2>6, <3>1
    <3>3. PaidAsSplit(e, t, p, s)
      BY <3>1, <3>2, SplitIssued, Zenon
    <3>. QED BY <3>1, <3>3 DEF PaidAsSplit, provider
  <2>. HIDE DEF r
  <2>9. CASE r.penalty_due
    <3>1. PICK c \in certificates : c.payment_edge = e /\ c.earned = r.final_cumulative
      BY <2>3, <2>5, <2>7, <2>9
    <3>2. ProviderPaid(e).value <= c.earned + e.terms.omission_bond
      BY <2>3, <2>5, <2>8, <2>9, <3>1
    <3>3. r.opener_role = "Maker" /\ c.earned > r.start_cumulative
      BY <2>3, <2>9, <3>1
    <3>. QED BY <3>1, <3>2, <3>3 DEF r
  <2>10. CASE ~r.penalty_due
    BY <2>5, <2>7, <2>8, <2>10
  <2>. QED BY <2>9, <2>10
<1>2. CertifiedInv /\ [Next]_vars =>
        [\A e \in LivePayments :
           e \notin DOMAIN edges' /\ Silent(edges[e].parties.maker) =>
             LET paid == ProviderPaid(e).value
                 owed == {c \in certificates : c.payment_edge = e}
                 understated == \E c \in owed :
                   /\ pending[e].opener_role = "Maker"
                   /\ c.earned > pending[e].start_cumulative
             IN \/ paid = 0
                \/ \E c \in owed : paid <= c.earned
                \/ understated /\ \E c \in owed : paid <= c.earned + e.terms.omission_bond]_vars
  BY <1>1
<1>. QED BY <1>2, CertifiedInvariant, PTL DEF Spec, SilentClientNeverOvercharged

\* An edge that stays is not changed, and only an open makes one.
LEMMA EdgesStay ==
  ASSUME [Next]_vars, ~SomeOpen
  PROVE  \A e \in DOMAIN edges' : e \in DOMAIN edges /\ edges'[e] = edges[e]
<1>. DEFINE Stay == \A e \in DOMAIN edges' : e \in DOMAIN edges /\ edges'[e] = edges[e]
<1>1. ASSUME NEW e, NEW kind, NEW outputs, CloseEdge(e, kind, outputs) PROVE Stay
  BY <1>1, CloseEffect, Zenon
<1>2. edges' = edges => Stay
  OBVIOUS
<1>. HIDE DEF Stay
<1>3. /\ \A e, outputs, ma, ta : CloseMutual(e, outputs, ma, ta) => Stay
      /\ \A e, byOwner : CloseTimeout(e, byOwner) => Stay
      /\ \A e, earned, w, ma, ta : CloseFreeze(e, earned, w, ma, ta) => Stay
      /\ \A e, x : CloseAdjudicated(e, x) => Stay
  BY <1>1, ClosesAreCloseEdges, Zenon
<1>4. /\ NextBlock \/ UNCHANGED vars => edges' = edges
      /\ \A key : Retire(key) => edges' = edges
      /\ \A e, earned : SignCertificate(e, earned) => edges' = edges
  BY DEF NextBlock, vars, Retire, SignCertificate
<1>5. \A e, role, c, w, a : StartPaymentClose(e, role, c, w, a) => edges' = edges
  BY Zenon DEF StartPaymentClose
<1>6. \A e, id, role, c, a : RespondPaymentClose(e, id, role, c, a) => edges' = edges
  BY DEF RespondPaymentClose
<1>7. \A inputs, outputs : Reshape(inputs, outputs) => edges' = edges
  BY DEF Reshape
<1>8. Stay
  BY <1>2, <1>3, <1>4, <1>5, <1>6, <1>7, Zenon DEF Next, SomeOpen
<1>. QED BY <1>8 DEF Stay

---------------------------------------------------------------------------
(* What an owner keeps without signing anything *)

\* The payouts an open committed stay payable: nothing about an edge changes while
\* it lives, and its close is priced by the schedule it stored.
THEOREM TimeoutsAreAlwaysPayable == Spec => []TimeoutAlwaysPayable
<1>1. Init => TimeoutAlwaysPayable
  <2>1. Init => DOMAIN edges = {}
    BY DEF Init
  <2>. QED BY <2>1 DEF TimeoutAlwaysPayable
<1>2. ASSUME TypeOK, TypeOK', TimeoutAlwaysPayable, [Next]_vars PROVE TimeoutAlwaysPayable'
  <2>1. CASE SomeOpen
    <3>1. PICK t, maker, taker, ma, ta : Open(t, maker, taker, ma, ta)
      BY <2>1 DEF SomeOpen
    <3>. DEFINE x == EdgeId(t, maker, taker)
                ids == maker \o taker
                edge == EdgeOpened(t, fees, height, Len(ids),
                                   SumOf([i \in DOMAIN ids |-> coins[ids[i]]]))
                cost == CloseCost(t, "Timeout", Len(t.outputs))
    <3>2. edges' = Put(edges, x, edge) /\ OpenAffordable(t, ids)
      BY <3>1, Zenon DEF Open
    <3>3. ~IsPayment(t) => CloseValueDefined(edge, cost) /\ SumOf(t.outputs) = CloseValue(edge, cost)
      BY <3>2, Zenon DEF OpenAffordable, TimeoutPayoutOk
    <3>4. OpenResult(t, x)
      BY <3>1, OpenEffect
    <3>. HIDE DEF x, edge
    <3>5. edges'[x] = edge
      BY <3>2 DEF Put
    <3>6. ASSUME NEW e \in DOMAIN edges' \ LivePayments', e # x
          PROVE  e \in DOMAIN edges \ LivePayments /\ edges'[e] = edges[e]
      BY <3>4, <3>6 DEF OpenResult, LivePayments
    <3>7. x \in DOMAIN edges' \ LivePayments' => ~IsPayment(t)
      BY <3>4 DEF OpenResult, LivePayments
    <3>. QED BY <1>2, <3>3, <3>4, <3>5, <3>6, <3>7, Zenon DEF TimeoutAlwaysPayable, OpenResult
  <2>2. CASE ~SomeOpen
    <3>1. \A e \in DOMAIN edges' : e \in DOMAIN edges /\ edges'[e] = edges[e]
      BY <1>2, <2>2, EdgesStay
    <3>. QED BY <1>2, <3>1 DEF TimeoutAlwaysPayable, LivePayments
  <2>. QED BY <2>1, <2>2
<1>3. TypeOK /\ TypeOK' /\ TimeoutAlwaysPayable /\ [Next]_vars => TimeoutAlwaysPayable'
  BY <1>2
<1>. QED BY <1>1, <1>3, TypeCorrect, PTL DEF Spec

\* A coin leaves only into an edge or a reshape.
LEMMA CoinsLeave ==
  ASSUME [Next]_vars, NEW id \in DOMAIN coins \ DOMAIN coins'
  PROVE  SomeOpen \/ \E inputs, outputs : Reshape(inputs, outputs)
<1>1. ASSUME NEW e, NEW kind, NEW outputs, CloseEdge(e, kind, outputs) PROVE FALSE
  <2>1. DOMAIN coins \subseteq DOMAIN coins'
    BY <1>1, Zenon DEF CloseEdge
  <2>. QED BY <2>1
<1>2. /\ \A e, outputs, ma, ta : ~CloseMutual(e, outputs, ma, ta)
      /\ \A e, byOwner : ~CloseTimeout(e, byOwner)
      /\ \A e, earned, w, ma, ta : ~CloseFreeze(e, earned, w, ma, ta)
      /\ \A e, x : ~CloseAdjudicated(e, x)
  BY <1>1, ClosesAreCloseEdges, Zenon
<1>3. coins' # coins
  OBVIOUS
<1>4. ~NextBlock /\ ~UNCHANGED vars
  BY <1>3, Zenon DEF NextBlock, vars
<1>5. \A key : ~Retire(key)
  BY <1>3, Zenon DEF Retire
<1>6. \A e, earned : ~SignCertificate(e, earned)
  BY <1>3, Zenon DEF SignCertificate
<1>7. \A e, role, c, w, a : ~StartPaymentClose(e, role, c, w, a)
  BY <1>3, Zenon DEF StartPaymentClose
<1>8. \A e, x, role, c, a : ~RespondPaymentClose(e, x, role, c, a)
  BY <1>3, Zenon DEF RespondPaymentClose
<1>. QED BY <1>2, <1>4, <1>5, <1>6, <1>7, <1>8, Zenon DEF Next, SomeOpen

\* A coin whose owner is silent is spent only by its delegate, as its owner's funding
\* of a work edge; every other way to spend it asks the owner.
THEOREM SilentOwnersKeepTheirCoins == Spec => SilentOwnerKeepsCoins
<1>1. ASSUME [Next]_vars, NEW id \in DOMAIN coins \ DOMAIN coins',
             coins[id].owner \notin signers
      PROVE  /\ coins[id].delegate \in signers
             /\ \E e \in DOMAIN edges' \ DOMAIN edges :
                  /\ IsPayment(e.terms) \/ IsWorkBond(e.terms)
                  /\ PartiesOf(e.terms).maker.owner = coins[id].owner
                  /\ id \in Range(e.maker)
  <2>1. ASSUME NEW inputs, NEW outputs, Reshape(inputs, outputs) PROVE FALSE
    <3>1. id \in Range(inputs)
      BY <2>1, Zenon DEF Reshape, Drop, Restrict
    <3>2. \E i \in DOMAIN inputs : inputs[i] = id
      BY <3>1 DEF Range
    <3>. QED BY <1>1, <2>1, <3>2, Zenon DEF Reshape
  <2>2. PICK t \in ProposedTerms, ma \in Authority, ta \in Authority :
          \E maker \in CoinLists(PartiesOf(t).maker.owner),
             taker \in CoinLists(PartiesOf(t).taker.owner) : Open(t, maker, taker, ma, ta)
    BY <1>1, <2>1, CoinsLeave, Zenon DEF SomeOpen
  <2>3. PICK maker \in CoinLists(PartiesOf(t).maker.owner),
             taker \in CoinLists(PartiesOf(t).taker.owner) : Open(t, maker, taker, ma, ta)
    BY <2>2
  <2>. DEFINE parties == PartiesOf(t)
              e == EdgeId(t, maker, taker)
  <2>4. /\ FundedBy(maker, parties.maker) /\ FundedBy(taker, parties.taker)
        /\ ~IsPayment(t) /\ ~IsWorkBond(t) => ma = "Owner" /\ ta = "Owner"
        /\ PartyAuthorized(parties.maker, ma, maker)
        /\ Verifies(parties.maker, ma) /\ Verifies(parties.taker, ta)
        /\ coins' = Drop(coins, Range(maker \o taker))
        /\ IsPayment(t) \/ IsWorkBond(t) => taker = <<>>
    BY <2>3, Zenon DEF Open, WorkProfileOk
  <2>5. id \in Range(maker \o taker)
    BY <2>4, Zenon DEF Drop, Restrict
  <2>6. maker \in Seq(DOMAIN coins) /\ taker \in Seq(DOMAIN coins)
    BY CoinListsType
  <2>7. (\E i \in DOMAIN maker : maker[i] = id) \/ (\E i \in DOMAIN taker : taker[i] = id)
    <3>1. PICK i \in DOMAIN (maker \o taker) : (maker \o taker)[i] = id
      BY <2>5 DEF Range
    <3>2. i \in 1..Len(maker) \/ i - Len(maker) \in 1..Len(taker)
      BY <2>6, <3>1
    <3>3. CASE i \in 1..Len(maker)
      <4>1. i \in DOMAIN maker /\ maker[i] = id
        BY <2>6, <3>1, <3>3
      <4>. QED BY <4>1
    <3>4. CASE i - Len(maker) \in 1..Len(taker)
      <4>1. i - Len(maker) \in DOMAIN taker /\ taker[i - Len(maker)] = id
        BY <2>6, <3>1, <3>4
      <4>. QED BY <4>1
    <3>. QED BY <3>2, <3>3, <3>4, Zenon
  <2>8. IsPayment(t) \/ IsWorkBond(t)
    <3>1. CASE \E i \in DOMAIN maker : maker[i] = id
      <4>1. coins[id].owner = parties.maker.owner
        BY <2>4, <3>1, Zenon DEF FundedBy
      <4>2. ma # "Owner"
        BY <1>1, <2>4, <4>1, Zenon DEF Verifies, KeyOf
      <4>. QED BY <2>4, <4>2, Zenon
    <3>2. CASE \E i \in DOMAIN taker : taker[i] = id
      <4>1. coins[id].owner = parties.taker.owner
        BY <2>4, <3>2, Zenon DEF FundedBy
      <4>2. ta # "Owner"
        BY <1>1, <2>4, <4>1, Zenon DEF Verifies, KeyOf
      <4>. QED BY <2>4, <4>2, Zenon
    <3>. QED BY <2>7, <3>1, <3>2, Zenon
  <2>9. PICK i \in DOMAIN maker : maker[i] = id
    <3>1. taker = <<>>
      BY <2>4, <2>8, Zenon
    <3>2. \A j : j \notin DOMAIN << >>
      OBVIOUS
    <3>. QED BY <2>7, <3>1, <3>2, Zenon
  <2>10. coins[id].owner = parties.maker.owner
    BY <2>4, <2>9, Zenon DEF FundedBy
  <2>11. ma = "Signer" /\ parties.maker.signer \in signers
    BY <1>1, <2>4, <2>10, Zenon DEF Verifies, KeyOf, Authority
  <2>12. coins[id].delegate = parties.maker.signer
    BY <2>4, <2>9, <2>11, Zenon DEF PartyAuthorized
  <2>13. OpenResult(t, e)
    BY <2>3, OpenEffect, Zenon
  <2>14. e.terms = t /\ e.maker = maker
    BY DEF EdgeId
  <2>15. id \in Range(maker)
    BY <2>9 DEF Range
  <2>. HIDE DEF e
  <2>16. e \in DOMAIN edges' \ DOMAIN edges
    BY <2>13, Zenon DEF OpenResult
  <2>. QED BY <2>8, <2>10, <2>11, <2>12, <2>14, <2>15, <2>16, Zenon
<1>2. [Next]_vars =>
        [\A id \in DOMAIN coins \ DOMAIN coins' :
           coins[id].owner \notin signers =>
             /\ coins[id].delegate \in signers
             /\ \E e \in DOMAIN edges' \ DOMAIN edges :
                  /\ IsPayment(e.terms) \/ IsWorkBond(e.terms)
                  /\ PartiesOf(e.terms).maker.owner = coins[id].owner
                  /\ id \in Range(e.maker)]_vars
  BY <1>1, Zenon
<1>. QED BY <1>2, PTL DEF Spec, SilentOwnerKeepsCoins

---------------------------------------------------------------------------
(* Together *)

\* Stake stays behind the work it backs, for every set of terms, coins and fees.
THEOREM StakeStaysBehindChannels == Spec => []StakeBacksChannels
BY ChannelsAreBonded, BondsAreExclusive, RecordsAreOwned, PTL DEF StakeBacksChannels

\* No contest reaches an amount that an exit cannot pay or a u64 cannot hold.
THEOREM ContestsStaySound == Spec => []ContestsAreSound
BY TypeCorrect, ContestsArePayable, PenaltiesAreProved, PTL DEF ContestsAreSound

\* Leases and contests move one way only.
THEOREM RecordsAdvance == Spec => RecordsOnlyAdvance
BY StaleLeasesStayStale, ContestsOnlyAdvance, PTL DEF RecordsOnlyAdvance

\* Every settlement is fair to a party that was silent and honours its contest.
THEOREM SettlementsStayFair == Spec => SettlementsAreFair
BY SettlementsHonourContests, SilentPartiesAreHeard, SilentClientsAreNotOvercharged, PTL
DEF SettlementsAreFair
=============================================================================
