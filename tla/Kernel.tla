------------------------------- MODULE Kernel -------------------------------
(***************************************************************************)
(* The settlement kernel's state machine (crates/kernel).  Three kinds of  *)
(* live object: coins, edges, and the two registry records of the work     *)
(* profile, the lease a payment channel holds over a bond and the pending  *)
(* contest over a payment close.  Every action is one accepted             *)
(* transaction, or the next block; a rejected transaction changes nothing  *)
(* and is no step.                                                         *)
(*                                                                         *)
(* A signature is modelled by who is able to make it: a witness verifies   *)
(* iff the key its authority names is in signers, the keys whose holders   *)
(* sign whatever is put before them.  A holder may stop signing for good   *)
(* (Retire), with the consents it gave before used or lapsed: an open and  *)
(* a mutual close bind the edge or coins they consume, a start and a       *)
(* freeze expire.  From then on everybody else may collude against it, and *)
(* what the kernel still guarantees it is what the properties state.  A    *)
(* certificate never expires, so those are state.                          *)
(***************************************************************************)
EXTENDS KernelObjects, FiniteSets

CONSTANTS
  Keys,
  MayRetire,                  \* keys whose holders may stop signing
  Genesis,                    \* sequence of genesis coins
  FeeSchedules,               \* schedules a block may carry
  BasicTerms, BondTerms,      \* terms parties may propose
  PaymentPolicies,            \* the free fields of proposed payment terms
  Amounts,                    \* amounts certificates and freezes name
  OutputLists,                \* payouts proposed to reshapes and mutual closes
  Windows,                    \* [from, through] heights starts and freezes are signed for
  MIN_OMIT_RESPONSE_BLOCKS, MAX_OMIT_RESPONSE_BLOCKS,
  MAX_START_VALIDITY_BLOCKS, MAX_FREEZE_AUTH_BLOCKS,
  MaxInputs,                  \* model bound: coins one party spends at once
  MaxGeneration,              \* model bound: transactions in a coin's history
  MaxHeight                   \* model bound: last block

VARIABLES
  signers,                    \* keys whose holders sign anything
  certificates,               \* earned certificates clients have signed
  height, fees,               \* the block being applied
  coins, edges,               \* CoinId -> Coin, EdgeId -> Edge
  leases,                     \* bond EdgeId -> payment EdgeId
  pending                     \* payment EdgeId -> PendingPaymentClose

world == <<signers, certificates>>

vars == <<world, height, fees, coins, edges, leases, pending>>

Coin == [owner : Keys, delegate : Keys \cup {NoKey}, value : 0..U64Max]

Parties == {"Maker", "Taker"}

PartyKeys == [owner : Keys, signer : Keys, payout_delegate : Keys \cup {NoKey}]

PartyPair == [maker : PartyKeys, taker : PartyKeys]

\* What the codec guarantees of anything the kernel is handed
ASSUME InputsAssumption ==
  /\ MaxHeight \in Nat /\ MaxInputs \in Nat
  /\ Genesis \in Seq(Coin) /\ OutputLists \subseteq Seq(Coin)
  /\ FeeSchedules \subseteq [base : Nat, slot : Nat, proof : Nat, lifetime : Nat]
  /\ BasicTerms \subseteq
       [profile : {"Basic"}, parties : PartyPair, timeout : Nat, outputs : Seq(Coin)]
  /\ BondTerms \subseteq
       [profile : {"WorkStakeBond"}, parties : PartyPair, timeout : Nat,
        max_job_price : Nat, outputs : Seq(Coin)]
  /\ PaymentPolicies \subseteq
       [omit_response_blocks : Nat, start_validity_blocks : Nat, omission_bond : 0..U64Max]
  /\ Amounts \subseteq 0..U64Max

PartyOf(parties, role) == IF role = "Maker" THEN parties.maker ELSE parties.taker

Verifies(party, authority) == KeyOf(party, authority) \in signers

SignedByEither(party) == \E a \in Authority : Verifies(party, a)

LivePayments == {e \in DOMAIN edges : IsPayment(edges[e].terms)}

LiveBonds == {e \in DOMAIN edges : IsWorkBond(edges[e].terms)}

Init ==
  /\ signers = Keys
  /\ certificates = {}
  /\ height = 0
  /\ fees \in FeeSchedules
  /\ coins = [id \in {GenesisId(n) : n \in DOMAIN Genesis} |-> Genesis[id[3]]]
  /\ edges = <<>>
  /\ leases = <<>>
  /\ pending = <<>>

\* The host applies blocks in height order, each with its own schedule
NextBlock ==
  /\ height < MaxHeight
  /\ height' = height + 1
  /\ fees' \in FeeSchedules
  /\ UNCHANGED <<world, coins, edges, leases, pending>>

Retire(key) ==
  /\ key \in signers
  /\ signers' = signers \ {key}
  /\ UNCHANGED <<certificates, height, fees, coins, edges, leases, pending>>

\* A client states what the provider has earned on one edge; any amount, in
\* any order, since nothing on chain restrains what it signs
SignCertificate(e, earned) ==
  /\ e \in LivePayments
  /\ SignedByEither(edges[e].parties.maker)
  /\ certificates' = certificates \cup {[payment_edge |-> e, earned |-> earned]}
  /\ UNCHANGED <<signers, height, fees, coins, edges, leases, pending>>

---------------------------------------------------------------------------
(* Open *)

\* duplicate and open_coins: distinct inputs, all of them live
Spendable(ids) == IsInjective(ids) /\ Range(ids) \subseteq DOMAIN coins

FundedBy(ids, party) == \A i \in DOMAIN ids : coins[ids[i]].owner = party.owner

\* open_debits and check_timeout_payout
OpenAffordable(t, ids) ==
  LET n == Len(ids)
      total == SumOf([i \in DOMAIN ids |-> coins[ids[i]]])
  IN /\ TimeoutOf(t) > height
     /\ Charge(fees, OpenCost(t, n)) <= U64Max
     /\ LifetimeFee(t, fees, height) <= U64Max
     /\ Charge(fees, OpenReserveCost(t)) <= U64Max
     /\ total \in 0..U64Max
     /\ OpenDebits(t, fees, height, n) <= total
     /\ ~IsPayment(t) => TimeoutPayoutOk(t, EdgeOpened(t, fees, height, n, total))

\* check_party_authority
PartyAuthorized(party, authority, ids) ==
  authority = "Signer" =>
    /\ \A i \in DOMAIN ids : coins[ids[i]].delegate = party.signer
    /\ party.payout_delegate \in {NoKey, party.signer}

\* check_work_bond_policy
BondPolicyOk(bond) ==
  bond.max_job_price > 0 /\ PaidSolelyTo(bond.outputs, bond.parties.maker)

\* check_work_profile_open, with check_work_payment_terms and check_payment_capacity
WorkProfileOk(t, edge, maker, taker) ==
  /\ IsWorkBond(t) =>
       BondPolicyOk(t) /\ maker # <<>> /\ edge.value > 0 /\ taker = <<>>
  /\ IsPayment(t) =>
       /\ BondPolicyOk(t.bond_terms)
       /\ t.omit_response_blocks \in MIN_OMIT_RESPONSE_BLOCKS..MAX_OMIT_RESPONSE_BLOCKS
       /\ t.start_validity_blocks \in 1..MAX_START_VALIDITY_BLOCKS
       /\ taker = <<>> /\ maker # <<>>
       /\ RoutesDefined(edge)
       /\ PaymentCapacity(edge, t.omission_bond) > 0

\* Mutant: a bond is not exclusive
BondShared(t) ==
  IsPayment(t) => t.bond_edge \in DOMAIN edges /\ edges[t.bond_edge].terms = t.bond_terms

\* Mutant: a stale lease may be replaced
BondReleasable(t) == BondShared(t) /\ (IsPayment(t) => (t.bond_edge \in DOMAIN leases => leases[t.bond_edge] \notin DOMAIN edges))

\* open_bond_lease: the bond is live, is the one the terms embed, is unleased
BondFree(t) ==
  IsPayment(t) =>
    /\ t.bond_edge \in DOMAIN edges
    /\ edges[t.bond_edge].terms = t.bond_terms
    /\ t.bond_edge \notin DOMAIN leases

Open(t, maker, taker, makerAuth, takerAuth) ==
  LET e == EdgeId(t, maker, taker)
      ids == maker \o taker
      total == SumOf([i \in DOMAIN ids |-> coins[ids[i]]])
      edge == EdgeOpened(t, fees, height, Len(ids), total)
      parties == PartiesOf(t)
  IN /\ e \notin DOMAIN edges
     /\ Spendable(ids)
     /\ FundedBy(maker, parties.maker) /\ FundedBy(taker, parties.taker)
     /\ OpenAffordable(t, ids)
     /\ ~IsPayment(t) /\ ~IsWorkBond(t) => makerAuth = "Owner" /\ takerAuth = "Owner"
     /\ PartyAuthorized(parties.maker, makerAuth, maker)
     /\ PartyAuthorized(parties.taker, takerAuth, taker)
     /\ WorkProfileOk(t, edge, maker, taker)
     /\ BondFree(t)
     /\ Verifies(parties.maker, makerAuth) /\ Verifies(parties.taker, takerAuth)
     /\ coins' = Drop(coins, Range(ids))
     /\ edges' = Put(edges, e, edge)
     /\ leases' = IF IsPayment(t) THEN Put(leases, t.bond_edge, e) ELSE leases
     /\ UNCHANGED <<world, height, fees, pending>>

---------------------------------------------------------------------------
(* Close *)

\* apply_close, common to the four kinds: the edge is consumed and its
\* payouts issued; the proof's own checks and registry writes are the caller's
CloseEdge(e, kind, outputs) ==
  LET edge == edges[e]
      cost == CloseCost(edge.terms, kind, Len(outputs))
      ids == [i \in DOMAIN outputs |-> PayoutId(e, i, outputs[i].owner)]
  IN /\ e \in DOMAIN edges
     /\ Range(ids) \cap DOMAIN coins = {}
     /\ kind \in edge.allowed
     /\ CloseValueDefined(edge, cost)
     /\ SumOf(outputs) = CloseValue(edge, cost)
     /\ edges' = Drop(edges, {e})
     /\ coins' = [id \in DOMAIN coins \cup Range(ids) |->
                    IF id \in DOMAIN coins THEN coins[id]
                    ELSE outputs[CHOOSE i \in DOMAIN ids : ids[i] = id]]
     /\ UNCHANGED <<world, height, fees>>

CloseMutual(e, outputs, makerAuth, takerAuth) ==
  /\ CloseEdge(e, "Mutual", outputs)
  /\ height < edges[e].timeout
  /\ \A i \in DOMAIN outputs :
       \/ IsDestination(edges[e].parties.maker, outputs[i], makerAuth = "Owner")
       \/ IsDestination(edges[e].parties.taker, outputs[i], takerAuth = "Owner")
  /\ Verifies(edges[e].parties.maker, makerAuth)
  /\ Verifies(edges[e].parties.taker, takerAuth)
  /\ UNCHANGED <<leases, pending>>

\* Mutant: the immediate exit ignores the lease
LeaseIgnored(e) == FALSE

LiveLease(e) == e \in DOMAIN leases /\ leases[e] \in DOMAIN edges

Undelegated(outputs) == [i \in DOMAIN outputs |-> [outputs[i] EXCEPT !.delegate = NoKey]]

\* check_timeout; byOwner is the optional bond-owner witness
CloseTimeout(e, byOwner) ==
  LET edge == edges[e]
      t == edge.terms
  IN /\ e \in DOMAIN edges /\ ~IsPayment(t)
     /\ CloseEdge(e, "Timeout", IF byOwner THEN Undelegated(t.outputs) ELSE t.outputs)
     /\ height < edge.timeout => IsWorkBond(t) /\ ~LiveLease(e)
     /\ byOwner => IsWorkBond(t) /\ Verifies(edge.parties.maker, "Owner")
     /\ leases' = Drop(leases, {e})
     /\ UNCHANGED pending

\* The deletion both payment exits stage; nothing to delete when uncontested
ContestDeleted(e) == pending' = Drop(pending, {e})

CloseFreeze(e, earned, window, makerAuth, takerAuth) ==
  LET edge == edges[e]
      contested == e \in DOMAIN pending
      provider == IF contested THEN earned + FreezePenalty(pending[e], earned) ELSE earned
      ownerSigned ==
        [maker |-> makerAuth = "Owner" \/ (contested /\ pending[e].owner_signed.maker),
         taker |-> takerAuth = "Owner" \/ (contested /\ pending[e].owner_signed.taker)]
  IN /\ e \in LivePayments
     /\ InValidityWindow(height, window, MAX_FREEZE_AUTH_BLOCKS)
     /\ contested => earned >= pending[e].final_cumulative
     /\ provider <= FreezeTotal(edge)
     /\ CloseEdge(e, "Freeze",
                  SplitPayouts(edge.parties, FreezeTotal(edge), provider, ownerSigned))
     /\ Verifies(edge.parties.maker, makerAuth) /\ Verifies(edge.parties.taker, takerAuth)
     /\ ContestDeleted(e)
     /\ UNCHANGED leases

CloseAdjudicated(e, commitment) ==
  LET edge == edges[e]
      record == pending[e]
      provider == record.final_cumulative + Penalty(record)
  IN /\ e \in LivePayments /\ e \in DOMAIN pending
     /\ ContestOver(record, height)
     /\ provider <= AdjudicatedTotal(edge)
     /\ CloseEdge(e, "Adjudicated",
                  SplitPayouts(edge.parties, AdjudicatedTotal(edge), provider,
                               record.owner_signed))
     /\ commitment = ContestCommitment(e, record)
     /\ ContestDeleted(e)
     /\ UNCHANGED leases

---------------------------------------------------------------------------
(* Moves.  A certificate is the client's statement of all the provider has *)
(* earned on one edge; claiming zero is carrying none.                     *)

NoCertificate == [payment_edge |-> NoKey, earned |-> 0]

CertificateOk(e, certificate, omissionBond) ==
  /\ certificate.payment_edge = e
  /\ RoutesDefined(edges[e])
  /\ certificate.earned <= PaymentCapacity(edges[e], omissionBond)
  /\ certificate \in certificates

StartPaymentClose(e, role, certificate, window, authority) ==
  LET t == edges[e].terms
  IN /\ e \in LivePayments
     /\ InValidityWindow(height, window, t.start_validity_blocks)
     /\ e \notin DOMAIN pending
     /\ DeadlineFits(t, height)
     /\ certificate # NoCertificate =>
          certificate.earned > 0 /\ CertificateOk(e, certificate, t.omission_bond)
     /\ Verifies(PartyOf(edges[e].parties, role), authority)
     /\ pending' = Put(pending, e,
                       PendingOpened(role, certificate.earned, height, t, authority = "Owner"))
     /\ UNCHANGED <<world, height, fees, coins, edges, leases>>

RespondPaymentClose(e, startId, role, certificate, authority) ==
  LET record == pending[e]
  IN /\ e \in LivePayments /\ e \in DOMAIN pending
     /\ record.start_id = startId
     /\ role = "Taker"
     /\ ~record.responded
     /\ height < record.response_deadline
     /\ certificate.earned > record.final_cumulative
     /\ CertificateOk(e, certificate, record.penalty_amount)
     /\ Verifies(PartyOf(edges[e].parties, role), authority)
     /\ pending' = [pending EXCEPT
                      ![e] = RespondedAt(record, certificate.earned, authority = "Owner")]
     /\ UNCHANGED <<world, height, fees, coins, edges, leases>>

---------------------------------------------------------------------------
(* Owner *)

Reshape(inputs, outputs) ==
  LET owner == coins[inputs[1]].owner
      ids == [i \in DOMAIN outputs |-> ReshapeId(inputs, i, outputs[i].owner)]
      left == Drop(coins, Range(inputs))
  IN /\ inputs # <<>> /\ Spendable(inputs)
     /\ \A i \in DOMAIN inputs : coins[inputs[i]].owner = owner
     /\ \A i \in DOMAIN outputs :
          /\ outputs[i].value > 0
          /\ outputs[i].delegate # NoKey => outputs[i].owner = owner
     /\ SumOf(outputs) \in 0..U64Max
     /\ SumOf(outputs) = SumOf([i \in DOMAIN inputs |-> coins[inputs[i]]])
     /\ Range(ids) \cap DOMAIN coins = {}
     /\ owner \in signers
     /\ coins' = [id \in DOMAIN left \cup Range(ids) |->
                    IF id \in DOMAIN left THEN left[id]
                    ELSE outputs[CHOOSE i \in DOMAIN ids : ids[i] = id]]
     /\ UNCHANGED <<world, height, fees, edges, leases, pending>>

---------------------------------------------------------------------------

\* An owner's coins as funding or reshape inputs, within the model's bounds
CoinLists(owner) ==
  LET young == {id \in DOMAIN coins : coins[id].owner = owner /\ Generation(id) < MaxGeneration}
  IN UNION {[1..n -> young] : n \in 0..MaxInputs}

ProposedTerms ==
  BasicTerms \cup BondTerms \cup
    {WorkPayment(b, t, p) : b \in LiveBonds, t \in BondTerms, p \in PaymentPolicies}

Next ==
  \/ NextBlock
  \/ \E key \in MayRetire : Retire(key)
  \/ \E e \in LivePayments, earned \in Amounts : SignCertificate(e, earned)
  \/ \E t \in ProposedTerms, ma, ta \in Authority :
       \E maker \in CoinLists(PartiesOf(t).maker.owner),
          taker \in CoinLists(PartiesOf(t).taker.owner) :
         Open(t, maker, taker, ma, ta)
  \/ \E e \in DOMAIN edges, outputs \in OutputLists, ma, ta \in Authority :
       CloseMutual(e, outputs, ma, ta)
  \/ \E e \in DOMAIN edges, byOwner \in BOOLEAN : CloseTimeout(e, byOwner)
  \/ \E e \in LivePayments, earned \in Amounts \cup {0}, w \in Windows,
        ma, ta \in Authority : CloseFreeze(e, earned, w, ma, ta)
  \/ \E e, x \in DOMAIN pending : CloseAdjudicated(e, ContestCommitment(x, pending[x]))
  \/ \E e \in LivePayments, role \in Parties, c \in certificates \cup {NoCertificate},
        w \in Windows, a \in Authority : StartPaymentClose(e, role, c, w, a)
  \/ \E e, x \in DOMAIN pending, role \in Parties, c \in certificates, a \in Authority :
       RespondPaymentClose(e, pending[x].start_id, role, c, a)
  \/ \E owner \in Keys, outputs \in OutputLists :
       \E inputs \in CoinLists(owner) : Reshape(inputs, outputs)

Spec == Init /\ [][Next]_vars

---------------------------------------------------------------------------
(* Properties *)

\* Terms as proposed; a payment's are those of the bond edge it names
WellFormed(t) ==
  \/ t \in BasicTerms \cup BondTerms
  \/ /\ IsPayment(t)
     /\ t.bond_terms \in BondTerms /\ t.bond_edge.terms = t.bond_terms
     /\ [omit_response_blocks |-> t.omit_response_blocks,
         start_validity_blocks |-> t.start_validity_blocks,
         omission_bond |-> t.omission_bond] \in PaymentPolicies

CoinsOK == \A id \in DOMAIN coins : coins[id] \in Coin

EdgesOK ==
  \A e \in DOMAIN edges :
    /\ edges[e].terms = e.terms /\ WellFormed(e.terms)
    /\ edges[e].value \in 0..U64Max /\ edges[e].reserve \in 0..U64Max
    /\ edges[e].close_fees \in FeeSchedules
    /\ edges[e].timeout = TimeoutOf(e.terms)
    /\ edges[e].parties = PartiesOf(e.terms)
    /\ edges[e].allowed = AllowedCloses(e.terms)

Contest ==
  [opener_role : Parties,
   start_id : [opener : Parties, claimed : 0..U64Max, at : Nat],
   response_deadline : 0..U64Max,
   start_cumulative : 0..U64Max, final_cumulative : 0..U64Max,
   responded : BOOLEAN, penalty_due : BOOLEAN, penalty_amount : 0..U64Max,
   owner_signed : [maker : BOOLEAN, taker : BOOLEAN]]

\* Coins, edges and contests have the shapes the kernel stores, an edge's
\* fields are those its terms commit to, and every stored amount fits the u64
\* the code keeps it in.
TypeOK ==
  /\ signers \subseteq Keys
  /\ \A c \in certificates : c.earned \in Amounts
  /\ height \in 0..MaxHeight /\ fees \in FeeSchedules
  /\ CoinsOK
  /\ EdgesOK
  /\ \A e \in DOMAIN pending : pending[e] \in Contest

\* A live payment channel has stake behind it: before its admission horizon
\* the bond it names is live and leased to it and to nobody else; the bond can
\* be gone only once the horizon has passed (open_bond_lease against
\* check_timeout's immediate exit).
LiveChannelIsBonded ==
  \A e \in LivePayments :
    LET b == e.terms.bond_edge
    IN \/ b \in DOMAIN edges /\ edges[b].terms = e.terms.bond_terms
            /\ b \in DOMAIN leases /\ leases[b] = e
       \/ b \notin DOMAIN edges /\ height >= edges[e].timeout

\* A bond backs at most one live channel, before and after its horizon
\* (WorkBondAlreadyLeased).
BondBacksOneChannel ==
  \A e, f \in LivePayments : e.terms.bond_edge = f.terms.bond_edge => e = f

\* No registry record outlives its edge: a lease sits on a live bond and names
\* a channel of that bond, a contest sits on a live payment channel and copies
\* its omission bond (the deletions staged by apply_close).
RecordsBelongToLiveEdges ==
  /\ \A b \in DOMAIN leases :
       b \in LiveBonds /\ IsPayment(leases[b].terms) /\ leases[b].terms.bond_edge = b
  /\ \A e \in DOMAIN pending :
       e \in LivePayments /\ pending[e].penalty_amount = e.terms.omission_bond

\* A lease whose channel is gone never becomes live again: an absent payment
\* edge under a lease always means closed, never not yet opened, which is what
\* check_timeout relies on to open the immediate exit.
StaleLeaseStaysStale ==
  [][\A b \in DOMAIN leases :
       ~LiveLease(b) /\ b \in DOMAIN leases' =>
         leases'[b] = leases[b] /\ leases'[b] \notin DOMAIN edges']_vars

\* Whatever a contest has reached can be paid: both exits fund the settled
\* amount plus the penalty that is or would be due, so a contest can never
\* strand its channel (check_capacity against check_split's subtraction).
ContestPayable ==
  \A e \in DOMAIN pending :
    LET r == pending[e]
    IN /\ RoutesDefined(edges[e])
       /\ r.final_cumulative + r.penalty_amount <= AdjudicatedTotal(edges[e])
       /\ r.final_cumulative + r.penalty_amount <= FreezeTotal(edges[e])

\* The omission bond is forfeit exactly when the client's own certificate
\* exceeds the client's own start.  With it, the two disjuncts kept in
\* responded_at and freeze_penalty "cannot fire" on their own.
PenaltyIsProvedUnderstatement ==
  \A e \in DOMAIN pending :
    LET r == pending[e]
    IN /\ r.penalty_due <=> r.responded /\ r.opener_role = "Maker"
       /\ r.responded <=> r.final_cumulative > r.start_cumulative
       /\ r.final_cumulative >= r.start_cumulative

\* Settlement only moves up, once: while a contest lives its terms are fixed,
\* its amount rises at most once and owner actions stick; no start replaces it.
ContestOnlyAdvances ==
  [][\A e \in DOMAIN pending \cap DOMAIN pending' :
       LET r == pending[e] s == pending'[e]
       IN s # r =>
            /\ ~r.responded /\ s.responded /\ height < r.response_deadline
            /\ s.final_cumulative > r.final_cumulative
            /\ s.start_id = r.start_id /\ s.response_deadline = r.response_deadline
            /\ s.start_cumulative = r.start_cumulative /\ s.opener_role = r.opener_role
            /\ r.owner_signed.maker = s.owner_signed.maker
            /\ r.owner_signed.taker => s.owner_signed.taker]_vars

ProviderPaid(e) == coins'[PayoutId(e, 1, edges[e].parties.taker.owner)]

ClientPaid(e) == coins'[PayoutId(e, 2, edges[e].parties.maker.owner)]

\* However a contested channel ends, the provider receives at least what the
\* contest settled plus any penalty proved, the two parties together receive
\* all the edge distributes, and a party whose owner acted in the contest is
\* paid undelegated (check_adjudicated and check_freeze).
SettlementHonoursContest ==
  [][\A e \in DOMAIN pending :
       e \notin DOMAIN edges' =>
         LET r == pending[e]
         IN /\ ProviderPaid(e).value >= r.final_cumulative + Penalty(r)
            /\ ProviderPaid(e).value + ClientPaid(e).value
                 \in {FreezeTotal(edges[e]), AdjudicatedTotal(edges[e])}
            /\ r.owner_signed.maker => ClientPaid(e).delegate = NoKey
            /\ r.owner_signed.taker => ProviderPaid(e).delegate = NoKey]_vars

Silent(party) == ~SignedByEither(party)

\* A party that signs nothing loses its channel only through a contest that is
\* over: without both consents no exit is open before the provider has spoken
\* or its window is spent (AllowedCloses, check_adjudicated).
SilentPartyIsHeard ==
  [][\A e \in LivePayments :
       e \notin DOMAIN edges' =>
         \/ ~Silent(edges[e].parties.maker) /\ ~Silent(edges[e].parties.taker)
         \/ e \in DOMAIN pending
              /\ (pending[e].responded \/ height >= pending[e].response_deadline)]_vars

\* A client that signs nothing any more is charged no more than the largest
\* certificate it did sign, plus its omission bond, and the bond only if it
\* opened the contest itself below such a certificate.
SilentClientNeverOvercharged ==
  [][\A e \in LivePayments :
       e \notin DOMAIN edges' /\ Silent(edges[e].parties.maker) =>
         LET paid == ProviderPaid(e).value
             owed == {c \in certificates : c.payment_edge = e}
             understated == \E c \in owed :
               /\ pending[e].opener_role = "Maker"
               /\ c.earned > pending[e].start_cumulative
         IN \/ paid = 0
            \/ \E c \in owed : paid <= c.earned
            \/ understated /\ \E c \in owed : paid <= c.earned + e.terms.omission_bond]_vars

\* A committed timeout payout is always payable: whatever fees later blocks
\* carry, the payouts an open committed are exactly what the timeout close
\* distributes under the schedule the edge stored (check_timeout_payout).
TimeoutAlwaysPayable ==
  \A e \in DOMAIN edges \ LivePayments :
    LET cost == CloseCost(e.terms, "Timeout", Len(e.terms.outputs))
    IN CloseValueDefined(edges[e], cost) /\ SumOf(e.terms.outputs) = CloseValue(edges[e], cost)

TotalValue ==
  SumOf(coins) + SumFunction([e \in DOMAIN edges |-> edges[e].value + edges[e].reserve])

\* No transaction creates value: what coins and edges hold together never grows,
\* and only an open or a close, which charge fees, may shrink it.
ValueNeverGrows ==
  [][/\ TotalValue' <= TotalValue
     /\ TotalValue' < TotalValue => DOMAIN edges' # DOMAIN edges]_vars

\* A coin whose owner signs nothing moves only if it is delegated, and then
\* only into a work edge as its owner's stake or capacity: a delegate's reach
\* ends at the opens it may fund (check_party_authority).
SilentOwnerKeepsCoins ==
  [][\A id \in DOMAIN coins \ DOMAIN coins' :
       coins[id].owner \notin signers =>
         /\ coins[id].delegate \in signers
         /\ \E e \in DOMAIN edges' \ DOMAIN edges :
              /\ IsPayment(e.terms) \/ IsWorkBond(e.terms)
              /\ PartiesOf(e.terms).maker.owner = coins[id].owner
              /\ id \in Range(e.maker)]_vars

---------------------------------------------------------------------------
\* Stake stays behind the work it backs: a live channel has its own bond until its
\* horizon, no bond is counted twice, and no lease or contest is left on an edge
\* that is gone for a later open or close to find.
StakeBacksChannels ==
  LiveChannelIsBonded /\ BondBacksOneChannel /\ RecordsBelongToLiveEdges

\* Whatever has been reached by starts and responses, in any order, both exits of a
\* contested channel can pay it, the bond is forfeit exactly on proof, and no
\* amount or deadline has left the u64 it is stored in.
ContestsAreSound ==
  TypeOK /\ ContestPayable /\ PenaltyIsProvedUnderstatement

\* The two registry records move one way: a lease of a closed channel is never
\* revived, and a contest is answered at most once, upwards, inside its window.
RecordsOnlyAdvance ==
  StaleLeaseStaysStale /\ ContestOnlyAdvances

\* No close takes from a party what it neither signed for nor lost on proof: the
\* contest's settlement is paid, a silent party is heard first, and a silent client
\* pays at most what it certified and, if it understated that, its bond.
SettlementsAreFair ==
  SettlementHonoursContest /\ SilentPartyIsHeard /\ SilentClientNeverOvercharged
=============================================================================
