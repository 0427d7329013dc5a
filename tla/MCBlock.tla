------------------------------ MODULE MCBlock -------------------------------
(*************************************************************************)
(* Blocks at a validator.  part says which of the two a behaviour is about; *)
(* the other variables stay as they began.                               *)
(*   pool  submissions beside an open contest (Mempool)                  *)
(*   host  blocks of at most two transactions, executed from genesis and *)
(*         indexed behind (BlockHost)                                    *)
(*************************************************************************)
EXTENDS Mempool

VARIABLE part

VARIABLES
  host_height, host_blocks, host_db, host_index

host_vars ==
  <<host_height, host_blocks, host_db, host_index>>

---------------------------------------------------------------------------
(* A small universe of transactions: two parties, a bond and two payments  *)
(* that want it, one contest from start to close, and a basic edge whose   *)
(* funding a reshape also wants.                                           *)

Coin(owner, delegate, value) ==
  [kind |-> "coin", owner |-> owner, delegate |-> delegate, value |-> value]

SmallAllocations ==
  <<Coin("maker", "", 2), Coin("taker", "", 3), Coin("maker", "", 4), Coin("maker", "", 2)>>

Party(owner, signer, payout) == [owner |-> owner, signer |-> signer, payout |-> payout]
Both == <<Party("maker", "agent", "agent"), Party("taker", "taker", "")>>

Blank ==
  [id |-> "", kind |-> "", inputs |-> <<>>, edge |-> "", profile |-> "", parties |-> <<>>,
   timeout |-> 0, terms |-> "", bond |-> "", bond_terms |-> "", proof |-> "",
   outputs |-> <<>>, start |-> NoStart, claim |-> 0, bytes |-> 1]

Opening(id, e, inputs, profile, timeout) ==
  [Blank EXCEPT !.id = id, !.kind = "Open", !.edge = e, !.inputs = inputs,
                !.profile = profile, !.timeout = timeout, !.parties = Both, !.terms = e]

Paying(id, e, inputs, bond, timeout) ==
  [Opening(id, e, inputs, "WorkPayment", timeout) EXCEPT !.bond = bond, !.bond_terms = bond]

Closing(id, e, proof, profile, outputs, start, claim) ==
  [Blank EXCEPT !.id = id, !.kind = "Close", !.edge = e, !.proof = proof, !.profile = profile,
                !.terms = e, !.outputs = outputs, !.start = start, !.claim = claim]

Moving(id, e, kind, start, claim) ==
  [Blank EXCEPT !.id = id, !.kind = kind, !.edge = e, !.start = start, !.claim = claim]

Reshaping(id, inputs, outputs) ==
  [Blank EXCEPT !.id = id, !.kind = "Owner", !.inputs = inputs, !.outputs = outputs,
                !.bytes = 2]

Maker(v) == <<Coin("maker", "agent", v)>>
Shared == <<Coin("maker", "agent", 1), Coin("taker", "", 3)>>

BondOpen == Opening("bond", "b", <<GenesisId(2)>>, "WorkStakeBond", 5)
BondExit == Closing("bondexit", "b", "Timeout", "WorkStakeBond", <<Coin("taker", "", 3)>>, NoStart, 0)
PayOpen == Paying("pay", "p", <<GenesisId(3)>>, "b", 5)
PayOther == Paying("payother", "q", <<GenesisId(1)>>, "b", 5)
Start == Moving("start", "p", "Start", NoStart, 0)
StartAt(h) == <<"start", "start", h>>
Answer(h) == Moving("answer", "p", "Respond", StartAt(h), 1)
Adjudicate(h, claim) == Closing("settle", "p", "Adjudicated", "", Shared, StartAt(h), claim)
Freeze == Closing("freeze", "p", "Freeze", "", Shared, NoStart, 1)
BasicOpen == Opening("basic", "e", <<GenesisId(1)>>, "Basic", 3)
BasicLong == Opening("long", "l", <<GenesisId(4)>>, "Basic", 9)
BasicExit == Closing("basicexit", "e", "Timeout", "Basic", Maker(2), NoStart, 0)
BasicEnd == Closing("basicend", "e", "Mutual", "Basic", Maker(2), NoStart, 0)
Cut == Reshaping("cut", <<GenesisId(1)>>, <<Coin("maker", "", 1), Coin("maker", "agent", 1)>>)
Join == Reshaping("join", <<ReshapeId(<<GenesisId(1)>>, 2), GenesisId(4)>>, <<Coin("maker", "", 3)>>)

---------------------------------------------------------------------------
(* The host: every block of one transaction, and a few of two *)

MCTxs ==
  {BondOpen, BondExit, PayOpen, PayOther, Start, Freeze, BasicOpen, BasicLong, BasicExit,
   BasicEnd, Cut, Join}
    \cup {Answer(h) : h \in 3..4} \cup {Adjudicate(h, c) : h \in 3..4, c \in 0..1}

Mixed ==
  {<<BondOpen, PayOpen>>, <<PayOpen, PayOther>>, <<Freeze, BondExit>>, <<BasicOpen, Cut>>,
   <<BondOpen, PayOpen, Start>>, <<Freeze, BondExit, BondOpen>>, <<Cut, Join>>}

MCBlocks == {<<tx>> : tx \in MCTxs} \cup {<<>>, <<BondOpen, PayOpen>>, <<Freeze, BondExit>>}

MCBatches == MCBlocks \cup Mixed

MCSlots ==
  {CoinSlot(GenesisId(i)) : i \in DOMAIN SmallAllocations}
    \cup UNION {{CoinSlot(OutputIds(tx)[i]) : i \in DOMAIN tx.outputs} : tx \in MCTxs}
    \cup {EdgeSlot(e) : e \in {"b", "p", "q", "e", "l"}}
    \cup {LeaseSlot("b", i) : i \in 0..2} \cup {CloseSlot(e) : e \in {"p", "q"}}

---------------------------------------------------------------------------
(* The pool: two answers to an open contest, a freeze that ends it, and    *)
(* general submissions that wait for or exclude each other.                *)

After(state, h, txs) == ExecuteAll(state, h, txs).db

PoolSlots ==
  {CoinSlot(GenesisId(i)) : i \in DOMAIN SmallAllocations}
    \cup {CoinSlot(OutputIds(tx)[i]) : tx \in {Freeze, Cut}, i \in 1..2}
    \cup {CoinSlot(OutputIds(Join)[1])}
    \cup {EdgeSlot(e) : e \in {"b", "p", "e"}}
    \cup {LeaseSlot("b", i) : i \in 0..2} \cup {CloseSlot("p")}

Opened == After(After([slot \in PoolSlots |-> None], 1, <<BondOpen>>), 2, <<PayOpen>>)

MCGenesis == After(Opened, 3, <<Start>>)

Higher == [Answer(3) EXCEPT !.id = "higher", !.claim = 2]

MCResponses == {Answer(3), Higher}

MCGeneral == {Freeze, Cut, Join, BasicOpen}

MCForeign == {<<>>, <<Higher>>, <<Freeze>>}

---------------------------------------------------------------------------
Host == INSTANCE BlockHost WITH
  OmitResponse <- 2, MaxTxs <- 2, Txs <- MCTxs, Blocks <- MCBlocks,
  Batches <- MCBatches, MaxLag <- 2, Slots <- MCSlots, MaxHeight <- 6,
  height <- host_height, blocks <- host_blocks, db <- host_db, index <- host_index

---------------------------------------------------------------------------
MCInit ==
  /\ part \in {"pool", "host"}
  /\ Init
  /\ Host!Init

PoolStep ==
  part = "pool" /\ Next /\ UNCHANGED <<part, host_vars>>

HostStep ==
  part = "host" /\ Host!Next /\ UNCHANGED <<part, vars>>

MCNext == PoolStep \/ HostStep

MCSpec == MCInit /\ [][MCNext]_<<part, vars, host_vars>>

---------------------------------------------------------------------------

\* Executing a block slot by slot is executing it: the loaded slots suffice, a
\* validated change always replays, registry records are whole and die with their
\* edges, the observer and the change list tell what was committed, a proposal
\* verifies elsewhere, and the owner index follows the database.
HostIsSound ==
  part = "host" =>
    /\ Host!HostIsKernel /\ Host!NoHostFault
    /\ Host!LeasesAreWhole /\ Host!NoOrphanContest
    /\ Host!ObservedThenCommitted /\ Host!ChangesAreTheDifference
    /\ Host!ProposalsVerify
    /\ Host!IndexIsDatabase /\ Host!IndexFollows
=============================================================================
