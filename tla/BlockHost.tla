----------------------------- MODULE BlockHost -----------------------------
(***************************************************************************)
(* Finalized blocks over the validator's database, beside the kernel run   *)
(* on the whole state, and the owner index replaying the same blocks       *)
(* (crates/chain/src/owner_index.rs) as they are delivered: once, again,   *)
(* or before the blocks they follow.  A node only moves the index's cursor *)
(* (publish_cursor); devnets and tests have it replay the blocks.          *)
(***************************************************************************)
EXTENDS HostExecution

CONSTANTS
  Txs,                        \* transactions that may be submitted
  Blocks,                     \* the sequences of them a block may carry
  Batches,                    \* and more of them, to be tried in every state
  Slots,                      \* every slot those can name
  MaxHeight,
  MaxLag                      \* finalized blocks the index has not been handed

VARIABLES
  height,                     \* of the last finalized block
  blocks,                     \* by height, from the index's cursor on
  db,                         \* the database after the last of them
  index                       \* the owner index

vars == <<height, blocks, db, index>>

NextHeight == height + 1

---------------------------------------------------------------------------
(* The owner index *)

\* coin_holdings: the owner's coin, and the delegate's access to it
CoinHoldings(id, coin) ==
  {<<coin.owner, "COIN", id, coin.value>>}
    \cup IF coin.delegate \notin {"", coin.owner} THEN {<<coin.delegate, "DELEGATED", id, 0>>}
         ELSE {}

\* edge_keys
EdgeKeys(parties) == UNION {{p.owner, p.signer, p.payout} \ {""} : p \in Range(parties)}

NewIndex == [height |-> 0, payload |-> 0, coins |-> {}, byOwner |-> {}, edges |-> {}, edgesByOwner |-> {},
             error |-> "ok"]

InsertCoin(ix, id, coin) ==
  IF ix.error # "ok" THEN ix
  ELSE IF \E c \in ix.coins : c[1] = id THEN [ix EXCEPT !.error = "OutputCollision"]
  ELSE [ix EXCEPT !.coins = @ \cup {<<id, coin>>}, !.byOwner = @ \cup CoinHoldings(id, coin)]

RemoveCoin(ix, id) ==
  IF ix.error # "ok" THEN ix
  ELSE IF ~\E c \in ix.coins : c[1] = id THEN [ix EXCEPT !.error = "ObjectNotFound"]
  ELSE [ix EXCEPT !.coins = {c \in @ : c[1] # id},
                  !.byOwner = {h \in @ : h[3] # id}]

InsertEdge(ix, e, parties) ==
  IF ix.error # "ok" THEN ix
  ELSE IF \E x \in ix.edges : x[1] = e THEN [ix EXCEPT !.error = "OutputCollision"]
  ELSE [ix EXCEPT !.edges = @ \cup {<<e, parties>>},
                  !.edgesByOwner = @ \cup {<<key, e>> : key \in EdgeKeys(parties)}]

RemoveEdge(ix, e) ==
  IF ix.error # "ok" THEN ix
  ELSE IF ~\E x \in ix.edges : x[1] = e THEN [ix EXCEPT !.error = "ObjectNotFound"]
  ELSE [ix EXCEPT !.edges = {x \in @ : x[1] # e}, !.edgesByOwner = {x \in @ : x[2] # e}]

\* apply_kernel: read off the transaction alone, moves own nothing
ApplyKernel(ix, tx) ==
  LET spent == FoldLeft(RemoveCoin, ix, tx.inputs)
      issue(start) == FoldLeft(LAMBDA a, i : InsertCoin(a, OutputIds(tx)[i], tx.outputs[i]),
                               start, [i \in DOMAIN tx.outputs |-> i])
  IN CASE tx.kind = "Open" ->
            IF \E x \in ix.edges : x[1] = tx.edge THEN [ix EXCEPT !.error = "OutputCollision"]
            ELSE InsertEdge(spent, tx.edge, tx.parties)
       [] tx.kind = "Close" -> issue(RemoveEdge(ix, tx.edge))
       [] tx.kind = "Owner" -> issue(spent)
       [] OTHER -> ix

\* At or below the cursor a delivery is a duplicate
Delivery(ix, block) ==
  CASE block.height = ix.height ->
         IF block.payload = ix.payload THEN "Duplicate" ELSE "ConflictingHeight"
    [] block.height < ix.height -> "Duplicate"
    [] block.height > ix.height + 1 -> "HeightGap"
    [] OTHER -> IF block.parent # ix.payload THEN "ParentMismatch" ELSE "Next"

\* State::apply_finalized: any failure leaves the index as it was
ApplyFinalized(ix, block) ==
  LET seeded == IF ix.height = 0
                THEN FoldLeft(LAMBDA a, i : InsertCoin(a, GenesisId(i), Allocations[i]),
                              ix, [i \in DOMAIN Allocations |-> i])
                ELSE ix
      next == FoldLeft(ApplyKernel, seeded, block.txs)
  IN IF Delivery(ix, block) # "Next" \/ next.error # "ok" THEN ix
     ELSE [next EXCEPT !.height = block.height, !.payload = block.payload]

---------------------------------------------------------------------------
(* Behaviour *)

Init ==
  /\ height = 0 /\ blocks = [h \in {0} |-> <<>>]
  /\ db = [slot \in Slots |-> None]
  /\ index = NewIndex

\* A certified block: one that executes
Finalize(txs) ==
  /\ height < MaxHeight /\ height - index.height < MaxLag
  /\ \E executed \in {ExecuteAll(db, NextHeight, txs)} :
       /\ executed.class = "ok"
       /\ db' = executed.db
  /\ height' = NextHeight
  /\ blocks' = [h \in DOMAIN blocks \cup {NextHeight} |-> IF h = NextHeight THEN txs ELSE blocks[h]]
  /\ UNCHANGED index

\* A certified chain has one block of each height, which its payload names
Certified(h) == [height |-> h, payload |-> h, parent |-> h - 1, txs |-> blocks[h]]

\* The index is handed a finalized block, possibly not for the first time
Deliver(h) ==
  /\ index' = ApplyFinalized(index, Certified(h))
  /\ blocks' = Restrict(blocks, {x \in DOMAIN blocks : x >= index'.height})
  /\ UNCHANGED <<height, db>>

Next ==
  \/ \E txs \in Blocks : Finalize(txs)
  \/ \E h \in DOMAIN blocks \ {0} : Deliver(h)

Spec == Init /\ [][Next]_vars

---------------------------------------------------------------------------
(* Properties *)

CoinIds == {slot[2] : slot \in {s \in Slots : s[1] = "coin"}}
EdgeIds == {slot[2] : slot \in {s \in Slots : s[1] = "edge"}}

Shape(slot, value) ==
  \/ value = None
  \/ value.kind = slot[1]
  \/ slot[1] \in {"lease", "close"} /\ value.kind = "chunk" /\ Canonical(value)

\* Types: a slot holds nothing or an object of its own kind, a chunk in the
\* one encoding its length allows (RegistryChunk::decode), and the index
\* never runs ahead of the finalized blocks or meets an error.
TypeOK ==
  /\ height \in 0..MaxHeight /\ DOMAIN blocks = index.height..height
  /\ DOMAIN db = Slots /\ \A slot \in Slots : Shape(slot, db[slot])
  /\ index.height \in 0..height /\ index.error = "ok"

\* The working set a validator loads is enough: for every transaction and
\* every finalized state, applying it to the loaded slots and replaying the
\* outcome ends in the very state the kernel reaches on the whole database,
\* and fails exactly where the kernel fails, with an early transaction told
\* from a refused one.  load_kernel_slots decides the slots before the kernel
\* runs; an undeclared read would look like an absent object.
HostIsKernel ==
  \A tx \in Txs :
    LET host == ApplyTransaction(db, NextHeight, tx)
        kernel == Apply(db, NextHeight, tx)
    IN IF LifetimeExceeded(NextHeight, tx) THEN host.db = db
       ELSE /\ host.db = kernel.batch
            /\ (host.class = "ok") = (kernel.error = Ok)
            /\ kernel.error # Ok => host.class = Classify(db, kernel.error)

\* No reachable state makes a transaction break the host contract: a
\* validated change always folds and always replays.  KernelHostContract
\* stops the validator.
NoHostFault ==
  \A tx \in Txs : ~IsFatalStorage(ApplyTransaction(db, NextHeight, tx).class)

\* A bond's lease is two chunks written and deleted together: no reachable
\* state holds one of them, a present lease belongs to a live bond, and the
\* generic view reassembles exactly the record the lease reader parses.
LeasesAreWhole ==
  \A e \in EdgeIds :
    LET lease == ParseLease(db, e)
        value == RegistryValue(db, "lease", e)
    IN /\ ~LeaseFault(lease)
       /\ lease.state = "Present" =>
            /\ Held(db, EdgeSlot(e))
            /\ value = LeaseWords(e, lease.payment, value[7])
       /\ lease.state = "Absent" => value = <<>>

\* A contest record exists only for a live payment edge: whatever closes the
\* edge retires the record in the same change.
NoOrphanContest ==
  \A e \in EdgeIds :
    Held(db, CloseSlot(e)) =>
      Held(db, EdgeSlot(e)) /\ ParsePending(db, e).state = "Present"

\* The batch observer of apply_iter hears outcomes before the commit, so they
\* are worth something only after Ok: then, and over the final store, they
\* replay to exactly what was committed; after an error the store is what it
\* was, however many outcomes were heard.
ObservedThenCommitted ==
  \A txs \in Batches :
    LET done == ApplyIter(db, NextHeight, txs)
        replay(b, o) == ReplayRegistry(ReplayEvent(b, done.batch, o).db, done.batch, o).db
    IN /\ done.error # Ok => done.batch = db
       /\ done.error = Ok =>
            /\ Len(done.observed) = Len(txs)
            /\ FoldLeft(replay, db, done.observed) = done.batch

\* The change list shown to an indexed node is the difference the block makes
\* to the database: applied in order it gives the new state, and every slot
\* that differs is named.
ChangesAreTheDifference ==
  \A txs \in Batches :
    LET done == ExecuteAll(db, NextHeight, txs)
        after == FoldLeft(LAMBDA b, c : Write(b, c[1], c[2]), db, done.changes)
    IN done.class = "ok" => after = done.db

\* What a proposer builds another validator accepts: the included transactions
\* execute as a block to the same state within the budgets, and nothing is
\* both included and kept for later.
ProposalsVerify ==
  \A txs \in Batches :
    LET built == ExecuteProposal(db, NextHeight, txs, MaxTxs, MaxTxBytes)
        block == ExecuteAll(db, NextHeight, built.included)
    IN /\ ~built.fatal /\ block.class = "ok" /\ block.db = built.db
       /\ Len(built.included) <= MaxTxs /\ Bytes(built.included) <= MaxTxBytes
       /\ Range(built.included) \cap Range(built.retained) = {}

\* Caught up, the owner index lists exactly the coins and edges of the
\* database, under exactly their owners, delegates and party keys, though it
\* never executes a transaction and blocks reach it repeatedly or too soon.
IndexIsDatabase ==
  index.height = height =>
    LET coins == {id \in CoinIds : Held(db, CoinSlot(id))}
        edges == {e \in EdgeIds : Held(db, EdgeSlot(e))}
    IN /\ index.coins = {<<id, db[CoinSlot(id)]>> : id \in coins}
       /\ index.byOwner = UNION {CoinHoldings(id, db[CoinSlot(id)]) : id \in coins}
       /\ index.edges = {<<e, db[EdgeSlot(e)].parties>> : e \in edges}
       /\ index.edgesByOwner =
            UNION {{<<key, e>> : key \in EdgeKeys(db[EdgeSlot(e)].parties)} : e \in edges}

\* The next block always applies to the index: whatever executes on the
\* database finds in the index every object it consumes and none it makes.
IndexFollows ==
  index.height < height =>
    ApplyFinalized(index, Certified(index.height + 1)).height = index.height + 1

=============================================================================
