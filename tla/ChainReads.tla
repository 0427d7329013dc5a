----------------------------- MODULE ChainReads -----------------------------
(***************************************************************************)
(* What a node answers about its state while it executes blocks           *)
(* (crates/chain/src/rpc.rs, server.rs).  The application commits a block, *)
(* then publishes its cursor; certified blocks reach the indexer on their  *)
(* own; a query takes the database's read guard, works out which finalized *)
(* block that state is, and reads pages of objects out of it.              *)
(***************************************************************************)
EXTENDS Integers, Sequences, FiniteSets

CONSTANTS
  States,                \* object tables: functions from Keys to owners or ""
  Genesis,               \* the state of the genesis block
  Keys, Owners,
  KeySets,               \* the sets of keys asked for
  OWNER_PAGE_LIMIT, MAX_CURRENT_KEYS,
  MaxHeight, MaxQueries

\* A block holds finitely many objects
ASSUME ReadsAssumption ==
  /\ IsFiniteSet(Keys) /\ KeySets \subseteq SUBSET Keys /\ MaxHeight \in Nat
  /\ Genesis \in States

VARIABLES
  chain,                 \* state after each finalized block; the root is the state
  indexed,               \* the indexer holds the blocks of this range
  committed, cursor,
  q,                     \* the query being served
  queries

vars == <<chain, indexed, committed, cursor, q, queries>>

node == <<chain, indexed, committed, cursor>>

Idle == [phase |-> "idle", op |-> "none", arg |-> 0, floor |-> 0, height |-> 0, objects |-> <<>>,
         todo |-> {}, answer |-> "pending"]

Latest == 0

Indexed(h) == h \in indexed.from..indexed.to

Root(h) == IF h = 0 THEN Genesis ELSE chain[h]

---------------------------------------------------------------------------
(* The node *)

Finalize(state) ==
  /\ Len(chain) < MaxHeight
  /\ chain' = Append(chain, state)
  /\ UNCHANGED <<indexed, committed, cursor, q, queries>>

\* Marshal reports blocks without awaiting the application
Index ==
  /\ indexed.to < Len(chain)
  /\ indexed' = [indexed EXCEPT !.to = @ + 1]
  /\ UNCHANGED <<chain, committed, cursor, q, queries>>

Prune ==
  /\ indexed.from < cursor
  /\ indexed' = [indexed EXCEPT !.from = @ + 1]
  /\ UNCHANGED <<chain, committed, cursor, q, queries>>

Held == q.phase = "reading"

\* Nothing is committed under a read guard, or before the last cursor is out
Commit ==
  /\ committed < Len(chain) /\ cursor = committed /\ ~Held
  /\ committed' = committed + 1
  /\ UNCHANGED <<chain, indexed, cursor, q, queries>>

Publish ==
  /\ cursor < committed
  /\ cursor' = committed
  /\ UNCHANGED <<chain, indexed, committed, q, queries>>

---------------------------------------------------------------------------
(* Queries *)

Ask(op, arg, keys) ==
  /\ q.phase \in {"idle", "done"} /\ queries < MaxQueries
  /\ q' = [Idle EXCEPT !.phase = "asked", !.op = op, !.arg = arg, !.todo = keys]
  /\ queries' = queries + 1
  /\ UNCHANGED node

\* get_objects and get_objects_at
AskObjects(at, keys) == Ask("objects", at, keys)

\* get_object_proofs
AskProofs(at, keys) == Ask("proofs", at, keys)

\* no older than a block the caller saw finalized
AskCoin(floor, key) == Ask("coin", floor, {key})

AskEdge(floor, key) == Ask("edge", floor, {key})

FloorOps == {"coin", "edge"}

\* owner_objects, behind get_coins_by_owner, get_coins_by_delegate, get_edges_by_owner
AskListing(owner) == Ask("listing", owner, {})

\* get_applied_finalized_block
AskApplied(at) == Ask("applied", at, {})

\* get_finalized_block, from the index or a peer's history
AskBlock(at) == Ask("block", at, {})

End(answer) == q' = [q EXCEPT !.phase = "done", !.answer = answer]

TooMany == q.op \in {"objects", "proofs"} /\ Cardinality(q.todo) > MAX_CURRENT_KEYS

\* These queries find nothing before a block is executed
Unexecuted == q.op \in {"objects", "proofs", "edge", "listing"} /\ cursor = 0

\* Before the guard: too many keys, or nothing executed yet
Refuse ==
  /\ q.phase = "asked"
  /\ \/ TooMany /\ End("invalid")
     \/ /\ ~TooMany /\ Unexecuted
        /\ End(IF q.op = "proofs" /\ q.arg # Latest THEN "unavailable" ELSE "none")
  /\ UNCHANGED <<node, queries>>

\* finalized_floor_height: a query of one object first looks its payload up
Floor ==
  /\ q.phase = "asked" /\ q.op \in FloorOps /\ ~Unexecuted
  /\ IF Indexed(q.arg) THEN q' = [q EXCEPT !.phase = "floored", !.floor = q.arg]
     ELSE End("unavailable")
  /\ UNCHANGED <<node, queries>>

\* Mutant: the state is taken for the published cursor's
CoherentHeightCursor(state) == cursor

NoBlock == -1

\* coherent_reader: the block whose state the guard holds
CoherentHeight(state) ==
  IF state = Root(cursor) THEN cursor
  ELSE IF Indexed(cursor + 1) /\ Root(cursor + 1) = state THEN cursor + 1
  ELSE NoBlock

\* require_finalized_floor, and the exact height some queries want
Acceptable(h) ==
  CASE q.op \in {"objects", "proofs"} -> q.arg \in {Latest, h}
    [] q.op \in FloorOps -> q.floor <= h
    [] OTHER -> TRUE

Certified(h) == q.op \in {"objects", "proofs", "listing"} => Indexed(h)

Holdings(state, owner) == {key \in Keys : state[key] = owner}

Opened(h) ==
  IF h = NoBlock \/ ~Acceptable(h) \/ ~Certified(h) THEN End("unavailable")
  ELSE q' = [q EXCEPT !.phase = "reading", !.height = h,
                      !.todo = IF q.op = "listing" THEN Holdings(Root(committed), q.arg) ELSE @]

\* The guard is taken and the block behind it found
Acquire ==
  /\ \/ q.phase = "asked" /\ q.op \notin FloorOps \cup {"block"} /\ ~TooMany /\ ~Unexecuted
     \/ q.phase = "floored"
  /\ Opened(CoherentHeight(Root(committed)))
  /\ UNCHANGED <<node, queries>>

\* The objects of a page in some order, which no answer depends on
Listed(S) ==
  CHOOSE f \in [1..Cardinality(S) -> S] : \A x \in S : \E i \in 1..Cardinality(S) : f[i] = x

\* One page of at most OWNER_PAGE_LIMIT objects out of the committed state
ReadPage(keys) ==
  /\ q.phase = "reading" /\ q.op # "applied"
  /\ keys \subseteq q.todo
  /\ Cardinality(keys) = IF Cardinality(q.todo) < OWNER_PAGE_LIMIT THEN Cardinality(q.todo)
                         ELSE OWNER_PAGE_LIMIT
  /\ q.todo # {}
  /\ q' = [q EXCEPT !.todo = @ \ keys,
                    !.objects = @ \o Listed({<<k, Root(committed)[k]>> : k \in keys})]
  /\ UNCHANGED <<node, queries>>

Reply ==
  /\ q.phase = "reading" /\ q.todo = {} /\ q.op # "applied"
  /\ End("ok")
  /\ UNCHANGED <<node, queries>>

\* An indexed block above the one found, or whose operations end past the database's, is
\* not applied yet; the latest one has to end where the database does, which it does not
\* when a block that changes nothing is committed and unpublished
AppliedAnswer(h) ==
  IF ~Indexed(h) THEN "none"
  ELSE IF h > q.height \/ h > committed THEN "not_yet"
  ELSE IF q.arg = Latest /\ h # committed THEN "unavailable"
  ELSE "ok"

AppliedReply ==
  /\ q.phase = "reading" /\ q.op = "applied"
  /\ \E h \in {IF q.arg = Latest THEN q.height ELSE q.arg} :
       q' = [q EXCEPT !.phase = "done", !.height = h, !.answer = AppliedAnswer(h)]
  /\ UNCHANGED <<node, queries>>

\* get_finalized_block: only executed heights are fetched from peers
BlockAnswer(fetched) ==
  IF Indexed(q.arg) \/ (q.arg <= cursor /\ fetched) THEN "ok" ELSE "unavailable"

BlockReply ==
  /\ q.phase = "asked" /\ q.op = "block"
  /\ \E fetched \in BOOLEAN :
       q' = [q EXCEPT !.phase = "done", !.height = q.arg, !.answer = BlockAnswer(fetched)]
  /\ UNCHANGED <<node, queries>>

---------------------------------------------------------------------------

Init ==
  /\ \E state \in States : chain = <<state>>
  /\ indexed = [from |-> 1, to |-> 0]
  /\ committed = 0 /\ cursor = 0
  /\ q = Idle /\ queries = 0

Next ==
  \/ \E state \in States : Finalize(state)
  \/ Index \/ Prune \/ Commit \/ Publish
  \/ \E at \in 0..MaxHeight, keys \in KeySets : AskObjects(at, keys) \/ AskProofs(at, keys)
  \/ \E floor \in 1..MaxHeight, key \in Keys : AskCoin(floor, key) \/ AskEdge(floor, key)
  \/ \E owner \in Owners : AskListing(owner)
  \/ \E at \in 0..MaxHeight : AskApplied(at)
  \/ \E at \in 1..MaxHeight : AskBlock(at)
  \/ Refuse \/ Floor \/ Acquire
  \/ \E keys \in SUBSET Keys : ReadPage(keys)
  \/ Reply \/ AppliedReply \/ BlockReply

Spec == Init /\ [][Next]_vars

---------------------------------------------------------------------------
(* Properties *)

TypeOK ==
  /\ committed \in 0..Len(chain) /\ cursor \in {committed - 1, committed} /\ cursor >= 0
  /\ indexed.to \in 0..Len(chain)
  /\ q.phase \in {"idle", "asked", "floored", "reading", "done"}

Answered == q.phase = "done" /\ q.answer = "ok"

\* Every object of an answer was read at the block the answer names, though
\* blocks commit and cursors publish around the query and a listing takes
\* several pages (coherent_reader, owner_objects)
OneState ==
  Answered /\ q.op \in {"objects", "proofs", "coin", "edge", "listing"} =>
    /\ \A i \in DOMAIN q.objects : q.objects[i][2] = Root(q.height)[q.objects[i][1]]
    /\ q.op = "listing" =>
         {q.objects[i][1] : i \in DOMAIN q.objects} = Holdings(Root(q.height), q.arg)

\* A caller that names a finalized payload is never answered from a state
\* older than it (finalized_floor_height, require_finalized_floor)
NotBelowFloor == Answered /\ q.op \in FloorOps => q.arg <= q.height

\* A block is called applied only when the database holds it: the index runs
\* ahead of execution (get_applied_finalized_block)
AppliedIsCommitted == Answered /\ q.op = "applied" => q.height <= committed

---------------------------------------------------------------------------
\* What a read answers is one committed state, at or above the caller's floor, while
\* blocks are committed before they are published and the index runs ahead of both.
ReadsAreCoherent ==
  TypeOK /\ OneState /\ NotBelowFloor /\ AppliedIsCommitted
=============================================================================
