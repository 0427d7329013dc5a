------------------------------ MODULE ChainNode ------------------------------
(***************************************************************************)
(* An indexed full node (chain/src/node/mod.rs): the archive of certified  *)
(* blocks delivers them one at a time to execution, which prepares the     *)
(* index's intent, commits the state, moves the owner cursor, publishes    *)
(* the intent and advances readiness (app.rs, execution/pipeline.rs,       *)
(* edge_index/publication.rs), and acknowledges the block.  The node may   *)
(* stop between any two of these; opening it again restores the executed   *)
(* checkpoint and reconciles the index with it before new blocks are let   *)
(* through (node/startup.rs).  Blocks, roots, payloads and proofs are      *)
(* named by their height.                                                  *)
(*                                                                         *)
(* The archive (marshal) and the stateful executor are libraries outside   *)
(* the repository: marshal hands over the block after the last             *)
(* acknowledged one and waits for its acknowledgment; the executor skips   *)
(* the application of a block its database already holds, and may come     *)
(* back from a restart at the last acknowledged block.                     *)
(***************************************************************************)
EXTENDS Integers, Sequences, SequencesExt, FiniteSets, FiniteSetsExt

(***************************************************************************)
(* The edge index's store (chain/src/edge_index/store.rs) and the queries  *)
(* answered from it (edge_index/native.rs), as operators over the value of *)
(* the store.  A finalized block is a sequence of transactions; payloads,  *)
(* digests and proofs are named by the height of their block, a            *)
(* transaction by <<height, index>>, an edge by a number (its position in  *)
(* the order of edge ids).                                                 *)
(***************************************************************************)

CONSTANTS
  Chain,      \* the certified chain: a sequence of blocks, each a sequence of [op, edge]
  Terms       \* edge -> [kind, maker, taker, bond]; bond is 0 but for a work payment

Edges == DOMAIN Terms
NoRef == <<0, 0>>
NoIntent == [height |-> 0, live |-> {}, gone |-> {}]

Empty == [latest |-> 0, intent |-> NoIntent, edges |-> [e \in {} |-> 0], lookup |-> {},
          events |-> {}, objects |-> {}, located |-> {}, conflict |-> FALSE]

(* What executing block h changes among the edge objects: the live value   *)
(* an edge is left with, or its removal.                                   *)
Touched(h, op) == {Chain[h][i].edge : i \in {j \in DOMAIN Chain[h] : Chain[h][j].op = op}}
Changes(h) ==
  [height |-> h, live |-> Touched(h, "open") \ Touched(h, "close"), gone |-> Touched(h, "close")]

(***************************************************************************)
(* publish_intent: one write transaction.                                  *)
(***************************************************************************)
LookupPrefixes(e) ==
  LET t == Terms[e]
  IN {<<"a", "">>, <<"k", t.kind>>, <<"m", t.maker>>, <<"t", t.taker>>,
      <<"p", t.maker>>, <<"p", t.taker>>}

Under(states, e) == {<<s, p, e>> : s \in states, p \in LookupPrefixes(e)}

Set(f, k, v) == [x \in DOMAIN f \cup {k} |-> IF x = k THEN v ELSE f[x]]

OpenConflict(ix, e) ==
  \/ e \in DOMAIN ix.edges
  \/ /\ Terms[e].kind = "work-payment"
     /\ \/ Terms[e].bond \notin DOMAIN ix.edges
        \/ ix.edges[Terms[e].bond].payment # 0

IndexOpen(ix, e, ref) ==
  IF OpenConflict(ix, e) THEN [ix EXCEPT !.conflict = TRUE]
  ELSE LET opened == Set(ix.edges, e, [opened |-> ref, closed |-> NoRef, payment |-> 0])
       IN [ix EXCEPT
             !.edges = IF Terms[e].kind = "work-payment"
                       THEN [opened EXCEPT ![Terms[e].bond].payment = e] ELSE opened,
             !.lookup = @ \cup Under({"all", "open"}, e)]

IndexClose(ix, e, ref) ==
  IF e \notin DOMAIN ix.edges \/ ix.edges[e].closed # NoRef THEN [ix EXCEPT !.conflict = TRUE]
  ELSE [ix EXCEPT !.edges[e].closed = ref,
                  !.lookup = (@ \ Under({"open"}, e)) \cup Under({"closed"}, e)]

IndexTransaction(ix, h, i) ==
  LET tx == Chain[h][i]
      ref == <<h, i>>
      located == [ix EXCEPT !.located = @ \cup {ref}]
      moved == CASE tx.op = "open" -> IndexOpen(located, tx.edge, ref)
                 [] tx.op = "close" -> IndexClose(located, tx.edge, ref)
                 [] OTHER -> located
  IN IF tx.op = "owner" THEN located
     ELSE [moved EXCEPT !.events = @ \cup {[edge |-> tx.edge, at |-> ref, kind |-> tx.op]}]

IndexTransactions(ix, h) ==
  FoldLeftDomain(LAMBDA acc, i : IndexTransaction(acc, h, i), ix, Chain[h])

\* The block's object changes, its proof and "latest" move with its history,
\* and the intent goes, in the same commit.
PublishIntent(ix) ==
  LET h == ix.intent.height
      done == [ix EXCEPT !.intent = NoIntent]
      next == IndexTransactions(ix, h)
  IN CASE h = 0 -> [ix EXCEPT !.conflict = TRUE]
       [] h # 0 /\ ix.latest = h -> done
       [] h # 0 /\ ix.latest + 1 # h /\ ix.latest # h -> [ix EXCEPT !.conflict = TRUE]
       [] h # 0 /\ ix.latest + 1 = h ->
            IF next.conflict THEN [ix EXCEPT !.conflict = TRUE]
            ELSE [next EXCEPT !.latest = h, !.intent = NoIntent,
                              !.objects = (@ \ ix.intent.gone) \cup ix.intent.live]

Prepare(ix, h) == [ix EXCEPT !.intent = Changes(h)]
ClearIntent(ix) == [ix EXCEPT !.intent = NoIntent]

\* proof_for_state_root: the height whose proof vouches for the executed state
\* `root`; 0 for none, -1 for StateCheckpointMismatch
ProofForStateRoot(ix, root) ==
  CASE ix.latest # 0 /\ ix.latest = root -> ix.latest
    [] ~(ix.latest # 0 /\ ix.latest = root) /\ ix.intent.height # 0 /\ ix.intent.height = root -> root
    [] OTHER -> IF ix.latest = 0 THEN 0 ELSE -1

(***************************************************************************)
(* Queries.  A read snapshot is the value of the store when it was taken.  *)
(***************************************************************************)
Prefix(q) ==
  CASE q.party # "" -> <<CASE q.role = "maker" -> "m" [] q.role = "taker" -> "t" [] OTHER -> "p", q.party>>
    [] q.party = "" /\ q.kind # "" -> <<"k", q.kind>>
    [] OTHER -> <<"a", "">>

\* scan_edges from the cursor's edge on, and list_edges' filters over it
Scan(ix, q, after) ==
  LET found == {e \in Edges : <<q.state, Prefix(q), e>> \in ix.lookup /\ e > after}
      kept == {e \in found : /\ ~(q.state = "open" /\ ix.edges[e].closed # NoRef)
                             /\ ~(q.state = "closed" /\ ix.edges[e].closed = NoRef)
                             /\ (q.kind = "" \/ q.kind = Terms[e].kind)}
  IN SetToSortSeq(kept, <)

Page(s, limit) ==
  [items |-> SubSeq(s, 1, Min({limit, Len(s)})), next |-> IF Len(s) > limit THEN s[limit] ELSE 0]

ListEdges(ix, q, after, limit) == Page(Scan(ix, q, after), limit)

\* list_edge_events: an edge's events in chain order, after a position; keys
\* order by height, then by index in the block
Key(ref) == ref[1] * 10 + ref[2]
EventsAfter(ix, e, after) ==
  SetToSortSeq({k \in {Key(v.at) : v \in {w \in ix.events : w.edge = e}} : k > after}, <)
ListEdgeEvents(ix, e, after, limit) ==
  IF e \notin DOMAIN ix.edges THEN [items |-> <<>>, next |-> 0]    \* edge_not_found
  ELSE Page(EventsAfter(ix, e, after), limit)

\* detail: what the index says of an edge, or why it cannot
Detail(ix, e) ==
  CASE e \notin DOMAIN ix.edges -> "edge_not_found"
    [] e \in DOMAIN ix.edges /\ (e \in ix.objects) # (ix.edges[e].closed = NoRef) -> "index_corrupt"
    [] OTHER -> "ok"

\* get_work_channel_detail: the payment, then the bond its terms name
ChannelDetail(ix, e) ==
  IF Detail(ix, e) # "ok" THEN Detail(ix, e)
  ELSE IF Terms[e].kind # "work-payment" THEN "invalid_request"
  ELSE IF Detail(ix, Terms[e].bond) # "ok" THEN Detail(ix, Terms[e].bond)
  ELSE IF ix.edges[Terms[e].bond].payment \notin DOMAIN ix.edges THEN "index_corrupt" ELSE "ok"

(***************************************************************************)
(* The history of the first h blocks, read off the chain directly.         *)
(***************************************************************************)
Refs(h) == UNION {{<<g, i>> : i \in DOMAIN Chain[g]} : g \in 1 .. h}
TxAt(r) == Chain[r[1]][r[2]]
Of(h, e, op) == {r \in Refs(h) : TxAt(r).edge = e /\ TxAt(r).op = op}
OpenedBy(h) == {e \in Edges : Of(h, e, "open") # {}}
ClosedBy(h) == {e \in Edges : Of(h, e, "close") # {}}
InState(h, state) ==
  CASE state = "all" -> OpenedBy(h)
    [] state = "closed" -> ClosedBy(h)
    [] state = "open" -> OpenedBy(h) \ ClosedBy(h)
Wanted(q, e) ==
  /\ q.kind = "" \/ q.kind = Terms[e].kind
  /\ \/ q.party = ""
     \/ q.role \in {"maker", "any"} /\ Terms[e].maker = q.party
     \/ q.role \in {"taker", "any"} /\ Terms[e].taker = q.party
Answer(h, q) == {e \in InState(h, q.state) : Wanted(q, e)}

\* The index is the history of its first `latest` blocks.
Describes(ix) ==
  LET h == ix.latest
  IN /\ ~ix.conflict
     /\ DOMAIN ix.edges = OpenedBy(h)
     /\ \A e \in OpenedBy(h) :
          /\ Of(h, e, "open") = {ix.edges[e].opened}
          /\ Of(h, e, "close") = {ix.edges[e].closed} \ {NoRef}
          /\ {ix.edges[e].payment} \ {0} = {p \in OpenedBy(h) : Terms[p].bond = e}
     /\ ix.lookup = UNION {UNION {Under({s}, e) : e \in InState(h, s)} : s \in {"all", "open", "closed"}}
     /\ ix.objects = OpenedBy(h) \ ClosedBy(h)
     /\ ix.located = Refs(h)
     /\ {v.at : v \in ix.events} = {r \in Refs(h) : TxAt(r).op # "owner"}
     /\ \A v \in ix.events : v.edge = TxAt(v.at).edge /\ v.kind = TxAt(v.at).op
     /\ \A e \in Edges : Detail(ix, e) = IF e \in OpenedBy(h) THEN "ok" ELSE "edge_not_found"
     /\ \A e \in OpenedBy(h) : Terms[e].kind = "work-payment" => ChannelDetail(ix, e) = "ok"

---------------------------------------------------------------------------

CONSTANTS
  CertifiedAt,        \* heights with a certificate of their own; others are vouched for by a descendant
  MaxDescendants,   \* MAX_FINALITY_DESCENDANTS
  Retain,           \* archive_blocks; 0 keeps everything
  Requests,         \* the listings a reader may ask for
  PageLimit,
  Stops             \* bound on crashes, shutdowns and recovery timeouts

VARIABLES
  tip,      \* height of the last certificate the archive holds
  floor,    \* blocks below it are pruned from the archive
  acked,    \* marshal's processed height, durable
  db,       \* height whose execution the database holds, durable
  idx,      \* the index store, durable
  node,     \* start-up: [phase, round, target, through, read, restored, held]
  exec,     \* the block in execution: [stage, block]
  view,     \* what readers see: [cursor, public] (owner cursor, ChainIndexer.retained_from)
  ready,    \* NodeState: [state, observed, executed]
  reader,   \* a paged listing: [status, query, pin, after, got]
  fault,    \* the first error that stopped the node
  stops

vars == <<tip, floor, acked, db, idx, node, exec, view, ready, reader, fault, stops>>

LastHeight == Len(Chain)
Unheld == LastHeight + 1    \* Delivery.through = None
Maximum(a, b) == IF a >= b THEN a ELSE b
Less(a, b) == IF a >= b THEN a - b ELSE 0

Down == [phase |-> "down", round |-> 0, target |-> 0, through |-> 0, read |-> 0, restored |-> 0, held |-> 0]
Idle == [stage |-> "idle", block |-> 0]
Starting == [state |-> "catching", observed |-> 0, executed |-> 0]
NoListing == [status |-> "idle", query |-> CHOOSE q \in Requests : TRUE, pin |-> 0, after |-> 0, got |-> <<>>]

Init ==
  /\ tip = 0 /\ floor = 0 /\ acked = 0 /\ db = 0
  /\ idx = Empty
  /\ node = Down
  /\ exec = Idle
  /\ view = [cursor |-> 0, public |-> 0]
  /\ ready = Starting
  /\ reader = NoListing
  /\ fault = "none"
  /\ stops = 0

InArchive(h) == h = 0 \/ (floor <= h /\ h <= tip)

\* get_finalized_block_at: a certificate at h, or at a descendant near enough
Provable(h) ==
  /\ h >= view.public
  /\ \E c \in CertifiedAt : h <= c /\ c <= tip /\ c - h <= MaxDescendants

\* Readiness::advance
Advance(r, observation, executed) ==
  LET done == Maximum(executed, r.executed)
      seen == Maximum(IF r.state = "ready" THEN r.executed ELSE r.observed, observation)
  IN IF r.state = "halted" THEN [r EXCEPT !.executed = done]
     ELSE IF seen # 0 /\ done >= seen THEN [state |-> "ready", observed |-> 0, executed |-> done]
     ELSE [state |-> "catching", observed |-> seen, executed |-> done]

\* ChainIndexer::retain_from's two floors after block h: what is served, and
\* what recovery may still need
PublicFloor(h) == Less(h, Retain - 1)
\* Mutant: recovery keeps no more than what is served
RecoveryFloorAsServed(h) == Less(h, Retain - 1)
RecoveryFloor(h) == Less(h, Maximum(Retain, 2) - 1)
RetainFrom(h) ==
  /\ view' = IF Retain = 0 THEN view ELSE [view EXCEPT !.public = Maximum(@, PublicFloor(h))]
  /\ floor' = IF Retain = 0 THEN floor ELSE Maximum(floor, RecoveryFloor(h))

\* an error that ends the process: `expect` in execution, or Err out of Core::open
Fail(reason) ==
  /\ fault' = reason
  /\ node' = Down
  /\ exec' = Idle
  /\ view' = [cursor |-> 0, public |-> 0]
  /\ ready' = Starting
  /\ reader' = NoListing

(***************************************************************************)
(* Execution of one delivered block.                                       *)
(***************************************************************************)
Up == node.phase # "down"

\* marshal reports the next block through Delivery, which holds what lies
\* beyond the recovery target
Deliver ==
  LET b == acked + 1
  IN /\ Up
     /\ exec = Idle
     /\ node.held = 0
     /\ b <= tip
     /\ IF b > node.through
        THEN node' = [node EXCEPT !.held = b] /\ UNCHANGED exec
        ELSE exec' = [stage |-> "got", block |-> b] /\ UNCHANGED node
     /\ UNCHANGED <<tip, floor, acked, db, idx, view, ready, reader, fault, stops>>

\* Publication::prepare
PrepareError(b) ==
  CASE idx.latest >= b -> "none"
    [] idx.latest < b /\ idx.latest + 1 # b -> "gap"
    [] idx.latest + 1 = b /\ ~Provable(b) -> "unproved"
    [] OTHER -> "none"

Apply ==
  /\ exec.stage = "got"
  /\ IF db >= exec.block
     THEN /\ exec' = [exec EXCEPT !.stage = "committed"]
          /\ UNCHANGED <<idx, node, view, ready, reader, fault>>
     ELSE IF PrepareError(exec.block) # "none"
     THEN Fail("prepare") /\ UNCHANGED idx
     ELSE /\ idx' = IF idx.latest >= exec.block THEN idx ELSE Prepare(idx, exec.block)
          /\ exec' = [exec EXCEPT !.stage = "applied"]
          /\ UNCHANGED <<node, view, ready, reader, fault>>
  /\ UNCHANGED <<tip, floor, acked, db, stops>>

Commit ==
  /\ exec.stage = "applied"
  /\ db' = exec.block
  /\ exec' = [exec EXCEPT !.stage = "committed"]
  /\ UNCHANGED <<tip, floor, acked, idx, node, view, ready, reader, fault, stops>>

\* finalized, up to the owner cursor; nothing when the database is past the block
PublishCursor ==
  /\ exec.stage = "committed"
  /\ IF db # exec.block
     THEN exec' = [exec EXCEPT !.stage = "reported"] /\ UNCHANGED view
     ELSE /\ exec' = [exec EXCEPT !.stage = "cursor"]
          /\ view' = [view EXCEPT !.cursor = exec.block]
  /\ UNCHANGED <<tip, floor, acked, db, idx, node, ready, reader, fault, stops>>

\* Publication::finalized
PublishIndex ==
  /\ exec.stage = "cursor"
  /\ IF idx.latest >= exec.block
     THEN exec' = [exec EXCEPT !.stage = "indexed"] /\ UNCHANGED <<idx, node, view, ready, reader, fault>>
     ELSE IF idx.intent.height # exec.block
     THEN Fail("publish") /\ UNCHANGED idx
     ELSE /\ idx' = PublishIntent(idx)
          /\ exec' = [exec EXCEPT !.stage = "indexed"]
          /\ UNCHANGED <<node, view, ready, reader, fault>>
  /\ UNCHANGED <<tip, floor, acked, db, stops>>

PublishReadiness ==
  /\ exec.stage = "indexed"
  /\ RetainFrom(exec.block)
  /\ ready' = Advance(ready, 0, exec.block)
  /\ exec' = [exec EXCEPT !.stage = "reported"]
  /\ UNCHANGED <<tip, acked, db, idx, node, reader, fault, stops>>

Acknowledge ==
  /\ exec.stage = "reported"
  /\ acked' = exec.block
  /\ exec' = Idle
  /\ UNCHANGED <<tip, floor, db, idx, node, view, ready, reader, fault, stops>>

(***************************************************************************)
(* Core::open.                                                             *)
(***************************************************************************)
\* recovery_height and the processed height fix how far deliveries may go
\* before the index is reconciled
Open ==
  /\ node.phase = "down" /\ fault = "none"
  /\ db' \in {db, IF db > acked THEN acked ELSE db}
  /\ LET target == Maximum(idx.latest, acked)
     IN node' = [Down EXCEPT !.phase = "restoring", !.round = 1, !.target = target, !.through = target]
  /\ UNCHANGED <<tip, floor, acked, idx, exec, view, ready, reader, fault, stops>>

\* restore: the heights are read, then the database is compared with the
\* archive's blocks at that height and one above
RestoreRead ==
  /\ node.phase = "restoring"
  /\ node' = [node EXCEPT !.phase = "matching", !.read = Maximum(acked, view.cursor)]
  /\ UNCHANGED <<tip, floor, acked, db, idx, exec, view, ready, reader, fault, stops>>

Candidates == {node.read, node.read + 1}

RestoreMatch ==
  /\ node.phase = "matching"
  /\ LET found == {c \in Candidates : InArchive(c) /\ db = c}
         waits == node.round = 1 /\ db < node.target
     IN IF found = {} \/ (waits /\ ~InArchive(node.target))
        THEN Fail("restore")
        ELSE /\ view' = [view EXCEPT !.cursor = db]
             /\ node' = [node EXCEPT !.restored = db,
                                     !.phase = IF node.round = 2 THEN "recovering"
                                               ELSE IF waits THEN "waiting" ELSE "restoring",
                                     !.round = 2]
             /\ UNCHANGED <<exec, ready, reader, fault>>
  /\ UNCHANGED <<tip, floor, acked, db, idx, stops>>

\* the executed height reaches the published one
Replayed ==
  /\ node.phase = "waiting"
  /\ ready.executed >= node.target
  /\ node' = [node EXCEPT !.phase = "restoring"]
  /\ UNCHANGED <<tip, floor, acked, db, idx, exec, view, ready, reader, fault, stops>>

\* Publication::recover: an intent is the checkpoint's (publish) or its child's (clear)
RecoverIntent(checkpoint) ==
  CASE idx.intent.height = 0 -> idx
    [] idx.intent.height # 0 /\ idx.intent.height = checkpoint -> PublishIntent(idx)
    [] idx.intent.height # 0 /\ idx.intent.height = checkpoint + 1 -> ClearIntent(idx)
    [] OTHER -> [idx EXCEPT !.conflict = TRUE]

Recover ==
  /\ node.phase = "recovering"
  /\ \E recovered \in {RecoverIntent(node.restored)} :
       IF db # node.restored \/ recovered.conflict \/ recovered.latest # node.restored
       THEN Fail("recover") /\ UNCHANGED idx
       ELSE /\ idx' = recovered
            /\ node' = [node EXCEPT !.phase = "recovered"]
            /\ UNCHANGED <<exec, view, ready, reader, fault>>
  /\ UNCHANGED <<tip, floor, acked, db, stops>>

\* Mutant: the held block is forgotten
ResumeForgets ==
  /\ node.phase = "recovered"
  /\ node' = [node EXCEPT !.phase = "resumed", !.through = Unheld]
  /\ UNCHANGED <<tip, floor, acked, db, idx, exec, view, ready, reader, fault, stops>>

\* Delivery::resume, and the live feed starts
Resume ==
  /\ node.phase = "recovered"
  /\ node' = [node EXCEPT !.phase = "resumed", !.through = Unheld, !.held = 0]
  /\ exec' = IF node.held = 0 THEN exec ELSE [stage |-> "got", block |-> node.held]
  /\ UNCHANGED <<tip, floor, acked, db, idx, view, ready, reader, fault, stops>>

\* The rest of Core::open runs beside execution and the feed
AnnounceRestored ==
  /\ node.phase = "resumed"
  /\ node' = [node EXCEPT !.phase = "announced"]
  /\ ready' = Advance(ready, 0, node.restored)
  /\ UNCHANGED <<tip, floor, acked, db, idx, exec, view, reader, fault, stops>>

RetainRestored ==
  /\ node.phase = "announced"
  /\ node' = [node EXCEPT !.phase = "serving"]
  /\ RetainFrom(ready.executed)
  /\ UNCHANGED <<tip, acked, db, idx, exec, ready, reader, fault, stops>>

\* NodeState::running
Running == ready.state # "halted"

\* FinalizedInput::accept: a certificate and the blocks under it
Accept ==
  /\ node.phase \in {"resumed", "announced", "serving"} /\ Running
  /\ \E c \in CertifiedAt :
       /\ c > tip /\ \A d \in CertifiedAt : d <= tip \/ d >= c
       /\ tip' = c
       /\ ready' = Advance(ready, c, 0)
  /\ UNCHANGED <<floor, acked, db, idx, node, exec, view, reader, fault, stops>>

(***************************************************************************)
(* Stops: the process is killed, or halted and its tasks aborted, or       *)
(* recovery times out.  What is durable stays.                             *)
(***************************************************************************)
\* The lease is dropped or the node shut down: readiness says so and the token that
\* ends the node's thread is cancelled
Halt ==
  /\ node.phase = "serving" /\ Running
  /\ stops < Stops
  /\ stops' = stops + 1
  /\ ready' = [ready EXCEPT !.state = "halted", !.observed = 0]
  /\ UNCHANGED <<tip, floor, acked, db, idx, node, exec, view, reader, fault>>

Ended ==
  /\ node' = Down /\ exec' = Idle
  /\ view' = [cursor |-> 0, public |-> 0]
  /\ ready' = Starting
  /\ reader' = NoListing
  /\ UNCHANGED <<tip, floor, acked, db, idx, fault>>

\* The thread sees the token and aborts archive, execution and feed where they are
Shutdown ==
  /\ Up /\ ~Running
  /\ Ended
  /\ UNCHANGED stops

Stop ==
  /\ Up
  /\ stops < Stops
  /\ stops' = stops + 1
  /\ Ended

(***************************************************************************)
(* A reader pages through list_edges or one edge's list_edge_events; every *)
(* page after the first names the payload of the first, and is refused     *)
(* once the index has moved on.                                            *)
(***************************************************************************)
ReadPage ==
  /\ node.phase = "serving"
  /\ reader.status \in {"idle", "paging"}
  /\ idx.latest # 0
  /\ \E q \in (IF reader.status = "idle" THEN Requests ELSE {reader.query}) :
       IF reader.status = "paging" /\ reader.pin # idx.latest
       THEN reader' = NoListing
       ELSE \E page \in {(IF q.edge = 0 THEN ListEdges(idx, q, reader.after, PageLimit)
                          ELSE ListEdgeEvents(idx, q.edge, reader.after, PageLimit))} :
            reader' = [status |-> IF page.next = 0 THEN "done" ELSE "paging", query |-> q,
                       pin |-> idx.latest, after |-> page.next, got |-> reader.got \o page.items]
  /\ UNCHANGED <<tip, floor, acked, db, idx, node, exec, view, ready, fault, stops>>

Execute == Deliver \/ Apply \/ Commit \/ PublishCursor \/ PublishIndex \/ PublishReadiness \/ Acknowledge
StartUp ==
  Open \/ RestoreRead \/ RestoreMatch \/ Replayed \/ Recover \/ Resume \/ AnnounceRestored \/ RetainRestored

Next == Execute \/ StartUp \/ Accept \/ Halt \/ Shutdown \/ Stop \/ ReadPage

Spec == Init /\ [][Next]_vars

-----------------------------------------------------------------------------
TypeOK ==
  /\ tip \in 0 .. LastHeight /\ floor \in 0 .. LastHeight /\ acked \in 0 .. LastHeight /\ db \in 0 .. LastHeight
  /\ idx.latest \in 0 .. LastHeight /\ idx.intent.height \in 0 .. LastHeight
  /\ node.phase \in {"down", "restoring", "matching", "waiting", "recovering", "recovered",
                    "resumed", "announced", "serving"}
  /\ exec.stage \in {"idle", "got", "applied", "committed", "cursor", "indexed", "reported"}
  /\ ready.state \in {"catching", "ready", "halted"}
  /\ fault \in {"none", "prepare", "publish", "restore", "recover"}

\* Wherever the node is stopped - between intent, commit, publication and
\* acknowledgment, or during recovery itself - opening it again reconciles
\* archive, database and index: no step of Core::open, prepare or publication
\* ever returns the error that would leave the node down for good.
RecoveryNeverWedges == fault = "none"

\* The published index is always exactly the history of its first `latest`
\* blocks: edges, lookups by state and party, events, objects and transaction
\* locators of one checkpoint, whatever crash or replay came before, so that no
\* detail or channel query finds its tables in disagreement.
IndexIsHistory == Describes(idx)

\* Publication never runs ahead of execution by more than a replay, and never
\* behind what marshal believes processed: acknowledged blocks are executed
\* and indexed, since marshal does not deliver them again.
AcknowledgedIsIndexed == acked <= db /\ acked <= idx.latest

\* While the node serves, owner proofs can be answered: the executed state is
\* the published checkpoint's or its intent's, the window between commit and
\* publication included (publication.rs owner_proof, store.rs proof_for_state_root).
OwnerProofsAnswer ==
  node.phase = "serving" => ProofForStateRoot(idx, db) = db

\* A reader woken by readiness finds the owner cursor and the index at least
\* as far as the height readiness announced ("Readers woken by publication must
\* see this block's owner cursor"), and a ready node has executed every
\* certificate it observed.
ReadinessIsBacked ==
  /\ ready.executed <= view.cursor
  /\ ready.executed <= db
  /\ node.phase = "serving" => ready.executed <= idx.latest
  /\ ready.state = "ready" => ready.executed >= tip

\* A listing read page by page while blocks are published is the answer at one
\* checkpoint: every edge that matched there, or every event of the edge asked
\* for, once, in order.
ListingsAreExact ==
  reader.status = "done" =>
    /\ ToSet(reader.got) = IF reader.query.edge = 0 THEN Answer(reader.pin, reader.query)
                           ELSE {Key(r) : r \in {s \in Refs(reader.pin) : TxAt(s).edge = reader.query.edge}}
    /\ \A i \in 1 .. Len(reader.got) - 1 : reader.got[i] < reader.got[i + 1]

=============================================================================
