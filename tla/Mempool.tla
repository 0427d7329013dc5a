------------------------------ MODULE Mempool ------------------------------
(***************************************************************************)
(* A validator's transaction pool (crates/chain/src/app.rs, rpc.rs):       *)
(* general submissions in order of arrival, with strikes, and one answer   *)
(* per payment contest on a reserved lane.  Submissions interleave with    *)
(* the handler of a finalized block, which takes the pool's lock once per  *)
(* step, and with proposals built on an unfinalized ancestor.              *)
(***************************************************************************)
EXTENDS HostExecution

CONSTANTS
  General, Responses,         \* transactions submitted on each route
  Foreign,                    \* blocks other validators get certified
  Genesis,                    \* the state at StartHeight
  StartHeight, MaxHeight,
  GENERAL_MEMPOOL_CAPACITY, GENERAL_MEMPOOL_MAX_STRIKES,
  RESPONSE_MEMPOOL_CAPACITY, RECONCILED_PER_BLOCK,
  MaxSubmissions              \* bound on submissions

VARIABLES
  height, db,                 \* the committed state
  cursor,                     \* the published height
  parent,                     \* an unfinalized block on top, or none
  general,                    \* <<[tx, strikes]>>
  responses,                  \* set of transactions, one per slot
  phase, block, verdict,      \* the handler of the finalized block
  answering,                  \* a response between its check and the lock
  submissions,
  streak                      \* history: early verdicts in a row, per transaction

vars == <<height, db, cursor, parent, general, responses, phase, block, verdict, answering,
          submissions, streak>>

pool == <<general, responses>>

NoParent == [there |-> FALSE, txs |-> <<>>]
NoVerdict == [executable |-> {}, transient |-> {}, rejected |-> {}]
NoAnswer == [there |-> FALSE, txs |-> {}, cursor |-> 0]

Residents == {general[i].tx : i \in DOMAIN general}

---------------------------------------------------------------------------
(* Admission *)

\* A full pool makes room only by evicting the first struck resident
Victim(entries) == SelectInSeq(entries, LAMBDA entry : entry.strikes > 0)

Without(entries, i) == RemoveAt(entries, i)

\* admit_general: a duplicate or a full pool changes nothing
AdmitGeneral(entries, tx) ==
  IF \E i \in DOMAIN entries : entries[i].tx = tx THEN entries
  ELSE IF Len(entries) < GENERAL_MEMPOOL_CAPACITY
  THEN Append(entries, [tx |-> tx, strikes |-> 0])
  ELSE IF Victim(entries) = 0 THEN entries
  ELSE Append(Without(entries, Victim(entries)), [tx |-> tx, strikes |-> 0])

\* submit_general
SubmitGeneral(tx) ==
  /\ submissions < MaxSubmissions
  /\ general' = AdmitGeneral(general, tx)
  /\ submissions' = submissions + 1
  /\ UNCHANGED <<height, db, cursor, parent, responses, phase, block, verdict, answering, streak>>

\* response_slot
ResponseSlot(tx) == <<tx.edge, tx.start>>

\* The kernel's check over a view of the committed edge and contest only
Answers(tx, h) == CheckResponse(db, h, tx) = Ok

\* submit_response up to the check: the reader it takes keeps the database
\* where it is until the answer is in; the roots of cursor and reader must
\* agree, as they do across an empty block
CheckAnswer(tx) ==
  /\ submissions < MaxSubmissions /\ ~answering.there
  /\ cursor = height \/ block = <<>>
  /\ Answers(tx, cursor + 1)
  /\ answering' = [there |-> TRUE, txs |-> {tx}, cursor |-> cursor]
  /\ submissions' = submissions + 1
  /\ UNCHANGED <<height, db, cursor, parent, pool, phase, block, verdict, streak>>

\* Residents that no longer answer a contest leave before the newcomer is placed
Valid(txs, h) == {tx \in txs : Answers(tx, h)}

\* Mutant: the newcomer takes its contest's slot
PlaceOver(residents, tx) ==
  {r \in residents : ResponseSlot(r) # ResponseSlot(tx)} \cup {tx}

Place(residents, tx) ==
  IF \/ \E r \in residents : ResponseSlot(r) = ResponseSlot(tx)
     \/ Cardinality(residents) >= RESPONSE_MEMPOOL_CAPACITY
  THEN residents ELSE residents \cup {tx}

\* submit_response under the lock
PlaceAnswer ==
  /\ answering.there
  /\ \E tx \in answering.txs : responses' = Place(Valid(responses, answering.cursor + 1), tx)
  /\ answering' = NoAnswer
  /\ UNCHANGED <<height, db, cursor, parent, general, phase, block, verdict, submissions, streak>>

---------------------------------------------------------------------------
(* Proposals *)

\* snapshot: the reserved lane first
Snapshot == SetToSeq(responses) \o [i \in DOMAIN general |-> general[i].tx]

\* The ancestors above the published height
Ancestors(onParent) ==
  (IF onParent THEN Range(parent.txs) ELSE {})
    \cup (IF cursor < height THEN Range(block) ELSE {})

Pending(onParent) == SelectSeq(Snapshot, LAMBDA tx : tx \notin Ancestors(onParent))

ResponseCount(txs) == Cardinality({i \in DOMAIN txs : txs[i].kind = "Respond"})

\* General candidates up to the budgets the responses leave
GeneralCandidates(txs, count, bytes) ==
  LET fits(n) == n <= count /\ Bytes(SubSeq(txs, 1, n)) <= bytes
  IN SubSeq(txs, 1, Max({n \in 0..Len(txs) : \A m \in 0..n : fits(m)}))

\* Mutant: general submissions are taken first
CandidatesMixed(pending) ==
  LET n == ResponseCount(pending)
  IN GeneralCandidates(SubSeq(pending, n + 1, Len(pending)), MaxTxs, MaxTxBytes)
       \o SubSeq(pending, 1, n)

Candidates(pending) ==
  LET n == ResponseCount(pending)
  IN SubSeq(pending, 1, n)
       \o GeneralCandidates(SubSeq(pending, n + 1, Len(pending)),
                            MaxTxs - n, MaxTxBytes - Bytes(SubSeq(pending, 1, n)))

ParentState(onParent) ==
  IF onParent THEN ExecuteAll(db, height + 1, parent.txs).db ELSE db

ParentHeight(onParent) == IF onParent THEN height + 1 ELSE height

\* propose
Propose(onParent) ==
  ExecuteProposal(ParentState(onParent), ParentHeight(onParent) + 1,
                  Candidates(Pending(onParent)), MaxTxs, MaxTxBytes)

---------------------------------------------------------------------------
(* Blocks *)

Init ==
  /\ height = StartHeight /\ db = Genesis /\ cursor = StartHeight
  /\ parent = NoParent
  /\ general = <<>> /\ responses = {}
  /\ phase = "idle" /\ block = <<>> /\ verdict = NoVerdict
  /\ answering = NoAnswer /\ submissions = 0
  /\ streak = [tx \in General |-> 0]

\* A block on the committed tip is notarized: ours or another validator's
Notarize(txs) ==
  /\ height < MaxHeight /\ ~parent.there
  /\ ExecuteAll(db, height + 1, txs).class = "ok"
  /\ parent' = [there |-> TRUE, txs |-> txs]
  /\ UNCHANGED <<height, db, cursor, pool, phase, block, verdict, answering, submissions, streak>>

\* It is abandoned for a rival
Abandon ==
  /\ parent.there
  /\ parent' = NoParent
  /\ UNCHANGED <<height, db, cursor, pool, phase, block, verdict, answering, submissions, streak>>

\* apply and the commit of a finalized block, once no reader holds it back
Commit ==
  /\ phase = "idle" /\ parent.there /\ ~answering.there
  /\ db' = ParentState(TRUE)
  /\ height' = height + 1
  /\ block' = parent.txs /\ parent' = NoParent
  /\ phase' = "committed"
  /\ UNCHANGED <<cursor, pool, verdict, answering, submissions, streak>>

\* finalized, up to the publication of the cursor
PublishCursor ==
  /\ phase = "committed"
  /\ cursor' = height
  /\ phase' = "published"
  /\ UNCHANGED <<height, db, parent, pool, block, verdict, answering, submissions, streak>>

\* Mempool::remove: by digest, on both lanes
Drop(txs) ==
  /\ general' = SelectSeq(general, LAMBDA entry : entry.tx \notin txs)
  /\ responses' = responses \ txs

RemoveIncluded ==
  /\ phase = "published"
  /\ Drop(Range(block))
  /\ phase' = "removed"
  /\ UNCHANGED <<height, db, cursor, parent, block, verdict, answering, submissions, streak>>

\* The window of residents examined after this block
Examined(snapshot) ==
  LET n == Len(snapshot)
  IN [i \in 1..Min({n, RECONCILED_PER_BLOCK}) |-> snapshot[((height + i - 1) % n) + 1]]

\* Each alone on the committed state, at the next height
Alone(tx) == ExecuteProposal(db, height + 1, <<tx>>, MaxTxs, MaxTxBytes)

Judged(txs) ==
  [executable |-> {tx \in txs : Alone(tx).included # <<>>},
   transient |-> {tx \in txs : Alone(tx).retained # <<>>},
   rejected |-> {tx \in txs : Alone(tx).included = <<>> /\ Alone(tx).retained = <<>>}]

\* A storage error ends the examination at any resident, and the verdicts so far count
Reconcile ==
  /\ phase = "removed"
  /\ \E txs \in {Examined(Snapshot)} : \E n \in 0..Len(txs) :
       /\ \A i \in 1..n : ~Alone(txs[i]).fatal
       /\ verdict' = Judged(Range(SubSeq(txs, 1, n)))
  /\ streak' = [tx \in General |->
                 CASE tx \in verdict'.transient -> streak[tx] + 1
                   [] tx \in verdict'.executable -> 0
                   [] OTHER -> streak[tx]]
  /\ phase' = "judged"
  /\ UNCHANGED <<height, db, cursor, parent, pool, block, answering, submissions>>

Marked(txs, strikes(_)) ==
  [i \in DOMAIN general |->
     IF general[i].tx \in txs THEN [general[i] EXCEPT !.strikes = strikes(@)] ELSE general[i]]

ClearStrikes ==
  /\ phase = "judged"
  /\ general' = Marked(verdict.executable, LAMBDA s : 0)
  /\ phase' = "cleared"
  /\ UNCHANGED <<height, db, cursor, parent, responses, block, verdict, answering, submissions, streak>>

Strike ==
  /\ phase = "cleared"
  /\ general' = Marked(verdict.transient, LAMBDA s : s + 1)
  /\ phase' = "struck"
  /\ UNCHANGED <<height, db, cursor, parent, responses, block, verdict, answering, submissions, streak>>

EvictOrphans ==
  /\ phase = "struck"
  /\ general' = SelectSeq(general, LAMBDA entry : entry.strikes < GENERAL_MEMPOOL_MAX_STRIKES)
  /\ phase' = "evicted"
  /\ UNCHANGED <<height, db, cursor, parent, responses, block, verdict, answering, submissions, streak>>

RemoveRejected ==
  /\ phase = "evicted"
  /\ Drop(verdict.rejected)
  /\ phase' = "idle" /\ verdict' = NoVerdict
  /\ UNCHANGED <<height, db, cursor, parent, block, answering, submissions, streak>>

Next ==
  \/ \E tx \in General : SubmitGeneral(tx)
  \/ \E tx \in Responses : CheckAnswer(tx)
  \/ PlaceAnswer
  \/ \E txs \in Foreign : Notarize(txs)
  \/ Notarize(Propose(FALSE).included)
  \/ Abandon \/ Commit \/ PublishCursor \/ RemoveIncluded \/ Reconcile
  \/ ClearStrikes \/ Strike \/ EvictOrphans \/ RemoveRejected

Spec == Init /\ [][Next]_vars

---------------------------------------------------------------------------
(* Properties *)

TypeOK ==
  /\ height \in StartHeight..MaxHeight /\ cursor \in {height - 1, height}
  /\ phase \in {"idle", "committed", "published", "removed", "judged", "cleared", "struck",
               "evicted"}
  /\ Len(general) <= GENERAL_MEMPOOL_CAPACITY
  /\ Cardinality(Residents) = Len(general)
  /\ Cardinality({ResponseSlot(tx) : tx \in responses}) = Cardinality(responses)
  /\ Cardinality(responses) <= RESPONSE_MEMPOOL_CAPACITY

Refused(tx) == Alone(tx).included = <<>> /\ Alone(tx).retained = <<>>

\* A general resident that was never early leaves the pool only when the block
\* just committed holds it or the committed state refuses it for good: not for
\* a newcomer to a full pool, and not because it cannot run yet (admit_general,
\* evict_orphans and the verdicts of finalized)
UnstruckStay ==
  [][\A i \in DOMAIN general :
       general[i].strikes = 0 /\ general[i].tx \notin Residents'
         => general[i].tx \in Range(block) \/ Refused(general[i].tx)]_vars

\* An admitted answer keeps its contest's slot until it is on chain or cannot
\* be: a later answer to the contest does not displace it (submit_response)
AnswersStay ==
  [][\A tx \in responses \ responses' :
       \/ tx \in Range(block) \/ Refused(tx)
       \/ CheckResponse(db, cursor + 1, tx) # Ok]_vars

\* Every pooled answer that the parent state accepts is in this validator's
\* proposal, whatever the general pool holds and whichever block it builds on
\* (the reserved lane of propose)
AnswersAreProposed ==
  \A onParent \in {FALSE} \cup {parent.there} :
    \A tx \in responses \ Ancestors(onParent) :
      ApplyTransaction(ParentState(onParent), ParentHeight(onParent) + 1, tx).class = "ok"
        => tx \in Range(Propose(onParent).included)

\* A resident's strikes are early verdicts in a row: one that could run at its
\* last examination starts over, however the steps of finalized interleave
\* with evictions and new submissions (clear_strikes, strike)
StrikesInARow ==
  phase \notin {"judged", "cleared"} =>
    \A i \in DOMAIN general : general[i].strikes <= streak[general[i].tx]

---------------------------------------------------------------------------
\* What the pool holds is proposed by its merit: a live answer goes into the
\* proposal whatever floods the general pool, and strikes count failures in a row.
PoolIsFair ==
  TypeOK /\ AnswersAreProposed /\ StrikesInARow

\* Nothing that could run is dropped to make room: neither a general transaction
\* that never failed nor the answer to an open contest.
ResidentsStay ==
  UnstruckStay /\ AnswersStay
=============================================================================
