------------------------------ MODULE Journal ------------------------------
(* The durable journal and the two stores that write to it: the channel store of an endpoint and the
   node store of a provider that serves grants.  One SQLite database, one
   owner at a time.  A commit is cut where its future waits for SQLite's worker, so
   it can be cancelled there, the process can die there, and the worker can finish after both.

   A record is a fact about a job or about the block cursor.  The state a store replays to is the
   sequence of the facts it has applied; a checkpoint is that sequence. *)
EXTENDS Integers, Sequences, FiniteSets

CONSTANTS
  Job,                 \* jobs that may be proposed
  Blocks,              \* cursor positions a store may record (bound of the model)
  Flushes,             \* Durability::Power: a commit is flushed before it returns
  NodePolicy,          \* TRUE: the node store's admission rule; FALSE: the channel store's
  MaxFrames, DutyFrames,
  MaxBytes, DutyBytes,
  MaxCheckpoint,
  JobBytes,            \* what an open job adds to a checkpoint when it is proposed
  TailBytes,           \* what its result (node store: its dispatch record) adds
  EndedBytes,          \* what the archive keeps of a job that ended with a result
  MaxGeneration,       \* rotations of one behaviour (bound of the model)
  MaxCrashes           \* crashes and power losses of one behaviour (bound of the model)

None == "none"

Proposed(j) == [kind |-> "proposed", about |-> j]
Result(j)   == [kind |-> "result", about |-> j]
Ended(j)    == [kind |-> "ended", about |-> j]
Cursor(n)   == [kind |-> "cursor", about |-> n]

Fact == {Proposed(j) : j \in Job} \cup {Result(j) : j \in Job} \cup {Ended(j) : j \in Job}
          \cup {Cursor(n) : n \in Blocks}

ASSUME JournalAssumption ==
  /\ IsFiniteSet(Job) /\ Blocks \subseteq Nat \ {0}
  /\ Flushes \in BOOLEAN /\ NodePolicy \in BOOLEAN
  /\ MaxFrames \in Nat /\ DutyFrames \in 0..MaxFrames
  /\ MaxBytes \in Nat /\ DutyBytes \in 0..MaxBytes
  /\ MaxCheckpoint \in 0..MaxBytes /\ JobBytes \in Nat /\ TailBytes \in Nat
  /\ EndedBytes \in 0..(JobBytes + TailBytes)
  /\ MaxGeneration \in Nat /\ MaxCrashes \in Nat

VARIABLES
  disk,       \* what SQLite has committed: generation, checkpoint, records
  old,        \* committed states a loss of power may still bring back
  phase,      \* of the lock's holder: "closed" (nobody holds it), "open", "closing"
  handle,     \* the Journal its owner holds, with its store's state
  doing,      \* the commit in progress: the step it waits for, the fact still to append
  worker,     \* the statement SQLite's worker has not finished, or its unread answer
  known,      \* how many facts an owner has acted on (history variable)
  crashes     \* crashes so far

vars == <<disk, old, phase, handle, doing, worker, known, crashes>>

NoFact == Cursor(0)

Idle == [step |-> "idle", fact |-> NoFact]
Statement(op, f, s) == [op |-> op, fact |-> f, state |-> s]
Insert(f) == Statement("append", f, <<>>)
Replace(s) == Statement("rotate", NoFact, s)
Answer(a) == Statement(a, NoFact, <<>>)
Quiet == Answer("none")

-----------------------------------------------------------------------------
(* The state a store replays to. *)

Holds(s, f) == \E i \in 1..Len(s) : s[i] = f

OpenJobs(s) == {j \in Job : Holds(s, Proposed(j)) /\ ~Holds(s, Ended(j))}

Answered(s) == {j \in OpenJobs(s) : Holds(s, Result(j))}

Archived(s) == {j \in Job : Holds(s, Result(j)) /\ Holds(s, Ended(j))}

\* Which record the transition rules admit next; a record the state already holds is redundant.
Applies(s, f) ==
  /\ ~Holds(s, f)
  /\ CASE f.kind = "proposed" -> TRUE
       [] f.kind = "result"   -> f.about \in OpenJobs(s)
       [] f.kind = "ended"    -> f.about \in OpenJobs(s)
       [] OTHER               -> \A n \in Blocks : Holds(s, Cursor(n)) => n < f.about

CheckpointBytes(s) == JobBytes * Cardinality(OpenJobs(s)) + TailBytes * Cardinality(Answered(s))
                        + EndedBytes * Cardinality(Archived(s))

\* The stored bytes of one record: a result carries the tail, everything else is metadata.
RecordBytes(f) == IF f.kind = "result" THEN TailBytes ELSE 1

Bytes(d) == CheckpointBytes(d.checkpoint) + Cardinality({i \in 1..Len(d.records) : d.records[i].kind # "result"})
              + TailBytes * Cardinality({i \in 1..Len(d.records) : d.records[i].kind = "result"})

\* ChannelStore::commit charges the proposed job its tail and no other job's.
ChannelFits(s, f) ==
  \/ f.kind = "cursor"
  \/ CheckpointBytes(s) + (IF f.kind = "proposed" THEN TailBytes ELSE 0) <= MaxCheckpoint

\* NodeStore::commit_changes charges every open job the headroom of one that was just admitted.
NodeFits(s) == CheckpointBytes(s) + TailBytes * Cardinality(OpenJobs(s)) <= MaxCheckpoint

\* The state after a record must be one a rotation can still carry.
StateFits(s, f) == IF NodePolicy THEN NodeFits(s) ELSE ChannelFits(s, f)

\* Which records a journal at its soft limit refuses when it cannot rotate.
IsNewWork(f) == f.kind = "proposed" \/ (NodePolicy /\ f.kind = "cursor")

Replay(d) == d.checkpoint \o d.records

-----------------------------------------------------------------------------
(* The journal. *)

AtSoftLimit(j) == j.records >= MaxFrames - DutyFrames \/ j.bytes >= MaxBytes - DutyBytes

FullAtReserve(j, f) == AtSoftLimit(j) \/ j.bytes + RecordBytes(f) > MaxBytes

Full(j, f) == j.records >= MaxFrames \/ j.bytes + RecordBytes(f) > MaxBytes

\* check_authority: the handle is open and no write of it is in doubt.
Usable == phase = "open" /\ ~handle.poisoned

Opened(d) == [poisoned |-> FALSE, generation |-> d.generation, records |-> Len(d.records),
              bytes |-> Bytes(d), state |-> Replay(d)]

Init ==
  /\ disk = [generation |-> 0, checkpoint |-> <<>>, records |-> <<>>]
  /\ old = {}
  /\ phase = "closed"
  /\ handle = Opened(disk)
  /\ doing = Idle
  /\ worker = Quiet
  /\ known = 0
  /\ crashes = 0

\* open_owned, and the store's replay over what it read.
Open ==
  /\ phase = "closed"
  /\ phase' = "open"
  /\ handle' = Opened(disk)
  /\ known' = Len(Replay(disk))
  /\ UNCHANGED <<disk, old, doing, worker, crashes>>

\* append: the statement is handed to the worker, and the handle j is poisoned until its answer is
\* read.
StartAppend(j, f) ==
  /\ ~Full(j, f)
  /\ handle' = [j EXCEPT !.poisoned = TRUE]
  /\ worker' = Insert(f)
  /\ doing' = [step |-> "append", fact |-> f]

\* Whether rotate refuses before it writes.
CanRotate(j) == CheckpointBytes(j.state) <= MaxCheckpoint /\ j.generation < MaxGeneration

StartRotation(j, f) ==
  /\ handle' = [j EXCEPT !.poisoned = TRUE]
  /\ worker' = Replace(j.state)
  /\ doing' = [step |-> "rotate", fact |-> f]

\* commit: the rules, the checkpoint limit, rotate_if_full, append.
Commit(f) ==
  /\ Usable /\ doing = Idle
  /\ Applies(handle.state, f)
  /\ StateFits(Append(handle.state, f), f)
  /\ IF AtSoftLimit(handle) /\ CanRotate(handle)
       THEN StartRotation(handle, f)
       ELSE /\ AtSoftLimit(handle) => ~IsNewWork(f)
            /\ StartAppend(handle, f)
  /\ UNCHANGED <<disk, old, phase, known, crashes>>

\* rotate, asked for by an operator.
Rotate ==
  /\ Usable /\ doing = Idle
  /\ CanRotate(handle)
  /\ StartRotation(handle, NoFact)
  /\ UNCHANGED <<disk, old, phase, known, crashes>>

InstalledKeepingRecords(d, w) ==
  IF w.op = "append" THEN [d EXCEPT !.records = Append(@, w.fact)]
  ELSE [generation |-> d.generation + 1, checkpoint |-> w.state, records |-> d.records]

Installed(d, w) ==
  IF w.op = "append" THEN [d EXCEPT !.records = Append(@, w.fact)]
  ELSE [generation |-> d.generation + 1, checkpoint |-> w.state, records |-> <<>>]

\* SQLite commits the statement.  Its answer is on the way, or is lost to an I/O error.
WorkerCommits ==
  /\ worker.op \in {"append", "rotate"}
  /\ disk' = Installed(disk, worker)
  /\ old' = IF Flushes THEN {} ELSE old \cup {disk}
  /\ worker' \in {Answer("ok"), Answer("error")}
  /\ UNCHANGED <<phase, handle, doing, known, crashes>>

\* SQLite rolls the statement back.
WorkerFails ==
  /\ worker.op \in {"append", "rotate"}
  /\ worker' = Answer("error")
  /\ UNCHANGED <<disk, old, phase, handle, doing, known, crashes>>

-----------------------------------------------------------------------------
(* The commit's future goes on with the worker's answer. *)

\* Whether the store rotates because the record closed a job (the channel store only).
RotatesAfter(j, f) == ~NodePolicy /\ f.kind = "ended" /\ CanRotate(j)

\* The rest of append: the counters move, the store takes the next state.
Recorded(j, f) == [j EXCEPT !.records = @ + 1, !.bytes = @ + RecordBytes(f),
                            !.poisoned = FALSE, !.state = Append(@, f)]

\* The rest of rotate.
Carried(j) == [j EXCEPT !.generation = @ + 1, !.records = 0,
                        !.bytes = CheckpointBytes(j.state), !.poisoned = FALSE]

\* The commit returns, and what it authorised may leave the process.
Return(j) ==
  /\ handle' = j
  /\ worker' = Quiet
  /\ doing' = Idle
  /\ known' = Len(j.state)

Appended ==
  /\ worker.op = "ok" /\ doing.step = "append"
  /\ LET j == Recorded(handle, doing.fact) IN
       IF RotatesAfter(j, doing.fact) THEN StartRotation(j, NoFact) /\ UNCHANGED known
                                      ELSE Return(j)
  /\ UNCHANGED <<disk, old, phase, crashes>>

\* Truncating the write-ahead log flushes the rotation, unless that fails.
Rotated ==
  /\ worker.op = "ok" /\ doing.step = "rotate"
  /\ old' \in {{}, old}
  /\ LET j == Carried(handle) IN
       IF doing.fact # NoFact /\ ~Full(j, doing.fact)
         THEN StartAppend(j, doing.fact) /\ UNCHANGED known
         ELSE Return(j)
  /\ UNCHANGED <<disk, phase, crashes>>

\* A failed statement leaves the handle poisoned; the append of a duty is then refused as well.
Failed ==
  /\ worker.op = "error" /\ doing # Idle
  /\ worker' = Quiet
  /\ doing' = Idle
  /\ UNCHANGED <<disk, old, phase, handle, known, crashes>>

\* The future is dropped.  The worker finishes the statement all the same, and nobody reads the
\* answer.
Cancel ==
  /\ doing # Idle
  /\ doing' = Idle
  /\ UNCHANGED <<disk, old, phase, handle, worker, known, crashes>>

Discard ==
  /\ worker.op \in {"ok", "error"} /\ doing = Idle
  /\ worker' = Quiet
  /\ UNCHANGED <<disk, old, phase, handle, doing, known, crashes>>

-----------------------------------------------------------------------------
(* Ownership, crashes and power. *)

\* close, and Drop: the connection closes once its worker is done, then the lock is released.
Close ==
  /\ phase = "open" /\ doing = Idle
  /\ phase' = "closing"
  /\ UNCHANGED <<disk, old, handle, doing, worker, known, crashes>>

ReleaseEarly ==
  /\ phase = "closing"
  /\ phase' = "closed"
  /\ UNCHANGED <<disk, old, handle, doing, worker, known, crashes>>

Release ==
  /\ phase = "closing" /\ worker = Quiet
  /\ phase' = "closed"
  /\ UNCHANGED <<disk, old, handle, doing, worker, known, crashes>>

\* The process dies, and with it a statement that was not committed.
Crash ==
  /\ crashes < MaxCrashes /\ phase # "closed"
  /\ phase' = "closed"
  /\ doing' = Idle
  /\ worker' = Quiet
  /\ crashes' = crashes + 1
  /\ UNCHANGED <<disk, old, handle, known>>

\* Power fails: some suffix of the commits that were not flushed is gone.
PowerLoss ==
  /\ crashes < MaxCrashes
  /\ disk' \in old \cup {disk}
  /\ old' = {}
  /\ known' = IF Len(Replay(disk')) < known THEN Len(Replay(disk')) ELSE known
  /\ phase' = "closed"
  /\ doing' = Idle
  /\ worker' = Quiet
  /\ crashes' = crashes + 1
  /\ UNCHANGED handle

Next ==
  \/ Open
  \/ \E f \in Fact : Commit(f)
  \/ Rotate
  \/ WorkerCommits
  \/ WorkerFails
  \/ Appended
  \/ Rotated
  \/ Failed
  \/ Cancel
  \/ Discard
  \/ Close
  \/ Release
  \/ Crash
  \/ PowerLoss

Spec == Init /\ [][Next]_vars

-----------------------------------------------------------------------------
(* Properties. *)

Databases == [generation : 0..MaxGeneration, checkpoint : Seq(Fact), records : Seq(Fact)]

Handles == [poisoned : BOOLEAN, generation : 0..MaxGeneration, records : Nat, bytes : Nat, state : Seq(Fact)]

\* Type invariant.
TypeOK ==
  /\ disk \in Databases
  /\ old \subseteq Databases
  /\ phase \in {"closed", "open", "closing"}
  /\ handle \in Handles
  /\ doing \in [step : {"idle", "append", "rotate"}, fact : Fact \cup {NoFact}]
  /\ worker \in [op : {"none", "append", "rotate", "ok", "error"}, fact : Fact \cup {NoFact}, state : Seq(Fact)]
  /\ known \in Nat
  /\ crashes \in 0..MaxCrashes

Log == INSTANCE DurableLog WITH log <- Replay(disk)

\* The journal is a durable log: whatever rotations, cancelled commits, failed statements, crashes
\* and changes of owner do to the database, what a replay gives back only grows at its end, and in
\* power mode nothing an owner has acted on is ever lost (Journal::rotate, append and open_owned).
ImplementsDurableLog == Log!Spec

\* A handle that is not poisoned knows exactly what is on disk: the generation, the counts its
\* limits are taken from, and the facts its store acts on.  Poisoning before the statement is sent,
\* and releasing the lock only after the worker is done, are what make it so.
ViewIsDurable == Usable => handle = Opened(disk)

\* One generation never outgrows the limits that bound a replay (MAX_ACTIVE_FRAMES,
\* MAX_ACTIVE_JOURNAL_BYTES), the records committed after a cancellation included.
ReplayIsBounded ==
  /\ Len(disk.records) <= MaxFrames
  /\ Bytes(disk) <= MaxBytes

\* A usable journal takes the record, now or after the rotation it starts.
Takes(f) ==
  /\ StateFits(Append(handle.state, f), f)
  /\ IF AtSoftLimit(handle) /\ CanRotate(handle) THEN ~Full(Carried(handle), f)
                                                  ELSE ~Full(handle, f)

Owed(f) == Applies(handle.state, f) /\ f.about \in OpenJobs(handle.state)

\* An exported job can always be ended: as long as the journal is usable it has room for the ending
\* of every open job, whether or not the generation can still be rotated.  The reserve below the
\* soft limit, and refusing only new work at it, are there for this (rotate_if_full,
\* commit_changes, DUTY_FRAMES).
EndingIsRecordable == Usable => \A j \in Job : Owed(Ended(j)) => Takes(Ended(j))

---------------------------------------------------------------------------
\* What the handle believes is what a replay would give, within the bounds a replay
\* is promised, whatever commit is queued, cancelled or undecided behind it.
ViewsAreReplayable ==
  TypeOK /\ ViewIsDurable /\ ReplayIsBounded
=============================================================================
