---------------------------- MODULE JournalProofs ----------------------------
(***************************************************************************)
(* For any jobs, limits, policy and number of crashes: a usable handle     *)
(* knows exactly what is on disk, a generation never outgrows its limits,  *)
(* and the journal is a durable log.                                       *)
(***************************************************************************)
EXTENDS Journal, FiniteSetTheorems, TLAPS

-----------------------------------------------------------------------------
(* The inductive invariant.                                                *)

\* The handle of an owner that waits for a statement.
Marked(d) == [poisoned |-> TRUE, generation |-> d.generation, records |-> Len(d.records),
              bytes |-> Bytes(d), state |-> Replay(d)]

Bounded(d) == Len(d.records) <= MaxFrames /\ Bytes(d) <= MaxBytes

\* What a loss of power brings back is a prefix of what a replay gives now.
Rewinds(d) == \E n \in 0..Len(Replay(disk)) : Replay(d) = SubSeq(Replay(disk), 1, n)

\* A statement the worker has not finished fits the database it will change, whether or
\* not anyone still waits for it.
StatementFits ==
  /\ worker.op = "append" =>
       /\ worker.fact \in Fact
       /\ Len(disk.records) < MaxFrames
       /\ Bytes(disk) + RecordBytes(worker.fact) <= MaxBytes
  /\ worker.op = "rotate" =>
       /\ worker.state = Replay(disk)
       /\ disk.generation < MaxGeneration
       /\ CheckpointBytes(Replay(disk)) <= MaxCheckpoint

\* What the owner waits for is what the worker has, and its handle is one answer behind.
Waiting ==
  /\ doing.step = "idle" => doing = Idle
  /\ doing.step = "append" =>
       /\ doing.fact \in Fact
       /\ worker.op \in {"append", "ok", "error"}
       /\ worker.op = "append" => worker = Insert(doing.fact) /\ handle = Marked(disk)
       /\ worker.op = "ok" => Recorded(handle, doing.fact) = Opened(disk)
  /\ doing.step = "rotate" =>
       /\ worker.op \in {"rotate", "ok", "error"}
       /\ worker.op = "rotate" => handle = Marked(disk)
       /\ worker.op = "ok" => Carried(handle) = Opened(disk)

\* Who holds the lock: nobody else can start a statement, and a handle without a mark has
\* none outstanding.
Owned ==
  /\ phase = "closed" => worker = Quiet
  /\ phase # "open" => doing = Idle
  /\ Usable => doing = Idle /\ worker = Quiet

\* What a loss of power may bring back.
Recoverable ==
  /\ Flushes => old = {}
  /\ \A d \in old \cup {disk} : Bounded(d) /\ Rewinds(d)
  /\ known <= Len(Replay(disk))

IInv == TypeOK /\ StatementFits /\ Waiting /\ Owned /\ ViewIsDurable /\ Recoverable

-----------------------------------------------------------------------------
(* Sequences.                                                              *)

LEMMA SeqFacts ==
  ASSUME NEW S, NEW s \in Seq(S)
  PROVE  Len(s) \in Nat /\ s \in [1..Len(s) -> S] /\ DOMAIN s = 1..Len(s)
OBVIOUS

LEMMA ConcatFacts ==
  ASSUME NEW S, NEW s \in Seq(S), NEW t \in Seq(S)
  PROVE  /\ s \o t \in Seq(S) /\ Len(s \o t) = Len(s) + Len(t)
         /\ s \o << >> = s
OBVIOUS

LEMMA AppendFacts ==
  ASSUME NEW S, NEW s \in Seq(S), NEW x \in S
  PROVE  /\ Append(s, x) \in Seq(S) /\ Len(Append(s, x)) = Len(s) + 1
         /\ \A i \in 1..Len(s) : Append(s, x)[i] = s[i]
         /\ Append(s, x)[Len(s) + 1] = x
OBVIOUS

LEMMA WholeSequence ==
  ASSUME NEW S, NEW s \in Seq(S)
  PROVE  SubSeq(s, 1, Len(s)) = s
OBVIOUS

-----------------------------------------------------------------------------
(* Sizes.                                                                  *)

LEMMA CheckpointBytesType == \A s : CheckpointBytes(s) \in Nat
<1> TAKE s
<1>1. Cardinality(OpenJobs(s)) \in Nat
  BY JournalAssumption, FS_Subset, FS_CardinalityType DEF OpenJobs
<1>2. Cardinality(Answered(s)) \in Nat
  BY JournalAssumption, FS_Subset, FS_CardinalityType DEF OpenJobs, Answered
<1>3. Cardinality(Archived(s)) \in Nat
  BY JournalAssumption, FS_Subset, FS_CardinalityType DEF Archived
<1>4. JobBytes \in Nat /\ TailBytes \in Nat /\ EndedBytes \in Nat
  BY JournalAssumption
<1> QED BY <1>1, <1>2, <1>3, <1>4 DEF CheckpointBytes

LEMMA ReplayType == \A d \in Databases : Replay(d) \in Seq(Fact)
BY ConcatFacts DEF Databases, Replay

\* The records of a kind, counted.
LEMMA CountsAreFinite ==
  ASSUME NEW s \in Seq(Fact)
  PROVE  /\ IsFiniteSet({i \in 1..Len(s) : s[i].kind = "result"})
         /\ IsFiniteSet({i \in 1..Len(s) : s[i].kind # "result"})
<1>1. IsFiniteSet(1..Len(s))
  BY FS_Interval, SeqFacts
<1> QED BY <1>1, FS_Subset

LEMMA BytesType == \A d \in Databases : Bytes(d) \in Nat
<1> TAKE d \in Databases
<1>1. d.records \in Seq(Fact)
  BY DEF Databases
<1>2. /\ Cardinality({i \in 1..Len(d.records) : d.records[i].kind = "result"}) \in Nat
      /\ Cardinality({i \in 1..Len(d.records) : d.records[i].kind # "result"}) \in Nat
  BY <1>1, CountsAreFinite, FS_CardinalityType, Zenon
<1>3. TailBytes \in Nat
  BY JournalAssumption
<1> QED BY <1>2, <1>3, CheckpointBytesType DEF Bytes

LEMMA ConcatAppend ==
  ASSUME NEW s \in Seq(Fact), NEW t \in Seq(Fact), NEW f \in Fact
  PROVE  s \o Append(t, f) = Append(s \o t, f)
OBVIOUS

\* An appended record adds its own bytes and leaves every other count alone (append's
\* counters against open_owned's).
LEMMA AppendAdds ==
  ASSUME NEW d \in Databases, NEW f \in Fact
  PROVE  LET e == [d EXCEPT !.records = Append(@, f)] IN
           /\ e \in Databases
           /\ Bytes(e) = Bytes(d) + RecordBytes(f)
           /\ Len(e.records) = Len(d.records) + 1
           /\ Replay(e) = Append(Replay(d), f)
<1> DEFINE e == [d EXCEPT !.records = Append(@, f)]
           s == d.records
           t == e.records
           R(x) == {i \in 1..Len(x) : x[i].kind = "result"}
           O(x) == {i \in 1..Len(x) : x[i].kind # "result"}
<1>1. s \in Seq(Fact) /\ t = Append(s, f) /\ e.checkpoint = d.checkpoint /\ d.checkpoint \in Seq(Fact)
  BY DEF Databases
<1>2. t \in Seq(Fact) /\ Len(t) = Len(s) + 1 /\ t[Len(s) + 1] = f /\ \A i \in 1..Len(s) : t[i] = s[i]
  BY <1>1, AppendFacts
<1>3. Len(s) \in Nat
  BY <1>1, SeqFacts
<1>4. e \in Databases
  BY <1>1, <1>2, Zenon DEF Databases
<1>5. Replay(e) = Append(Replay(d), f)
  <2>1. Replay(e) = d.checkpoint \o Append(s, f) /\ Replay(d) = d.checkpoint \o s
    BY <1>1, Zenon DEF Replay
  <2>2. d.checkpoint \o Append(s, f) = Append(d.checkpoint \o s, f)
    BY <1>1, ConcatAppend, Zenon
  <2> QED BY <2>1, <2>2, Zenon
<1>6. IsFiniteSet(R(s)) /\ IsFiniteSet(O(s))
  BY <1>1, CountsAreFinite, Zenon
<1>7. Cardinality(R(s)) \in Nat /\ Cardinality(O(s)) \in Nat
  BY <1>6, FS_CardinalityType
<1>8. Len(s) + 1 \notin R(s) /\ Len(s) + 1 \notin O(s)
  BY <1>3
<1>9. Bytes(e) = Bytes(d) + RecordBytes(f)
  <2>1. CASE f.kind = "result"
    <3>1. R(t) = R(s) \cup {Len(s) + 1} /\ O(t) = O(s)
      BY <2>1, <1>2, <1>3
    <3>2. Cardinality(R(t)) = Cardinality(R(s)) + 1 /\ Cardinality(O(t)) = Cardinality(O(s))
      BY <3>1, <1>6, <1>8, FS_AddElement, Zenon
    <3>3. TailBytes * (Cardinality(R(s)) + 1) = TailBytes * Cardinality(R(s)) + TailBytes
      BY <1>7, JournalAssumption
    <3>4. TailBytes * Cardinality(R(s)) \in Nat
      BY <1>7, JournalAssumption
    <3>5. Bytes(e) = CheckpointBytes(d.checkpoint) + Cardinality(O(t)) + TailBytes * Cardinality(R(t))
      BY <1>1, Zenon DEF Bytes
    <3>6. Bytes(d) = CheckpointBytes(d.checkpoint) + Cardinality(O(s)) + TailBytes * Cardinality(R(s))
      BY DEF Bytes
    <3> HIDE DEF R, O, e, s, t
    <3> QED BY <2>1, <3>2, <3>3, <3>4, <3>5, <3>6, <1>7, CheckpointBytesType, JournalAssumption DEF RecordBytes
  <2>2. CASE f.kind # "result"
    <3>1. O(t) = O(s) \cup {Len(s) + 1} /\ R(t) = R(s)
      BY <2>2, <1>2, <1>3
    <3>2. Cardinality(O(t)) = Cardinality(O(s)) + 1 /\ Cardinality(R(t)) = Cardinality(R(s))
      BY <3>1, <1>6, <1>8, FS_AddElement, Zenon
    <3>4. TailBytes * Cardinality(R(s)) \in Nat
      BY <1>7, JournalAssumption
    <3>5. Bytes(e) = CheckpointBytes(d.checkpoint) + Cardinality(O(t)) + TailBytes * Cardinality(R(t))
      BY <1>1, Zenon DEF Bytes
    <3>6. Bytes(d) = CheckpointBytes(d.checkpoint) + Cardinality(O(s)) + TailBytes * Cardinality(R(s))
      BY DEF Bytes
    <3> HIDE DEF R, O, e, s, t
    <3> QED BY <2>2, <3>2, <3>4, <3>5, <3>6, <1>7, CheckpointBytesType DEF RecordBytes
  <2> QED BY <2>1, <2>2
<1> QED BY <1>2, <1>4, <1>5, <1>9, Zenon

\* A rotation replaces the records by a checkpoint of the state they replay to: the bytes
\* are the checkpoint's, and a replay gives the same facts.
LEMMA RotationCarries ==
  ASSUME NEW d \in Databases, d.generation < MaxGeneration
  PROVE  LET e == [generation |-> d.generation + 1, checkpoint |-> Replay(d), records |-> <<>>] IN
           /\ e \in Databases
           /\ Bytes(e) = CheckpointBytes(Replay(d))
           /\ Len(e.records) = 0
           /\ Replay(e) = Replay(d)
<1> DEFINE e == [generation |-> d.generation + 1, checkpoint |-> Replay(d), records |-> <<>>]
<1>1. e \in Databases
  BY ReplayType, JournalAssumption DEF Databases
<1>2. Replay(e) = Replay(d)
  BY ReplayType, ConcatFacts, Zenon DEF Replay
<1>3. Len(e.records) = 0
  OBVIOUS
<1>4. /\ {i \in 1..Len(e.records) : e.records[i].kind # "result"} = {}
      /\ {i \in 1..Len(e.records) : e.records[i].kind = "result"} = {}
  BY <1>3
<1>5. Bytes(e) = CheckpointBytes(Replay(d)) + 0 + TailBytes * 0
  BY <1>4, FS_EmptySet DEF Bytes
<1> QED BY <1>1, <1>2, <1>3, <1>5, CheckpointBytesType, JournalAssumption

LEMMA OpenedType == \A d \in Databases : Opened(d) \in Handles /\ Marked(d) \in Handles
BY ReplayType, BytesType, SeqFacts DEF Databases, Opened, Marked, Handles

LEMMA HandlesEqual ==
  ASSUME NEW j \in Handles, NEW k \in Handles, j.poisoned = k.poisoned,
         j.generation = k.generation, j.records = k.records, j.bytes = k.bytes, j.state = k.state
  PROVE  j = k
BY DEF Handles

\* The counters a commit keeps in memory are the ones a replay would find: after an
\* append, and after a rotation.
LEMMA RecordedIs ==
  ASSUME NEW d \in Databases, NEW e \in Databases, NEW f \in Fact,
         e.generation = d.generation,
         Len(e.records) = Len(d.records) + 1, Bytes(e) = Bytes(d) + RecordBytes(f), Replay(e) = Append(Replay(d), f)
  PROVE  Recorded(Marked(d), f) = Opened(e)
<1> DEFINE j == Recorded(Marked(d), f)
<1>1. Marked(d) \in Handles /\ Opened(e) \in Handles
  BY OpenedType
<1>2. /\ j.poisoned = FALSE /\ j.generation = d.generation /\ j.records = Len(d.records) + 1
      /\ j.bytes = Bytes(d) + RecordBytes(f) /\ j.state = Append(Replay(d), f)
  BY DEF Recorded, Marked
<1>3. j \in Handles
  <2>1. Marked(d).records + 1 \in Nat
    BY <1>1 DEF Handles
  <2>2. RecordBytes(f) \in Nat
    BY JournalAssumption DEF RecordBytes
  <2>3. Marked(d).bytes + RecordBytes(f) \in Nat
    BY <1>1, <2>2 DEF Handles
  <2>4. Append(Marked(d).state, f) \in Seq(Fact)
    BY <1>1 DEF Handles
  <2> QED BY <1>1, <2>1, <2>3, <2>4, Zenon DEF Recorded, Handles
<1>4. j = Opened(e)
  <2> HIDE DEF j
  <2>1. /\ Opened(e).poisoned = FALSE /\ Opened(e).generation = e.generation
        /\ Opened(e).records = Len(e.records) /\ Opened(e).bytes = Bytes(e)
        /\ Opened(e).state = Replay(e)
    BY DEF Opened
  <2> QED BY <1>1, <1>2, <1>3, <2>1, HandlesEqual, Zenon
<1> QED BY <1>4

LEMMA CarriedIs ==
  ASSUME NEW d \in Databases, NEW e \in Databases, e.generation = d.generation + 1, Len(e.records) = 0,
         Bytes(e) = CheckpointBytes(Replay(d)), Replay(e) = Replay(d)
  PROVE  Carried(Marked(d)) = Opened(e)
<1> DEFINE j == Carried(Marked(d))
<1>1. Marked(d) \in Handles /\ Opened(e) \in Handles
  BY OpenedType
<1>2. /\ j.poisoned = FALSE /\ j.generation = d.generation + 1 /\ j.records = 0
      /\ j.bytes = CheckpointBytes(Replay(d)) /\ j.state = Replay(d)
  BY DEF Carried, Marked
<1>3. j \in Handles
  <2>1. Marked(d).generation + 1 \in 0..MaxGeneration
    BY <1>1 DEF Databases, Marked
  <2>2. Marked(d).state = Replay(d)
    BY DEF Marked
  <2> QED BY <1>1, <2>1, <2>2, CheckpointBytesType, Zenon DEF Carried, Handles
<1>4. j = Opened(e)
  <2> HIDE DEF j
  <2>1. /\ Opened(e).poisoned = FALSE /\ Opened(e).generation = e.generation
        /\ Opened(e).records = Len(e.records) /\ Opened(e).bytes = Bytes(e)
        /\ Opened(e).state = Replay(e)
    BY DEF Opened
  <2> QED BY <1>1, <1>2, <1>3, <2>1, HandlesEqual, Zenon
<1> QED BY <1>4

LEMMA AnswerType ==
  \A a \in {"none", "ok", "error"} :
    Answer(a) \in [op : {"none", "append", "rotate", "ok", "error"},
                  fact : Fact \cup {NoFact}, state : Seq(Fact)]
BY DEF Answer, Statement

LEMMA AnswerOp == \A a : Answer(a).op = a
BY DEF Answer, Statement

\* A worker with nothing to do, and an owner that waits for nothing
LEMMA AtRest ==
  /\ Quiet.op = "none" /\ Idle.step = "idle"
  /\ Quiet \in [op : {"none", "append", "rotate", "ok", "error"}, fact : Fact \cup {NoFact}, state : Seq(Fact)]
  /\ Idle \in [step : {"idle", "append", "rotate"}, fact : Fact \cup {NoFact}]
<1>1. Quiet.op = "none" /\ Idle.step = "idle"
  BY DEF Quiet, Idle, Answer, Statement
<1>2. Idle \in [step : {"idle", "append", "rotate"}, fact : Fact \cup {NoFact}]
  BY DEF Idle
<1> QED BY <1>1, <1>2, AnswerType DEF Quiet

-----------------------------------------------------------------------------
(* Steps that several actions share: the owner's handle has caught up with *)
(* the database, and it goes on.                                           *)

Caught == phase = "open" /\ UNCHANGED <<disk, phase, crashes>> /\ old' \in {{}, old}

LEMMA OldShrinks ==
  ASSUME IInv, UNCHANGED <<disk, known>>, old' \in {{}, old}
  PROVE  Recoverable'
BY DEF IInv, Recoverable, Bounded, Rewinds

LEMMA StutterKeeps == ASSUME IInv, UNCHANGED vars PROVE IInv'
<1>1. TypeOK' /\ StatementFits'
  BY DEF vars, IInv, TypeOK, StatementFits
<1>2. Waiting' /\ Owned' /\ ViewIsDurable'
  BY DEF vars, IInv, Waiting, Owned, ViewIsDurable, Usable
<1>3. Recoverable'
  BY OldShrinks DEF vars
<1> QED BY <1>1, <1>2, <1>3 DEF IInv

\* StartAppend leaves the owner waiting for a statement that fits.
LEMMA AppendStarts ==
  ASSUME IInv, Caught, UNCHANGED known, NEW f \in Fact, StartAppend(Opened(disk), f)
  PROVE  IInv'
<1> USE DEF IInv, Caught
<1>1. Opened(disk) \in Handles
  BY OpenedType DEF TypeOK
<1>2. handle' = Marked(disk) /\ worker' = Insert(f) /\ doing' = [step |-> "append", fact |-> f]
  BY Zenon DEF StartAppend, Marked, Opened
<1>3. Len(disk.records) < MaxFrames /\ Bytes(disk) + RecordBytes(f) <= MaxBytes
  <2>1. Len(disk.records) \in Nat
    BY SeqFacts DEF TypeOK, Databases
  <2>2. Bytes(disk) \in Nat
    BY BytesType DEF TypeOK
  <2>3. RecordBytes(f) \in Nat
    BY JournalAssumption DEF RecordBytes
  <2>4. ~(Len(disk.records) >= MaxFrames) /\ ~(Bytes(disk) + RecordBytes(f) > MaxBytes)
    BY DEF StartAppend, Full, Opened
  <2>5. MaxFrames \in Nat /\ MaxBytes \in Nat
    BY JournalAssumption
  <2> QED BY <2>1, <2>2, <2>3, <2>4, <2>5
<1>4. TypeOK'
  BY <1>2, OpenedType DEF TypeOK, Insert, Statement
<1>5. StatementFits'
  BY <1>2, <1>3 DEF StatementFits, Insert, Statement
<1>6. Waiting'
  BY <1>2, Zenon DEF Waiting, Insert, Statement, Idle, Marked
<1>7. Owned' /\ ViewIsDurable'
  BY <1>2 DEF Owned, ViewIsDurable, Usable, Marked, Opened
<1>8. Recoverable'
  BY OldShrinks
<1> QED BY <1>4, <1>5, <1>6, <1>7, <1>8

\* StartRotation leaves it waiting for a checkpoint of exactly what is on disk.
LEMMA RotationStarts ==
  ASSUME IInv, Caught, UNCHANGED known, NEW f \in Fact \cup {NoFact},
         CanRotate(Opened(disk)), StartRotation(Opened(disk), f)
  PROVE  IInv'
<1> USE DEF IInv, Caught
<1>1. /\ handle' = Marked(disk) /\ worker' = Replace(Replay(disk))
      /\ doing' = [step |-> "rotate", fact |-> f]
  BY Zenon DEF StartRotation, Marked, Opened
<1>2. disk.generation < MaxGeneration /\ CheckpointBytes(Replay(disk)) <= MaxCheckpoint
  BY DEF CanRotate, Opened
<1>3. TypeOK'
  BY <1>1, OpenedType, ReplayType DEF TypeOK, Replace, Statement
<1>4. StatementFits'
  BY <1>1, <1>2 DEF StatementFits, Replace, Statement
<1>5. Waiting'
  BY <1>1, Zenon DEF Waiting, Replace, Statement, Idle, Marked
<1>6. Owned' /\ ViewIsDurable'
  BY <1>1 DEF Owned, ViewIsDurable, Usable, Marked, Opened
<1>7. Recoverable'
  BY OldShrinks
<1> QED BY <1>3, <1>4, <1>5, <1>6, <1>7

\* Return hands the owner a handle that knows what is on disk.
LEMMA Returns ==
  ASSUME IInv, Caught, Return(Opened(disk))
  PROVE  IInv'
<1> USE DEF IInv, Caught
<1>1. handle' = Opened(disk) /\ worker' = Quiet /\ doing' = Idle /\ known' = Len(Replay(disk))
  BY DEF Return, Opened
<1>2. Len(Replay(disk)) \in Nat
  BY ReplayType, SeqFacts DEF TypeOK
<1>3. TypeOK'
  BY <1>1, <1>2, OpenedType DEF TypeOK, Quiet, Answer, Statement, Idle
<1>4. StatementFits' /\ Waiting'
  BY <1>1, Zenon DEF StatementFits, Waiting, Quiet, Answer, Statement, Idle
<1>5. Owned' /\ ViewIsDurable'
  BY <1>1, Zenon DEF Owned, ViewIsDurable, Usable, Opened
<1>6. Recoverable'
  BY <1>1, <1>2 DEF Recoverable, Bounded, Rewinds
<1> QED BY <1>3, <1>4, <1>5, <1>6

-----------------------------------------------------------------------------
(* Every step keeps the invariant.                                         *)

LEMMA InitIInv == Init => IInv
<1> SUFFICES ASSUME Init PROVE IInv
  OBVIOUS
<1>1. disk \in Databases
  BY JournalAssumption DEF Init, Databases
<1>2. Replay(disk) = <<>> /\ Len(Replay(disk)) = 0
  BY DEF Init, Replay
<1>3. Bytes(disk) <= MaxBytes
  <2>1. /\ {i \in 1..Len(disk.records) : disk.records[i].kind # "result"} = {}
        /\ {i \in 1..Len(disk.records) : disk.records[i].kind = "result"} = {}
    BY DEF Init
  <2>2. OpenJobs(<<>>) = {} /\ Answered(<<>>) = {} /\ Archived(<<>>) = {}
    BY DEF OpenJobs, Answered, Archived, Holds
  <2>3. CheckpointBytes(<<>>) = JobBytes * 0 + TailBytes * 0 + EndedBytes * 0
    BY <2>2, FS_EmptySet, Zenon DEF CheckpointBytes
  <2>4. Bytes(disk) = CheckpointBytes(<<>>) + 0 + TailBytes * 0
    BY <2>1, FS_EmptySet DEF Bytes, Init
  <2> QED BY <2>3, <2>4, JournalAssumption
<1>4. TypeOK
  BY <1>1, OpenedType, JournalAssumption
     DEF Init, TypeOK, Idle, Quiet, Answer, Statement
<1>5. StatementFits /\ Waiting
  BY DEF Init, StatementFits, Waiting, Idle, Quiet, Answer, Statement
<1>6. Owned /\ ViewIsDurable
  BY DEF Init, Owned, ViewIsDurable, Usable
<1>7. Recoverable
  <2>1. Bounded(disk)
    BY <1>3, JournalAssumption DEF Init, Bounded
  <2>2. Rewinds(disk)
    BY <1>2 DEF Rewinds
  <2> QED BY <1>2, <2>1, <2>2 DEF Init, Recoverable
<1> QED BY <1>4, <1>5, <1>6, <1>7 DEF IInv

LEMMA CommitKeeps == ASSUME IInv, NEW f \in Fact, Commit(f) PROVE IInv'
<1>1. handle = Opened(disk) /\ Caught /\ UNCHANGED known
  BY DEF Commit, IInv, ViewIsDurable, Usable, Caught
<1>2. CASE AtSoftLimit(handle) /\ CanRotate(handle)
  BY <1>1, <1>2, RotationStarts DEF Commit
<1>3. CASE ~(AtSoftLimit(handle) /\ CanRotate(handle))
  BY <1>1, <1>3, AppendStarts DEF Commit
<1> QED BY <1>2, <1>3

LEMMA RotateKeeps == ASSUME IInv, Rotate PROVE IInv'
<1>1. handle = Opened(disk) /\ Caught /\ UNCHANGED known
  BY DEF Rotate, IInv, ViewIsDurable, Usable, Caught
<1> QED BY <1>1, RotationStarts DEF Rotate

LEMMA AppendedKeeps == ASSUME IInv, Appended PROVE IInv'
<1>1. Recorded(handle, doing.fact) = Opened(disk) /\ doing.fact \in Fact
  BY DEF Appended, IInv, Waiting
<1>2. Caught
  BY DEF Appended, IInv, Owned, Idle, TypeOK, Caught
<1>3. CASE RotatesAfter(Opened(disk), doing.fact)
  BY <1>1, <1>2, <1>3, RotationStarts DEF Appended, RotatesAfter
<1>4. CASE ~RotatesAfter(Opened(disk), doing.fact)
  BY <1>1, <1>2, <1>4, Returns DEF Appended
<1> QED BY <1>3, <1>4

LEMMA RotatedKeeps == ASSUME IInv, Rotated PROVE IInv'
<1>1. Carried(handle) = Opened(disk)
  BY DEF Rotated, IInv, Waiting
<1>2. Caught
  BY DEF Rotated, IInv, Owned, Idle, TypeOK, Caught
<1>3. CASE doing.fact # NoFact /\ ~Full(Opened(disk), doing.fact)
  <2>1. doing.fact \in Fact
    BY <1>3 DEF IInv, TypeOK
  <2> QED BY <1>1, <1>2, <1>3, <2>1, AppendStarts DEF Rotated
<1>4. CASE ~(doing.fact # NoFact /\ ~Full(Opened(disk), doing.fact))
  BY <1>1, <1>2, <1>4, Returns DEF Rotated
<1> QED BY <1>3, <1>4

LEMMA PrefixOfAppend ==
  ASSUME NEW s \in Seq(Fact), NEW f \in Fact, NEW n \in 0..Len(s)
  PROVE  SubSeq(Append(s, f), 1, n) = SubSeq(s, 1, n)
OBVIOUS

LEMMA WholePrefix == ASSUME NEW s \in Seq(Fact) PROVE SubSeq(s, 1, Len(s)) = s
BY WholeSequence

\* Whatever the worker commits, power can only take facts from its end.
LEMMA CommitsRewind ==
  ASSUME IInv, disk' \in Databases,
         \/ Replay(disk') = Replay(disk)
         \/ \E f \in Fact : Replay(disk') = Append(Replay(disk), f)
  PROVE  \A d \in old \cup {disk, disk'} :
           \E n \in 0..Len(Replay(disk')) : Replay(d) = SubSeq(Replay(disk'), 1, n)
<1>1. Replay(disk) \in Seq(Fact) /\ Replay(disk') \in Seq(Fact)
  BY ReplayType DEF IInv, TypeOK
<1>2. Len(Replay(disk)) \in Nat /\ Len(Replay(disk')) \in Nat
  BY <1>1, SeqFacts
<1>3. \A d \in old \cup {disk} :
        \E n \in 0..Len(Replay(disk)) : Replay(d) = SubSeq(Replay(disk), 1, n)
  BY DEF IInv, Recoverable, Rewinds
<1>4. Replay(disk') = SubSeq(Replay(disk'), 1, Len(Replay(disk')))
  BY <1>1, WholePrefix
<1>5. CASE Replay(disk') = Replay(disk)
  BY <1>3, <1>5
<1>6. ASSUME NEW f \in Fact, Replay(disk') = Append(Replay(disk), f)
      PROVE  \A d \in old \cup {disk} :
               \E n \in 0..Len(Replay(disk')) : Replay(d) = SubSeq(Replay(disk'), 1, n)
  <2> TAKE d \in old \cup {disk}
  <2>1. PICK n \in 0..Len(Replay(disk)) : Replay(d) = SubSeq(Replay(disk), 1, n)
    BY <1>3
  <2>2. Len(Replay(disk')) = Len(Replay(disk)) + 1
    BY <1>1, <1>6, AppendFacts
  <2>3. Replay(d) = SubSeq(Replay(disk'), 1, n)
    BY <1>1, <1>6, <2>1, PrefixOfAppend
  <2> QED BY <1>2, <2>2, <2>3
<1>7. \A d \in old \cup {disk} :
        \E n \in 0..Len(Replay(disk')) : Replay(d) = SubSeq(Replay(disk'), 1, n)
  BY <1>5, <1>6
<1>8. \E n \in 0..Len(Replay(disk')) : Replay(disk') = SubSeq(Replay(disk'), 1, n)
  <2>1. Len(Replay(disk')) \in 0..Len(Replay(disk'))
    BY <1>2
  <2> QED BY <1>4, <2>1, Zenon
<1> QED BY <1>7, <1>8

LEMMA WorkerCommitsKeeps == ASSUME IInv, WorkerCommits PROVE IInv'
<1> USE DEF IInv
<1>1. disk \in Databases
  BY DEF TypeOK
<1>2. /\ disk' \in Databases
      /\ Bounded(disk')
      /\ \/ Replay(disk') = Replay(disk)
         \/ \E f \in Fact : Replay(disk') = Append(Replay(disk), f)
      /\ doing.step = "append" => Recorded(handle, doing.fact) = Opened(disk')
      /\ doing.step = "rotate" => Carried(handle) = Opened(disk')
      /\ Len(Replay(disk)) <= Len(Replay(disk'))
  <2>1. CASE worker.op = "append"
    <3>1. worker.fact \in Fact /\ disk' = [disk EXCEPT !.records = Append(@, worker.fact)]
      BY <2>1 DEF StatementFits, WorkerCommits, Installed
    <3>2. /\ disk' \in Databases
          /\ Bytes(disk') = Bytes(disk) + RecordBytes(worker.fact)
          /\ Len(disk'.records) = Len(disk.records) + 1
          /\ Replay(disk') = Append(Replay(disk), worker.fact)
          /\ disk'.generation = disk.generation
      <4>1. disk'.generation = disk.generation
        BY <1>1, <3>1 DEF Databases
      <4> QED BY <1>1, <3>1, <4>1, AppendAdds, Zenon
    <3>3. Bounded(disk')
      <4>1. Len(disk.records) < MaxFrames /\ Bytes(disk) + RecordBytes(worker.fact) <= MaxBytes
        BY <2>1 DEF StatementFits
      <4>2. Len(disk.records) \in Nat
        BY <1>1, SeqFacts DEF Databases
      <4> QED BY <3>2, <4>1, <4>2, JournalAssumption DEF Bounded
    <3>4. doing.step = "append" => Recorded(handle, doing.fact) = Opened(disk')
      <4> HAVE doing.step = "append"
      <4>1. handle = Marked(disk) /\ worker = Insert(doing.fact)
        BY <2>1 DEF Waiting
      <4>2. worker.fact = doing.fact
        BY <4>1 DEF Insert, Statement
      <4>3. Recorded(Marked(disk), worker.fact) = Opened(disk')
        BY <1>1, <3>1, <3>2, RecordedIs, Zenon
      <4> QED BY <4>1, <4>2, <4>3
    <3>5. doing.step # "rotate"
      BY <2>1 DEF Waiting
    <3>6. Len(Replay(disk')) = Len(Replay(disk)) + 1 /\ Len(Replay(disk)) \in Nat
      BY <1>1, <3>1, <3>2, ReplayType, AppendFacts, SeqFacts
    <3>7. \E f \in Fact : Replay(disk') = Append(Replay(disk), f)
      BY <3>1, <3>2, Zenon
    <3>8. Len(Replay(disk)) <= Len(Replay(disk'))
      BY <3>6
    <3> QED BY <3>2, <3>3, <3>4, <3>5, <3>7, <3>8
  <2>2. CASE worker.op = "rotate"
    <3>1. /\ disk.generation < MaxGeneration
          /\ disk' = [generation |-> disk.generation + 1, checkpoint |-> Replay(disk), records |-> <<>>]
      BY <2>2 DEF StatementFits, WorkerCommits, Installed
    <3>2. /\ disk' \in Databases
          /\ Bytes(disk') = CheckpointBytes(Replay(disk))
          /\ Len(disk'.records) = 0
          /\ Replay(disk') = Replay(disk)
          /\ disk'.generation = disk.generation + 1
      <4>1. disk'.generation = disk.generation + 1
        BY <3>1
      <4> QED BY <1>1, <3>1, <4>1, RotationCarries
    <3>3. Bounded(disk')
      <4>1. CheckpointBytes(Replay(disk)) <= MaxCheckpoint
        BY <2>2 DEF StatementFits
      <4> QED BY <3>2, <4>1, CheckpointBytesType, JournalAssumption DEF Bounded
    <3>4. doing.step = "rotate" => Carried(handle) = Opened(disk')
      <4> HAVE doing.step = "rotate"
      <4>1. handle = Marked(disk)
        BY <2>2 DEF Waiting
      <4> QED BY <1>1, <3>2, <4>1, CarriedIs
    <3>5. doing.step # "append"
      BY <2>2 DEF Waiting
    <3>6. Len(Replay(disk)) \in Nat
      BY <1>1, ReplayType, SeqFacts
    <3> QED BY <3>2, <3>3, <3>4, <3>5, <3>6
  <2> QED BY <2>1, <2>2 DEF WorkerCommits
<1>3. /\ worker' \in {Answer("ok"), Answer("error")}
      /\ UNCHANGED <<phase, handle, doing, known, crashes>>
      /\ old' = IF Flushes THEN {} ELSE old \cup {disk}
      /\ worker'.op \in {"ok", "error"}
  BY AnswerOp DEF WorkerCommits
<1>4. TypeOK'
  <2>1. old' \subseteq Databases
    BY <1>1, <1>3 DEF TypeOK
  <2>2. worker' \in [op : {"none", "append", "rotate", "ok", "error"},
                    fact : Fact \cup {NoFact}, state : Seq(Fact)]
    BY <1>3, AnswerType
  <2> QED BY <1>2, <1>3, <2>1, <2>2, Zenon DEF TypeOK
<1>5. StatementFits'
  BY <1>3 DEF StatementFits
<1>6. Waiting'
  BY <1>2, <1>3 DEF Waiting
<1>7. Owned' /\ ViewIsDurable'
  BY <1>3, AtRest DEF WorkerCommits, Owned, ViewIsDurable, Usable
<1>8. Recoverable'
  <2>1. \A d \in old \cup {disk, disk'} :
          \E n \in 0..Len(Replay(disk')) : Replay(d) = SubSeq(Replay(disk'), 1, n)
    BY <1>2, CommitsRewind
  <2>2. \A d \in old \cup {disk, disk'} : Bounded(d)
    BY <1>2 DEF Recoverable
  <2>3. known' <= Len(Replay(disk'))
    <3>1. known \in Nat /\ known <= Len(Replay(disk))
      BY DEF TypeOK, Recoverable
    <3>2. Len(Replay(disk)) \in Nat /\ Len(Replay(disk')) \in Nat
      BY <1>1, <1>2, ReplayType, SeqFacts
    <3> QED BY <1>2, <1>3, <3>1, <3>2
  <2>4. Flushes => old' = {}
    BY <1>3
  <2>5. old' \cup {disk'} \subseteq old \cup {disk, disk'}
    BY <1>3
  <2> QED BY <2>1, <2>2, <2>3, <2>4, <2>5 DEF Recoverable, Bounded, Rewinds
<1> QED BY <1>4, <1>5, <1>6, <1>7, <1>8

\* The steps that touch neither the database nor what power may bring back.
LEMMA FailedKeeps == ASSUME IInv, Failed PROVE IInv'
<1> USE DEF IInv, Failed
<1>1. phase = "open" /\ handle.poisoned
  BY DEF Owned, Usable, TypeOK
<1>2. worker' = Quiet /\ doing' = Idle /\ Quiet.op = "none" /\ Idle.step = "idle"
  BY AtRest
<1>3. TypeOK'
  BY <1>2, AtRest, Zenon DEF TypeOK
<1>4. StatementFits' /\ Waiting'
  BY <1>2, Zenon DEF StatementFits, Waiting
<1>5. Owned' /\ ViewIsDurable'
  BY <1>1, <1>2 DEF Owned, ViewIsDurable, Usable
<1>6. Recoverable'
  BY OldShrinks
<1> QED BY <1>3, <1>4, <1>5, <1>6

LEMMA CancelKeeps == ASSUME IInv, Cancel PROVE IInv'
<1> USE DEF IInv, Cancel
<1>1. phase = "open" /\ handle.poisoned
  BY DEF Owned, Usable, TypeOK
<1>2. doing' = Idle /\ Idle.step = "idle"
  BY DEF Idle
<1>3. TypeOK'
  BY <1>2 DEF TypeOK, Idle
<1>4. StatementFits' /\ Waiting'
  BY <1>2, Zenon DEF StatementFits, Waiting
<1>5. Owned' /\ ViewIsDurable'
  BY <1>1, <1>2 DEF Owned, ViewIsDurable, Usable
<1>6. Recoverable'
  BY OldShrinks
<1> QED BY <1>3, <1>4, <1>5, <1>6

LEMMA QuietKeeps ==
  ASSUME IInv, WorkerFails \/ Discard \/ Close \/ Release
  PROVE  IInv'
<1> USE DEF IInv
<1>1. UNCHANGED <<disk, old, handle, doing, known, crashes>>
  BY DEF WorkerFails, Discard, Close, Release
<1>2. worker' = worker \/ worker' = Answer("error") \/ worker' = Quiet
  BY DEF WorkerFails, Discard, Close, Release
<1>3. phase' \in {"closed", "open", "closing"}
  BY DEF WorkerFails, Discard, Close, Release, TypeOK
<1>4. TypeOK'
  BY <1>1, <1>2, <1>3, AnswerType, AtRest, Zenon DEF TypeOK
<1>5. StatementFits'
  BY <1>1, <1>2, AtRest, AnswerOp DEF StatementFits
<1>6. Waiting'
  <2>1. CASE WorkerFails
    BY <2>1, <1>1, AnswerOp DEF WorkerFails, Waiting
  <2>2. CASE Discard
    BY <2>2, <1>1 DEF Discard, Waiting, Idle
  <2>3. CASE Close \/ Release
    BY <2>3, <1>1 DEF Close, Release, Waiting
  <2> QED BY <2>1, <2>2, <2>3
<1>7. Owned' /\ ViewIsDurable'
  <2>1. CASE WorkerFails
    BY <2>1, <1>1, AtRest DEF WorkerFails, Owned, ViewIsDurable, Usable
  <2>2. CASE Discard
    BY <2>2, <1>1 DEF Discard, Owned, ViewIsDurable, Usable
  <2>3. CASE Close \/ Release
    BY <2>3, <1>1 DEF Close, Release, Owned, ViewIsDurable, Usable
  <2> QED BY <2>1, <2>2, <2>3
<1>8. Recoverable'
  BY <1>1, OldShrinks
<1> QED BY <1>4, <1>5, <1>6, <1>7, <1>8

LEMMA OpenKeeps == ASSUME IInv, Open PROVE IInv'
<1> USE DEF IInv, Open
<1>1. Len(Replay(disk)) \in Nat
  BY ReplayType, SeqFacts DEF TypeOK
<1>2. TypeOK'
  BY <1>1, OpenedType DEF TypeOK
<1>3. StatementFits' /\ Waiting'
  BY AtRest, Zenon DEF StatementFits, Waiting, Owned
<1>4. Owned' /\ ViewIsDurable'
  BY DEF Owned, ViewIsDurable, Usable
<1>5. Recoverable'
  BY <1>1 DEF Recoverable, Bounded, Rewinds
<1> QED BY <1>2, <1>3, <1>4, <1>5

\* What is true of a process that has just died.
LEMMA DeadKeeps ==
  ASSUME IInv, crashes < MaxCrashes, crashes' = crashes + 1, UNCHANGED handle,
         phase' = "closed", doing' = Idle, worker' = Quiet, Recoverable',
         disk' \in Databases, old' \subseteq Databases, known' \in Nat
  PROVE  IInv'
<1>1. crashes' \in 0..MaxCrashes
  BY JournalAssumption DEF IInv, TypeOK
<1>2. TypeOK'
  BY <1>1, AtRest, Zenon DEF IInv, TypeOK
<1>3. StatementFits'
  BY AtRest DEF StatementFits
<1>4. Waiting'
  BY AtRest DEF Waiting
<1>5. Owned' /\ ViewIsDurable'
  BY DEF Owned, ViewIsDurable, Usable
<1> QED BY <1>2, <1>3, <1>4, <1>5, Zenon DEF IInv

LEMMA CrashKeeps == ASSUME IInv, Crash PROVE IInv'
<1>1. Recoverable'
  BY OldShrinks DEF Crash
<1> QED BY <1>1, DeadKeeps, Zenon DEF Crash, IInv, TypeOK

LEMMA PowerLossKeeps == ASSUME IInv, PowerLoss PROVE IInv'
<1>1. disk' \in Databases /\ Bounded(disk') /\ old' = {}
  BY DEF PowerLoss, IInv, TypeOK, Recoverable
<1>2. Replay(disk') \in Seq(Fact) /\ Len(Replay(disk')) \in Nat
  BY <1>1, ReplayType, SeqFacts
<1>3. known' \in Nat /\ known' <= Len(Replay(disk'))
  BY <1>2 DEF PowerLoss, IInv, TypeOK
<1>4. \E n \in 0..Len(Replay(disk')) : Replay(disk') = SubSeq(Replay(disk'), 1, n)
  <2>1. Len(Replay(disk')) \in 0..Len(Replay(disk'))
    BY <1>2
  <2>2. Replay(disk') = SubSeq(Replay(disk'), 1, Len(Replay(disk')))
    BY <1>2, WholePrefix
  <2> QED BY <2>1, <2>2, Zenon
<1>5. Recoverable'
  BY <1>1, <1>3, <1>4 DEF Recoverable, Bounded, Rewinds
<1> QED BY <1>1, <1>3, <1>5, DeadKeeps DEF PowerLoss

LEMMA NextIInv == IInv /\ [Next]_vars => IInv'
<1> SUFFICES ASSUME IInv, [Next]_vars PROVE IInv'
  OBVIOUS
<1>1. CASE UNCHANGED vars
  BY <1>1, StutterKeeps
<1>2. CASE Next
  BY <1>2, OpenKeeps, CommitKeeps, RotateKeeps, WorkerCommitsKeeps, QuietKeeps, AppendedKeeps,
     RotatedKeeps, FailedKeeps, CancelKeeps, CrashKeeps, PowerLossKeeps DEF Next
<1> QED BY <1>1, <1>2

-----------------------------------------------------------------------------
(* The theorems.                                                           *)

THEOREM Invariance == Spec => []IInv
BY InitIInv, NextIInv, PTL DEF Spec

\* The variables stay in their types for any limits, jobs and number of crashes.
THEOREM JournalTypes == Spec => []TypeOK
<1>1. IInv => TypeOK
  BY DEF IInv
<1> QED BY <1>1, Invariance, PTL

\* A handle that check_authority lets through knows exactly what is on disk, whatever was
\* cancelled, failed or crashed before it was opened (Journal::append, rotate, open_owned).
THEOREM ViewsAreDurable == Spec => []ViewIsDurable
<1>1. IInv => ViewIsDurable
  BY DEF IInv
<1> QED BY <1>1, Invariance, PTL

\* No generation outgrows MAX_ACTIVE_FRAMES and MAX_ACTIVE_JOURNAL_BYTES, the statements of
\* cancelled commits included.
THEOREM ReplaysAreBounded == Spec => []ReplayIsBounded
<1>1. IInv => ReplayIsBounded
  BY DEF IInv, Recoverable, Bounded, ReplayIsBounded
<1> QED BY <1>1, Invariance, PTL

LEMMA InitRefines == Init => Log!Init
BY DEF Init, Log!Init, Replay

\* Committing a record grows the log; committing a rotation leaves it as it was.
LEMMA WorkerRefines ==
  ASSUME IInv, WorkerCommits
  PROVE  Log!Grow \/ UNCHANGED Log!vars
<1>1. disk \in Databases
  BY DEF IInv, TypeOK
<1>2. CASE worker.op = "append"
  <2>1. worker.fact \in Fact /\ disk' = [disk EXCEPT !.records = Append(@, worker.fact)]
    BY <1>2 DEF IInv, StatementFits, WorkerCommits, Installed
  <2>2. Replay(disk') = Append(Replay(disk), worker.fact)
    BY <1>1, <2>1, AppendAdds, Zenon
  <2> QED BY <2>1, <2>2, Zenon DEF Log!Grow, WorkerCommits
<1>3. CASE worker.op = "rotate"
  <2>1. /\ disk.generation < MaxGeneration
        /\ disk' = [generation |-> disk.generation + 1, checkpoint |-> Replay(disk), records |-> <<>>]
    BY <1>3 DEF IInv, StatementFits, WorkerCommits, Installed
  <2>2. Replay(disk') = Replay(disk)
    BY <1>1, <2>1, RotationCarries
  <2> QED BY <2>2 DEF Log!vars, WorkerCommits
<1> QED BY <1>2, <1>3 DEF WorkerCommits

\* Power takes nothing from a store that flushes, and facts from the end from one that does not.
LEMMA PowerLossRefines ==
  ASSUME IInv, PowerLoss
  PROVE  Log!Lose \/ UNCHANGED Log!vars
<1>1. known \in Nat /\ known <= Len(Replay(disk)) /\ Len(Replay(disk)) \in Nat
  BY ReplayType, SeqFacts DEF IInv, TypeOK, Recoverable
<1>2. CASE Flushes
  <2>1. disk' = disk
    BY <1>2 DEF IInv, Recoverable, PowerLoss
  <2> QED BY <1>1, <2>1 DEF PowerLoss, Log!vars
<1>3. CASE ~Flushes
  <2>1. PICK n \in 0..Len(Replay(disk)) : Replay(disk') = SubSeq(Replay(disk), 1, n)
    BY DEF IInv, Recoverable, Rewinds, PowerLoss
  <2>2. Len(Replay(disk')) = n
    BY <1>1, <2>1, ReplayType DEF IInv, TypeOK
  <2> QED BY <1>3, <2>1, <2>2 DEF Log!Lose, PowerLoss
<1> QED BY <1>2, <1>3

LEMMA NextRefines == IInv /\ [Next]_vars => [Log!Next]_Log!vars
<1> SUFFICES ASSUME IInv, [Next]_vars PROVE [Log!Next]_Log!vars
  OBVIOUS
<1>1. CASE UNCHANGED <<disk, known>>
  BY <1>1 DEF Log!vars
<1>2. CASE Open
  BY <1>2 DEF Open, Log!Next, Log!Acknowledge
<1>3. CASE WorkerCommits
  BY <1>3, WorkerRefines DEF Log!Next
<1>4. CASE Appended
  <2>1. Recorded(handle, doing.fact) = Opened(disk)
    BY <1>4 DEF Appended, IInv, Waiting
  <2> QED BY <1>4, <2>1 DEF Appended, Return, Opened, Log!Next, Log!Acknowledge, Log!vars
<1>5. CASE Rotated
  <2>1. Carried(handle) = Opened(disk)
    BY <1>5 DEF Rotated, IInv, Waiting
  <2> QED BY <1>5, <2>1 DEF Rotated, Return, Opened, Log!Next, Log!Acknowledge, Log!vars
<1>6. CASE PowerLoss
  BY <1>6, PowerLossRefines DEF Log!Next
<1>7. CASE \/ \E f \in Fact : Commit(f)
           \/ Rotate \/ WorkerFails \/ Failed \/ Cancel \/ Discard \/ Close \/ Release \/ Crash
  <2>1. UNCHANGED <<disk, known>>
    BY <1>7, Zenon DEF Commit, Rotate, WorkerFails, Failed, Cancel, Discard, Close, Release, Crash
  <2> QED BY <2>1, <1>1
<1>8. CASE UNCHANGED vars
  BY <1>8, <1>1 DEF vars
<1> QED BY <1>2, <1>3, <1>4, <1>5, <1>6, <1>7, <1>8 DEF Next

\* The journal is a durable log: rotations, cancelled commits, failed statements, crashes and
\* changes of owner change nothing a replay gives back, and where commits are flushed nothing
\* an owner has acted on is lost.
THEOREM JournalIsDurableLog == Spec => ImplementsDurableLog
BY InitRefines, NextRefines, Invariance, PTL DEF Spec, ImplementsDurableLog, Log!Spec

\* What an owner holds is what a replay of the disk gives, and no replay is unbounded.
THEOREM ViewsStayReplayable == Spec => []ViewsAreReplayable
BY JournalTypes, ViewsAreDurable, ReplaysAreBounded, PTL DEF ViewsAreReplayable
=============================================================================
