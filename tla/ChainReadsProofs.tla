-------------------------- MODULE ChainReadsProofs --------------------------
(***************************************************************************)
(* For any set of objects, any chain of states and any order of finalizing, *)
(* indexing, committing, publishing and reading: an answer is one state of  *)
(* the chain, the one it names.                                             *)
(***************************************************************************)
EXTENDS ChainReads, FiniteSetTheorems, TLAPS

Fields == {"phase", "op", "arg", "floor", "height", "objects", "todo", "answer"}

Values == {state[k] : state \in States, k \in Keys}

\* The query's own types
QueryOK ==
  /\ DOMAIN q = Fields
  /\ q.floor \in Nat /\ q.height \in Nat
  /\ q.todo \subseteq Keys
  /\ q.objects \in Seq(Keys \X Values)
  /\ q.op # "listing" => q.arg \in Nat

Shape ==
  /\ TypeOK
  /\ chain \in Seq(States)
  /\ DOMAIN indexed = {"from", "to"} /\ indexed.from \in Nat \ {0}
  /\ QueryOK

KeysOf(objects) == {objects[i][1] : i \in DOMAIN objects}

ReadAt(objects, state) == \A i \in DOMAIN objects : objects[i][2] = state[objects[i][1]]

\* Before the guard nothing has been read, and a floor is the caller's
Starting ==
  /\ q.phase \in {"asked", "floored"} => q.objects = <<>>
  /\ q.phase = "floored" => q.op \in FloorOps /\ q.floor = q.arg

\* Under the guard the height that was found is that of the state that is read, and
\* what a listing has not read yet is what is left of the owner's holdings
Reading ==
  q.phase = "reading" =>
    /\ q.height \in 0..committed /\ Root(q.height) = Root(committed)
    /\ ReadAt(q.objects, Root(committed))
    /\ q.op = "listing" =>
         KeysOf(q.objects) \cup q.todo = Holdings(Root(committed), q.arg)
    /\ q.op \in FloorOps => q.arg <= q.height

\* An answer stays what it was: the blocks below the tip never change
Done ==
  Answered /\ q.op \in {"objects", "proofs", "coin", "edge", "listing"} =>
    /\ q.height \in 0..committed
    /\ ReadAt(q.objects, Root(q.height))
    /\ q.op = "listing" => KeysOf(q.objects) = Holdings(Root(q.height), q.arg)

IInv == Shape /\ Starting /\ Reading /\ Done /\ NotBelowFloor /\ AppliedIsCommitted

---------------------------------------------------------------------------
\* Sequences
LEMMA SeqFacts ==
  ASSUME NEW S, NEW s \in Seq(S)
  PROVE  Len(s) \in Nat /\ s \in [1..Len(s) -> S] /\ DOMAIN s = 1..Len(s)
OBVIOUS

LEMMA NoneRead ==
  ASSUME NEW S
  PROVE  << >> \in Seq(S) /\ Len(<< >>) = 0
OBVIOUS

LEMMA ConcatFacts ==
  ASSUME NEW S, NEW s \in Seq(S), NEW t \in Seq(S)
  PROVE  /\ s \o t \in Seq(S) /\ Len(s \o t) = Len(s) + Len(t)
         /\ \A i \in 1..(Len(s) + Len(t)) :
              (s \o t)[i] = IF i <= Len(s) THEN s[i] ELSE t[i - Len(s)]
OBVIOUS

\* A page is a set written down in some order: nothing is added and nothing left out
LEMMA PageElements ==
  ASSUME NEW S, IsFiniteSet(S)
  PROVE  /\ Listed(S) \in [1..Cardinality(S) -> S] /\ Cardinality(S) \in Nat
         /\ \A x \in S : \E i \in 1..Cardinality(S) : Listed(S)[i] = x
<1> DEFINE n == Cardinality(S)
           f == Listed(S)
<1>1. n \in Nat /\ ExistsBijection(1..n, S)
  BY FS_CardinalityType
<1>2. PICK g : g \in Bijection(1..n, S)
  BY <1>1 DEF ExistsBijection
<1> DEFINE Lists(h) == \A x \in S : \E i \in 1..n : h[i] = x
<1>3. g \in [1..n -> S] /\ Lists(g)
  BY <1>2, Zenon DEF Bijection, Injection, Surjection
<1>4. f = CHOOSE h \in [1..n -> S] : Lists(h)
  BY Zenon DEF Listed
<1> HIDE DEF f, n, Lists
<1>5. f \in [1..n -> S] /\ Lists(f)
  BY <1>3, <1>4, Zenon
<1> QED BY <1>1, <1>5, Zenon DEF f, n, Lists

\* One page of a read, appended to what was read before
LEMMA PageRead ==
  ASSUME NEW objects \in Seq(Keys \X Values), NEW keys \in SUBSET Keys, NEW state \in States,
         ReadAt(objects, state)
  PROVE  LET page == Listed({<<k, state[k]>> : k \in keys})
         IN /\ objects \o page \in Seq(Keys \X Values)
            /\ ReadAt(objects \o page, state)
            /\ KeysOf(objects \o page) = KeysOf(objects) \cup keys
<1> DEFINE S == {<<k, state[k]>> : k \in keys}
           page == Listed(S)
           n == Cardinality(S)
<1>1. IsFiniteSet(S)
  <2>1. IsFiniteSet(keys)
    BY ReadsAssumption, FS_Subset
  <2>2. [k \in keys |-> <<k, state[k]>>] \in Surjection(keys, S)
    BY DEF Surjection
  <2> QED BY <2>1, <2>2, FS_Surjection
<1>2. /\ page \in [1..n -> S] /\ n \in Nat
      /\ \A x \in S : \E i \in 1..n : page[i] = x
  BY <1>1, PageElements, Zenon
<1>3. S \subseteq Keys \X Values /\ \A x \in S : x[1] \in keys /\ x[2] = state[x[1]]
  BY DEF Values
<1>4. \A k \in keys : <<k, state[k]>> \in S /\ <<k, state[k]>>[1] = k
  OBVIOUS
<1> HIDE DEF S, page, n
<1>5. page \in Seq(Keys \X Values) /\ Len(page) = n /\ DOMAIN page = 1..n
  BY <1>2, <1>3
<1> DEFINE all == objects \o page
<1>6. /\ all \in Seq(Keys \X Values) /\ DOMAIN all = 1..(Len(objects) + n)
      /\ \A i \in 1..Len(objects) : all[i] = objects[i]
      /\ \A i \in 1..n : all[Len(objects) + i] = page[i]
  <2>1. /\ all \in Seq(Keys \X Values) /\ Len(all) = Len(objects) + Len(page)
        /\ \A i \in 1..(Len(objects) + Len(page)) :
             all[i] = IF i <= Len(objects) THEN objects[i] ELSE page[i - Len(objects)]
    BY <1>5, ConcatFacts, Zenon
  <2>2. Len(objects) \in Nat /\ Len(page) = n /\ n \in Nat
    BY <1>2, <1>5, SeqFacts
  <2>3. DOMAIN all = 1..(Len(objects) + n)
    BY <2>1, <2>2, SeqFacts
  <2> HIDE DEF all
  <2>4. \A i \in 1..Len(objects) : all[i] = objects[i]
    BY <2>1, <2>2
  <2>5. \A i \in 1..n : all[Len(objects) + i] = page[i]
    BY <2>1, <2>2
  <2> QED BY <2>1, <2>3, <2>4, <2>5
<1>7. \A i \in DOMAIN all : i \in 1..Len(objects) \/ \E j \in 1..n : i = Len(objects) + j
  <2> SUFFICES ASSUME NEW i \in DOMAIN all, i \notin 1..Len(objects)
               PROVE  \E j \in 1..n : i = Len(objects) + j
    OBVIOUS
  <2>1. i - Len(objects) \in 1..n /\ i = Len(objects) + (i - Len(objects))
    BY <1>2, <1>6
  <2> QED BY <2>1
<1>8. DOMAIN objects = 1..Len(objects) /\ Len(objects) \in Nat
  OBVIOUS
<1> HIDE DEF all
<1>9. ReadAt(all, state)
  <2> SUFFICES ASSUME NEW i \in DOMAIN all PROVE all[i][2] = state[all[i][1]]
    BY DEF ReadAt
  <2>1. CASE i \in 1..Len(objects)
    BY <1>6, <1>8, <2>1 DEF ReadAt
  <2>2. ASSUME NEW j \in 1..n, i = Len(objects) + j PROVE all[i][2] = state[all[i][1]]
    <3>1. all[i] = page[j] /\ page[j] \in S
      BY <1>2, <1>6, <2>2
    <3> QED BY <1>3, <3>1
  <2> QED BY <1>7, <2>1, <2>2
<1>10. KeysOf(all) \subseteq KeysOf(objects) \cup keys
  <2> SUFFICES ASSUME NEW i \in DOMAIN all PROVE all[i][1] \in KeysOf(objects) \cup keys
    BY DEF KeysOf
  <2>1. CASE i \in 1..Len(objects)
    BY <1>6, <1>8, <2>1 DEF KeysOf
  <2>2. ASSUME NEW j \in 1..n, i = Len(objects) + j PROVE all[i][1] \in keys
    <3>1. all[i] = page[j] /\ page[j] \in S
      BY <1>2, <1>6, <2>2
    <3> QED BY <1>3, <3>1
  <2> QED BY <1>7, <2>1, <2>2
<1>11. KeysOf(objects) \subseteq KeysOf(all)
  <2> SUFFICES ASSUME NEW i \in DOMAIN objects PROVE objects[i][1] \in KeysOf(all)
    BY DEF KeysOf
  <2>1. i \in DOMAIN all /\ all[i] = objects[i]
    BY <1>2, <1>6, <1>8
  <2> QED BY <2>1 DEF KeysOf
<1>12. keys \subseteq KeysOf(all)
  <2> SUFFICES ASSUME NEW k \in keys PROVE k \in KeysOf(all)
    OBVIOUS
  <2>1. PICK x \in S : x[1] = k
    BY <1>4, Zenon
  <2>2. PICK i \in 1..n : page[i] = x
    BY <1>2
  <2>3. Len(objects) + i \in DOMAIN all
    BY <1>2, <1>6, <1>8
  <2>4. all[Len(objects) + i] = x
    BY <1>6, <2>2
  <2> QED BY <2>1, <2>3, <2>4 DEF KeysOf
<1>13. KeysOf(all) = KeysOf(objects) \cup keys
  BY <1>10, <1>11, <1>12
<1> QED BY <1>6, <1>9, <1>13 DEF all, page, S

---------------------------------------------------------------------------
LEMMA InitInv == Init => IInv
<1> SUFFICES ASSUME Init PROVE IInv
  OBVIOUS
<1>1. /\ q.phase = "idle" /\ q.objects = <<>> /\ DOMAIN q = Fields
      /\ q.floor = 0 /\ q.height = 0 /\ q.todo = {} /\ q.arg = 0
  BY DEF Init, Idle, Fields
<1>2. chain \in Seq(States) /\ Len(chain) = 1
  BY DEF Init
<1>3. DOMAIN indexed = {"from", "to"} /\ indexed.from = 1 /\ indexed.to = 0
  BY DEF Init
<1>4. QueryOK
  <2>1. <<>> \in Seq(Keys \X Values)
    BY NoneRead
  <2> QED BY <1>1, <2>1 DEF QueryOK
<1>5. TypeOK
  <2>1. committed = 0 /\ cursor = 0
    BY DEF Init
  <2> QED BY <1>1, <1>2, <1>3, <2>1 DEF TypeOK
<1>6. Shape
  BY <1>2, <1>3, <1>4, <1>5 DEF Shape
<1> QED BY <1>1, <1>6 DEF IInv, Starting, Reading, Done, NotBelowFloor, AppliedIsCommitted, Answered

\* The node's own steps leave the query alone and every root it has used
LEMMA NodeKeeps ==
  ASSUME IInv, \/ \E state \in States : Finalize(state)
               \/ Index \/ Prune \/ Commit \/ Publish
  PROVE  IInv'
<1>1. q' = q
  BY DEF Finalize, Index, Prune, Commit, Publish
<1>2. Shape'
  <2>1. ASSUME NEW state \in States, Finalize(state) PROVE Shape'
    BY <1>1, <2>1 DEF Finalize, IInv, Shape, TypeOK, QueryOK
  <2>2. CASE Index
    BY <1>1, <2>2 DEF Index, IInv, Shape, TypeOK, QueryOK
  <2>3. CASE Prune
    BY <1>1, <2>3 DEF Prune, IInv, Shape, TypeOK, QueryOK
  <2>4. CASE Commit
    BY <1>1, <2>4 DEF Commit, IInv, Shape, TypeOK, QueryOK
  <2>5. CASE Publish
    BY <1>1, <2>5 DEF Publish, IInv, Shape, TypeOK, QueryOK
  <2> QED BY <2>1, <2>2, <2>3, <2>4, <2>5
<1>3. \A h \in 0..committed : Root(h)' = Root(h)
  BY DEF Finalize, Index, Prune, Commit, Publish, Root, IInv, Shape, TypeOK
<1>4. committed \in Nat /\ committed' \in Nat /\ committed <= committed'
      /\ (q.phase = "reading" => committed' = committed)
  BY DEF Finalize, Index, Prune, Commit, Publish, Held, IInv, Shape, TypeOK
<1>5. Reading'
  BY <1>1, <1>3, <1>4 DEF IInv, Reading
<1>6. Done'
  BY <1>1, <1>3, <1>4 DEF IInv, Done, Answered
<1>7. Starting' /\ NotBelowFloor' /\ AppliedIsCommitted'
  BY <1>1, <1>4 DEF IInv, Starting, NotBelowFloor, AppliedIsCommitted, Answered, Shape, QueryOK
<1> QED BY <1>2, <1>5, <1>6, <1>7 DEF IInv

\* A step of the query alone: what is left to show is what it says of the query
LEMMA QueryStep ==
  ASSUME IInv, UNCHANGED node, QueryOK', Starting', Reading', Done', NotBelowFloor',
         AppliedIsCommitted', q'.phase \in {"idle", "asked", "floored", "reading", "done"}
  PROVE  IInv'
<1>1. chain' = chain /\ indexed' = indexed /\ committed' = committed /\ cursor' = cursor
  BY DEF node
<1>2. Shape'
  BY <1>1 DEF IInv, Shape, TypeOK
<1> QED BY <1>2 DEF IInv

LEMMA AskKeeps ==
  ASSUME IInv, NEW op, NEW arg, NEW keys \in SUBSET Keys, Ask(op, arg, keys),
         op # "listing" => arg \in Nat
  PROVE  IInv'
<1>1. q' = [Idle EXCEPT !.phase = "asked", !.op = op, !.arg = arg, !.todo = keys]
  BY DEF Ask
<1>2. /\ DOMAIN q' = Fields /\ q'.phase = "asked" /\ q'.op = op /\ q'.arg = arg
      /\ q'.todo = keys /\ q'.objects = <<>> /\ q'.floor = 0 /\ q'.height = 0
  BY <1>1 DEF Idle, Fields
<1>3. <<>> \in Seq(Keys \X Values)
  BY NoneRead
<1>4. QueryOK'
  BY <1>2, <1>3 DEF QueryOK
<1>5. Starting' /\ Reading' /\ Done' /\ NotBelowFloor' /\ AppliedIsCommitted'
  BY <1>2 DEF Starting, Reading, Done, NotBelowFloor, AppliedIsCommitted, Answered
<1> QED BY <1>2, <1>4, <1>5, QueryStep DEF Ask

\* A refusal ends the query without an answer
LEMMA RefusalKeeps ==
  ASSUME IInv, UNCHANGED node, NEW answer, answer # "ok", End(answer)
  PROVE  IInv'
<1>1. q' = [q EXCEPT !.phase = "done", !.answer = answer] /\ DOMAIN q = Fields
  BY DEF End, IInv, Shape, QueryOK
<1>2. /\ DOMAIN q' = Fields /\ q'.phase = "done" /\ q'.answer = answer
      /\ q'.op = q.op /\ q'.arg = q.arg /\ q'.floor = q.floor /\ q'.height = q.height
      /\ q'.objects = q.objects /\ q'.todo = q.todo
  BY <1>1 DEF Fields
<1>3. QueryOK'
  BY <1>2 DEF QueryOK, IInv, Shape
<1>4. Starting' /\ Reading' /\ Done' /\ NotBelowFloor' /\ AppliedIsCommitted'
  BY <1>2 DEF Starting, Reading, Done, NotBelowFloor, AppliedIsCommitted, Answered
<1> QED BY <1>2, <1>3, <1>4, QueryStep

LEMMA FloorKeeps ==
  ASSUME IInv, Floor
  PROVE  IInv'
<1>0. UNCHANGED node
  BY DEF Floor
<1>1. CASE ~Indexed(q.arg)
  BY <1>0, <1>1, RefusalKeeps DEF Floor
<1>2. CASE Indexed(q.arg)
  <2>1. /\ q' = [q EXCEPT !.phase = "floored", !.floor = q.arg] /\ DOMAIN q = Fields
        /\ q.op \in FloorOps /\ q.phase = "asked" /\ q.objects = <<>> /\ q.arg \in Nat
    BY <1>2 DEF Floor, FloorOps, IInv, Shape, QueryOK, Starting
  <2>2. /\ DOMAIN q' = Fields /\ q'.phase = "floored" /\ q'.floor = q.arg
        /\ q'.op = q.op /\ q'.arg = q.arg /\ q'.height = q.height
        /\ q'.objects = q.objects /\ q'.todo = q.todo
    BY <2>1 DEF Fields
  <2>3. QueryOK'
    BY <2>1, <2>2, Zenon DEF QueryOK, IInv, Shape
  <2>4. Starting' /\ Reading' /\ Done' /\ NotBelowFloor' /\ AppliedIsCommitted'
    BY <2>1, <2>2 DEF Starting, Reading, Done, NotBelowFloor, AppliedIsCommitted, Answered
  <2> QED BY <1>0, <2>2, <2>3, <2>4, QueryStep
<1> QED BY <1>1, <1>2

\* The height that coherent_reader finds is that of a block with the state under the
\* guard, and that block is committed: a state that is not the cursor's is the next one's
LEMMA HeightIsCommitted ==
  ASSUME Shape, NEW h, h = CoherentHeight(Root(committed)), h # NoBlock
  PROVE  h \in 0..committed /\ Root(h) = Root(committed)
<1>1. committed \in Nat /\ cursor \in Nat /\ cursor \in {committed - 1, committed}
  BY DEF Shape, TypeOK
<1>2. CASE Root(committed) = Root(cursor)
  BY <1>1, <1>2 DEF CoherentHeight
<1>3. CASE Root(committed) # Root(cursor)
  <2>1. cursor # committed
    BY <1>3
  <2>2. committed = cursor + 1
    BY <1>1, <2>1
  <2> QED BY <1>1, <1>3, <2>2 DEF CoherentHeight, NoBlock
<1> QED BY <1>2, <1>3

LEMMA AcquireKeeps ==
  ASSUME IInv, Acquire
  PROVE  IInv'
<1> DEFINE h == CoherentHeight(Root(committed))
           held == IF q.op = "listing" THEN Holdings(Root(committed), q.arg) ELSE q.todo
<1>0. UNCHANGED node /\ Opened(h)
  BY DEF Acquire
<1>1. CASE h = NoBlock \/ ~Acceptable(h) \/ ~Certified(h)
  BY <1>0, <1>1, RefusalKeeps DEF Opened
<1>2. CASE ~(h = NoBlock \/ ~Acceptable(h) \/ ~Certified(h))
  <2>1. q' = [q EXCEPT !.phase = "reading", !.height = h, !.todo = held] /\ DOMAIN q = Fields
    BY <1>0, <1>2 DEF Opened, IInv, Shape, QueryOK
  <2> HIDE DEF held
  <2>2. h \in 0..committed /\ Root(h) = Root(committed)
    BY <1>0, <1>2, HeightIsCommitted DEF IInv
  <2>3. /\ q.objects = <<>> /\ q.phase \in {"asked", "floored"}
        /\ q.op \in FloorOps => q.phase = "floored" /\ q.floor = q.arg
    BY DEF Acquire, IInv, Starting, FloorOps
  <2>4. q.op \in FloorOps => q.arg <= h
    BY <1>2, <2>3 DEF Acceptable, FloorOps
  <2>5. held \subseteq Keys /\ (q.op = "listing" => held = Holdings(Root(committed), q.arg))
    BY DEF held, Holdings, IInv, Shape, QueryOK
  <2> HIDE DEF h
  <2>6. /\ DOMAIN q' = Fields /\ q'.phase = "reading" /\ q'.floor = q.floor
        /\ q'.op = q.op /\ q'.arg = q.arg /\ q'.height = h
        /\ q'.objects = <<>> /\ q'.todo = held
    BY <2>1, <2>3 DEF Fields
  <2>7. QueryOK'
    BY <2>2, <2>3, <2>5, <2>6 DEF QueryOK, IInv, Shape, TypeOK
  <2>8. ReadAt(<<>>, Root(committed)) /\ KeysOf(<<>>) = {}
    BY DEF ReadAt, KeysOf
  <2>9. Reading'
    BY <1>0, <2>2, <2>4, <2>5, <2>6, <2>8 DEF Reading, node, Root, Holdings
  <2>10. Starting' /\ Done' /\ NotBelowFloor' /\ AppliedIsCommitted'
    BY <2>6 DEF Starting, Done, NotBelowFloor, AppliedIsCommitted, Answered
  <2> QED BY <1>0, <2>6, <2>7, <2>9, <2>10, QueryStep
<1> QED BY <1>1, <1>2

\* A page moves keys from what is left to what was read, at one state
LEMMA ReadPageKeeps ==
  ASSUME IInv, NEW keys \in SUBSET Keys, ReadPage(keys)
  PROVE  IInv'
<1> DEFINE state == Root(committed)
           all == q.objects \o Listed({<<k, state[k]>> : k \in keys})
<1>0. /\ UNCHANGED node /\ q.phase = "reading" /\ keys \subseteq q.todo /\ DOMAIN q = Fields
      /\ q' = [q EXCEPT !.todo = q.todo \ keys, !.objects = all]
  BY DEF ReadPage, IInv, Shape, QueryOK
<1>1. /\ q.height \in 0..committed /\ Root(q.height) = state /\ ReadAt(q.objects, state)
      /\ q.op = "listing" => KeysOf(q.objects) \cup q.todo = Holdings(state, q.arg)
      /\ q.op \in FloorOps => q.arg <= q.height
  BY <1>0 DEF IInv, Reading
<1>2. state \in States
  BY <1>1, ReadsAssumption DEF Root, IInv, Shape, TypeOK
<1>3. /\ all \in Seq(Keys \X Values) /\ ReadAt(all, state)
      /\ KeysOf(all) = KeysOf(q.objects) \cup keys
  <2>1. q.objects \in Seq(Keys \X Values)
    BY DEF IInv, Shape, QueryOK
  <2>2. PICK st \in States : st = state
    BY <1>2
  <2>3. ReadAt(q.objects, st)
    BY <1>1, <2>2
  <2> DEFINE some == q.objects \o Listed({<<k, st[k]>> : k \in keys})
  <2>4. /\ some \in Seq(Keys \X Values) /\ ReadAt(some, st)
        /\ KeysOf(some) = KeysOf(q.objects) \cup keys
    BY <2>1, <2>3, PageRead, Zenon
  <2> QED BY <2>2, <2>4
<1> HIDE DEF all
<1>4. /\ DOMAIN q' = Fields /\ q'.phase = "reading" /\ q'.op = q.op /\ q'.arg = q.arg
      /\ q'.floor = q.floor /\ q'.height = q.height
      /\ q'.objects = all /\ q'.todo = q.todo \ keys
  BY <1>0 DEF Fields
<1>5. QueryOK'
  BY <1>3, <1>4 DEF QueryOK, IInv, Shape
<1>6. KeysOf(all) \cup (q.todo \ keys) = KeysOf(q.objects) \cup q.todo
  BY <1>0, <1>3
<1>7. Reading'
  BY <1>0, <1>1, <1>3, <1>4, <1>6 DEF Reading, node, Root, Holdings
<1>8. Starting' /\ Done' /\ NotBelowFloor' /\ AppliedIsCommitted'
  BY <1>4 DEF Starting, Done, NotBelowFloor, AppliedIsCommitted, Answered
<1> QED BY <1>0, <1>4, <1>5, <1>7, <1>8, QueryStep

LEMMA ReplyKeeps ==
  ASSUME IInv, Reply
  PROVE  IInv'
<1>0. /\ UNCHANGED node /\ q.phase = "reading" /\ q.todo = {} /\ DOMAIN q = Fields
      /\ q.op # "applied" /\ q' = [q EXCEPT !.phase = "done", !.answer = "ok"]
  BY DEF Reply, End, IInv, Shape, QueryOK
<1>1. /\ q.height \in 0..committed /\ Root(q.height) = Root(committed)
      /\ ReadAt(q.objects, Root(committed))
      /\ q.op = "listing" => KeysOf(q.objects) \cup q.todo = Holdings(Root(committed), q.arg)
      /\ q.op \in FloorOps => q.arg <= q.height
  BY <1>0 DEF IInv, Reading
<1>2. /\ DOMAIN q' = Fields /\ q'.phase = "done" /\ q'.op = q.op /\ q'.arg = q.arg
      /\ q'.floor = q.floor /\ q'.height = q.height
      /\ q'.objects = q.objects /\ q'.todo = q.todo
  BY <1>0 DEF Fields
<1>3. QueryOK'
  BY <1>2 DEF QueryOK, IInv, Shape
<1>4. Done'
  BY <1>0, <1>1, <1>2 DEF Done, node, Root
<1>5. Starting' /\ Reading' /\ NotBelowFloor' /\ AppliedIsCommitted'
  BY <1>0, <1>1, <1>2 DEF Starting, Reading, NotBelowFloor, AppliedIsCommitted
<1> QED BY <1>0, <1>2, <1>3, <1>4, <1>5, QueryStep

\* An indexed block is called applied only up to the height the guard found
LEMMA AppliedReplyKeeps ==
  ASSUME IInv, AppliedReply
  PROVE  IInv'
<1> DEFINE h == IF q.arg = Latest THEN q.height ELSE q.arg
<1>0. /\ UNCHANGED node /\ q.phase = "reading" /\ q.op = "applied" /\ DOMAIN q = Fields
      /\ q' = [q EXCEPT !.phase = "done", !.height = h, !.answer = AppliedAnswer(h)]
      /\ q.arg \in Nat /\ q.height \in Nat /\ committed \in Nat
  <2>1. UNCHANGED node /\ q.phase = "reading" /\ q.op = "applied"
    BY DEF AppliedReply
  <2>2. q' = [q EXCEPT !.phase = "done", !.height = h, !.answer = AppliedAnswer(h)]
    BY Zenon DEF AppliedReply
  <2>3. DOMAIN q = Fields /\ q.arg \in Nat /\ q.height \in Nat /\ committed \in Nat
    BY <2>1 DEF IInv, Shape, QueryOK, TypeOK
  <2> QED BY <2>1, <2>2, <2>3
<1>1. q.height \in 0..committed
  BY <1>0 DEF IInv, Reading
<1>2. h \in Nat /\ (AppliedAnswer(h) = "ok" => h <= committed)
  BY <1>0, <1>1 DEF AppliedAnswer
<1> HIDE DEF h
<1>3. /\ DOMAIN q' = Fields /\ q'.phase = "done" /\ q'.op = "applied" /\ q'.arg = q.arg
      /\ q'.floor = q.floor /\ q'.height = h /\ q'.answer = AppliedAnswer(h)
      /\ q'.objects = q.objects /\ q'.todo = q.todo
  BY <1>0 DEF Fields
<1>4. QueryOK'
  BY <1>0, <1>2, <1>3 DEF QueryOK, IInv, Shape
<1>5. AppliedIsCommitted'
  <2>1. committed' = committed
    BY <1>0 DEF node
  <2> QED BY <1>2, <1>3, <2>1 DEF AppliedIsCommitted, Answered
<1>6. Starting' /\ Reading' /\ Done' /\ NotBelowFloor'
  BY <1>3 DEF Starting, Reading, Done, NotBelowFloor, FloorOps
<1> QED BY <1>0, <1>3, <1>4, <1>5, <1>6, QueryStep

LEMMA BlockReplyKeeps ==
  ASSUME IInv, BlockReply
  PROVE  IInv'
<1>0. /\ UNCHANGED node /\ q.phase = "asked" /\ q.op = "block" /\ DOMAIN q = Fields
      /\ q.arg \in Nat
  BY DEF BlockReply, IInv, Shape, QueryOK
<1>1. PICK answer : q' = [q EXCEPT !.phase = "done", !.height = q.arg, !.answer = answer]
  BY Zenon DEF BlockReply
<1>2. /\ DOMAIN q' = Fields /\ q'.phase = "done" /\ q'.op = "block" /\ q'.arg = q.arg
      /\ q'.floor = q.floor /\ q'.height = q.arg
      /\ q'.objects = q.objects /\ q'.todo = q.todo
  BY <1>0, <1>1 DEF Fields
<1>3. QueryOK'
  BY <1>0, <1>2 DEF QueryOK, IInv, Shape
<1>4. Starting' /\ Reading' /\ Done' /\ NotBelowFloor' /\ AppliedIsCommitted'
  BY <1>2 DEF Starting, Reading, Done, NotBelowFloor, AppliedIsCommitted, FloorOps
<1> QED BY <1>0, <1>2, <1>3, <1>4, QueryStep

LEMMA NextKeeps == IInv /\ [Next]_vars => IInv'
<1> SUFFICES ASSUME IInv, [Next]_vars PROVE IInv'
  OBVIOUS
<1>1. CASE UNCHANGED vars
  <2>1. UNCHANGED node /\ q' = q
    BY <1>1 DEF vars, node
  <2>2. QueryOK' /\ Starting' /\ Reading' /\ Done' /\ NotBelowFloor' /\ AppliedIsCommitted'
    BY <2>1 DEF node, IInv, Shape, QueryOK, Starting, Reading, Done, NotBelowFloor,
                AppliedIsCommitted, Answered, Root
  <2> QED BY <2>1, <2>2, QueryStep DEF IInv, Shape, TypeOK
<1>2. CASE \/ \E state \in States : Finalize(state)
           \/ Index \/ Prune \/ Commit \/ Publish
  BY <1>2, NodeKeeps
<1>3. CASE \E at \in 0..MaxHeight, keys \in KeySets : AskObjects(at, keys) \/ AskProofs(at, keys)
  <2>1. PICK at \in 0..MaxHeight, keys \in KeySets :
          Ask("objects", at, keys) \/ Ask("proofs", at, keys)
    BY <1>3 DEF AskObjects, AskProofs
  <2>2. keys \in SUBSET Keys /\ at \in Nat
    BY ReadsAssumption
  <2> QED BY <2>1, <2>2, AskKeeps
<1>4. CASE \E floor \in 1..MaxHeight, key \in Keys : AskCoin(floor, key) \/ AskEdge(floor, key)
  <2>1. PICK floor \in 1..MaxHeight, key \in Keys :
          Ask("coin", floor, {key}) \/ Ask("edge", floor, {key})
    BY <1>4 DEF AskCoin, AskEdge
  <2>2. {key} \in SUBSET Keys /\ floor \in Nat
    BY ReadsAssumption
  <2> QED BY <2>1, <2>2, AskKeeps
<1>5. CASE \/ \E owner \in Owners : AskListing(owner)
           \/ \E at \in 0..MaxHeight : AskApplied(at)
           \/ \E at \in 1..MaxHeight : AskBlock(at)
  <2>1. {} \in SUBSET Keys /\ 0..MaxHeight \subseteq Nat /\ 1..MaxHeight \subseteq Nat
    BY ReadsAssumption
  <2>2. ASSUME NEW owner \in Owners, AskListing(owner) PROVE IInv'
    BY <2>1, <2>2, AskKeeps DEF AskListing
  <2>3. ASSUME NEW at \in 0..MaxHeight, AskApplied(at) PROVE IInv'
    BY <2>1, <2>3, AskKeeps DEF AskApplied
  <2>4. ASSUME NEW at \in 1..MaxHeight, AskBlock(at) PROVE IInv'
    BY <2>1, <2>4, AskKeeps DEF AskBlock
  <2> QED BY <1>5, <2>2, <2>3, <2>4
<1>6. CASE Refuse
  BY <1>6, RefusalKeeps DEF Refuse
<1>7. CASE Floor \/ Acquire \/ Reply \/ AppliedReply \/ BlockReply
           \/ \E keys \in SUBSET Keys : ReadPage(keys)
  BY <1>7, FloorKeeps, AcquireKeeps, ReplyKeeps, AppliedReplyKeeps, BlockReplyKeeps, ReadPageKeeps
<1> QED BY <1>1, <1>2, <1>3, <1>4, <1>5, <1>6, <1>7 DEF Next

\* Every answer is read at the one state it names, never below the caller's floor, and a
\* block is called applied only when the database holds it; for every set of objects
\* and every interleaving of execution, indexing, pruning and paged reads.
THEOREM ReadsStayCoherent == Spec => []ReadsAreCoherent
<1>1. IInv => ReadsAreCoherent
  <2> SUFFICES ASSUME IInv PROVE OneState
    BY DEF ReadsAreCoherent, IInv, Shape
  <2> QED BY DEF IInv, Done, OneState, ReadAt, KeysOf
<1> QED BY <1>1, InitInv, NextKeeps, PTL DEF Spec
=============================================================================
