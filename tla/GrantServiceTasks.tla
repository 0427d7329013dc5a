------------------------- MODULE GrantServiceTasks --------------------------
(***************************************************************************)
(* The inductive invariant of the grant service and the steps of a job's   *)
(* task.  It ties the four records of a job together - the durable         *)
(* outcome, the in-memory phase, the cached transcript and the task - and  *)
(* says of a response that has once been without rights that it is over,   *)
(* or still without them.                                                  *)
(***************************************************************************)
EXTENDS GrantService, TLAPS

JobStates == {"none"} \cup Open \cup Ended
Rights == [until : Lifetimes, enabled : BOOLEAN, current : BOOLEAN]
Caches == [state : {"none", "retained", "cancelled"}, events : 0..MaxEvents + 1,
           expires : Int, prefix : Nat]
Streams == [state : {"idle", "open", "denied", "closed"}, work : Works, cached : BOOLEAN,
            position : 0..MaxEvents, terminal : BOOLEAN]

Shape ==
  /\ clock \in 0..MaxTime /\ right \in Rights
  /\ job \in [Works -> JobStates] /\ journal \in {"ok", "poisoned"}
  /\ status \in {"serving", "draining", "stopped", "failed"}
  /\ live \in [Works -> Phases]
  /\ cache \in [Works -> Caches]
  /\ task \in [Works -> {"none", "queued", "backend", "returned", "done"}]
  /\ output \in [Works -> {-1} \cup 1..MaxEvents + 1]
  /\ stream \in [Deliveries -> Streams]
  /\ invoked \in [Works -> 0..1]

\* How far the task is, and what the journal and the memory hold meanwhile.
TaskAgrees(w) ==
  /\ task[w] = "none" <=> job[w] = "none"
  /\ task[w] = "queued" => job[w] \in {"accepted", "released"} /\ live[w] = "queued"
  /\ task[w] = "backend" => job[w] = "running" /\ live[w] = "running"
  /\ task[w] = "returned" =>
       job[w] \in {"accepted", "released", "running"} /\ live[w] \in {"queued", "running"}
  /\ task[w] = "done" => job[w] \in Ended \/ journal = "poisoned"
  /\ job[w] \in {"none", "accepted", "released"} => invoked[w] = 0

\* A finished phase is backed by the journal, and its transcript is the verified one.
CacheAgrees(w) ==
  /\ live[w] = "finished" => job[w] = "finished"
  /\ job[w] = "finished" => task[w] = "done"
  /\ cache[w].state # "retained" => cache[w].events = 0
  /\ live[w] = "finished" /\ cache[w].state = "retained" =>
       cache[w].events = output[w] /\ output[w] >= 1
  /\ live[w] \in {"queued", "running", "completing"} => cache[w].events <= MaxEvents

StreamAgrees(d) ==
  stream[d].terminal =>
    /\ stream[d].state = "closed"
    /\ job[stream[d].work] = "finished"
    /\ stream[d].position = output[stream[d].work] - 1

\* A response whose rights were missing once is over, or they are missing still.
LapsedIsOver ==
  \A d \in lapsed :
    /\ d \in Deliveries /\ stream[d].state # "idle"
    /\ stream[d].state = "open" => ~DeliveryHolds(right, job[stream[d].work], clock)

Agree ==
  /\ Shape
  /\ \A w \in Works : TaskAgrees(w) /\ CacheAgrees(w)
  /\ \A d \in Deliveries : StreamAgrees(d)
  /\ status = "stopped" => \A w \in Works : task[w] \in {"none", "done"}

IInv == Agree /\ LapsedIsOver

---------------------------------------------------------------------------
(* Refreshing and cancelling *)

\* A cache is as it was but for its deadline, or its body is gone.
Fades(c, d) ==
  \/ d.state = c.state /\ d.events = c.events
  \/ c.state = "retained" /\ d.state = "cancelled" /\ d.events = 0

\* A response is as it was, or denied.
Denies(s, t) == t = s \/ (s.state = "open" /\ t = [s EXCEPT !.state = "denied"])

LEMMA CancelledFades ==
  ASSUME NEW c \in Caches
  PROVE  Cancelled(c) \in Caches /\ Fades(c, Cancelled(c))
<1>1. 0 \in 0..MaxEvents + 1
  BY ServiceAssumption
<1>. QED BY <1>1, Zenon DEF Cancelled, Caches, Fades

\* The end of an execution is a time.
LEMMA EndsType ==
  ASSUME NEW r \in Rights, NEW j
  PROVE  ExecutionEnds(r, j) \in Int
<1>1. r.until \in Lifetimes
  BY DEF Rights
<1>2. r.until \in Int
  BY <1>1, ServiceAssumption, Zenon
<1>3. TerminalDeadline \in Int /\ DeliveryDeadline + 1 \in Int
  BY ServiceAssumption
<1>. QED BY <1>2, <1>3 DEF ExecutionEnds, Lesser

LEMMA RefreshFades ==
  ASSUME NEW c \in Caches, NEW r \in Rights, NEW j, NEW now
  PROVE  RefreshedCache(c, r, j, now) \in Caches /\ Fades(c, RefreshedCache(c, r, j, now))
<1>1. [c EXCEPT !.expires = ExecutionEnds(r, j)] \in Caches
  BY EndsType DEF Caches
<1>2. Fades(c, c) /\ Fades(c, [c EXCEPT !.expires = ExecutionEnds(r, j)])
  BY DEF Fades, Caches
<1>. QED BY <1>1, <1>2, CancelledFades DEF RefreshedCache

\* What a refresh leaves of a response, and why it is still open if it is.
LEMMA RefreshDenies ==
  ASSUME NEW s \in Streams, NEW c, NEW r, NEW j, NEW now
  PROVE  /\ RefreshedStream(s, c, r, j, now) \in Streams
         /\ Denies(s, RefreshedStream(s, c, r, j, now))
         /\ RefreshedStream(s, c, r, j, now).state = "open" => DeliveryHolds(r, j, now)
<1>1. /\ [s EXCEPT !.state = "denied"] \in Streams
      /\ [s EXCEPT !.state = "denied"].state = "denied"
  BY DEF Streams
<1>. QED BY <1>1 DEF RefreshedStream, Denies

LEMMA FadesCompose ==
  ASSUME NEW c \in Caches, NEW d \in Caches, NEW e \in Caches, Fades(c, d), Fades(d, e)
  PROVE  Fades(c, e)
BY DEF Fades

LEMMA DeniesCompose ==
  ASSUME NEW s \in Streams, NEW t \in Streams, NEW u \in Streams, Denies(s, t), Denies(t, u)
  PROVE  Denies(s, u)
<1>1. [s EXCEPT !.state = "denied"].state = "denied"
  BY DEF Streams
<1>. QED BY <1>1 DEF Denies

LEMMA RefreshedCaches ==
  ASSUME NEW c \in [Works -> Caches], NEW r \in Rights, NEW j
  PROVE  /\ RefreshCaches(c, r, j) \in [Works -> Caches]
         /\ \A w \in Works : Fades(c[w], RefreshCaches(c, r, j)[w])
BY RefreshFades DEF RefreshCaches

LEMMA RefreshedStreams ==
  ASSUME NEW s \in [Deliveries -> Streams], NEW c, NEW r, NEW j
  PROVE  /\ RefreshStreams(s, c, r, j) \in [Deliveries -> Streams]
         /\ \A d \in Deliveries :
              /\ Denies(s[d], RefreshStreams(s, c, r, j)[d])
              /\ RefreshStreams(s, c, r, j)[d].state = "open" =>
                   s[d].state = "open" /\ DeliveryHolds(r, j[s[d].work], clock)
<1>. DEFINE t == RefreshStreams(s, c, r, j)
<1>1. ASSUME NEW d \in Deliveries, s[d].state = "open"
      PROVE  /\ t[d] \in Streams /\ Denies(s[d], t[d])
             /\ t[d].state = "open" => DeliveryHolds(r, j[s[d].work], clock)
  <2>1. t[d] = RefreshedStream(s[d], c[s[d].work], r, j[s[d].work], clock)
    BY <1>1 DEF RefreshStreams
  <2>2. s[d] \in Streams
    OBVIOUS
  <2>. QED BY <2>1, <2>2, RefreshDenies
<1>2. ASSUME NEW d \in Deliveries, s[d].state # "open"
      PROVE  t[d] = s[d] /\ t[d] \in Streams /\ Denies(s[d], t[d])
  BY <1>2 DEF RefreshStreams, Denies
<1>3. t = [d \in Deliveries |-> t[d]]
  BY DEF RefreshStreams
<1>. HIDE DEF t
<1>4. t \in [Deliveries -> Streams]
  BY <1>1, <1>2, <1>3
<1>5. \A d \in Deliveries : Denies(s[d], t[d])
  BY <1>1, <1>2
<1>6. \A d \in Deliveries :
        t[d].state = "open" => s[d].state = "open" /\ DeliveryHolds(r, j[s[d].work], clock)
  BY <1>1, <1>2
<1>. QED BY <1>4, <1>5, <1>6 DEF t

\* A commit looks at the deadlines that have passed before it changes any right: a
\* response that is open after it had its rights before it (commit_changes).
LEMMA CommitSettles ==
  ASSUME Shape, NEW r \in Rights, NEW j
  PROVE  /\ SettledCaches(r, j) \in [Works -> Caches]
         /\ \A w \in Works : Fades(cache[w], SettledCaches(r, j)[w])
         /\ SettledStreams(r, j) \in [Deliveries -> Streams]
         /\ \A d \in Deliveries :
              /\ Denies(stream[d], SettledStreams(r, j)[d])
              /\ SettledStreams(r, j)[d].state = "open" =>
                   stream[d].state = "open" /\ DeliveryHolds(right, job[stream[d].work], clock)
<1>. DEFINE c == RefreshCaches(cache, right, job)
            s == RefreshStreams(stream, c, right, job)
            e == RefreshCaches(c, r, j)
            t == RefreshStreams(s, e, r, j)
<1>1. e = SettledCaches(r, j) /\ t = SettledStreams(r, j)
  BY DEF SettledCaches, SettledStreams, Observed
<1>2. cache \in [Works -> Caches] /\ stream \in [Deliveries -> Streams] /\ right \in Rights
  BY DEF Shape
<1>3. c \in [Works -> Caches] /\ \A w \in Works : Fades(cache[w], c[w])
  BY <1>2, RefreshedCaches
<1>4. /\ s \in [Deliveries -> Streams]
      /\ \A d \in Deliveries :
           /\ Denies(stream[d], s[d])
           /\ s[d].state = "open" =>
                stream[d].state = "open" /\ DeliveryHolds(right, job[stream[d].work], clock)
  BY <1>2, RefreshedStreams
<1>. HIDE DEF c, s
<1>5. e \in [Works -> Caches] /\ \A w \in Works : Fades(c[w], e[w])
  BY <1>3, RefreshedCaches
<1>6. /\ t \in [Deliveries -> Streams]
      /\ \A d \in Deliveries : Denies(s[d], t[d]) /\ (t[d].state = "open" => s[d].state = "open")
  BY <1>4, RefreshedStreams
<1>. HIDE DEF e, t
<1>7. \A w \in Works : Fades(cache[w], e[w])
  <2>. TAKE w \in Works
  <2>1. cache[w] \in Caches /\ c[w] \in Caches /\ e[w] \in Caches
    BY <1>2, <1>3, <1>5
  <2>. QED BY <1>3, <1>5, <2>1, FadesCompose
<1>8. \A d \in Deliveries : Denies(stream[d], t[d])
  <2>. TAKE d \in Deliveries
  <2>1. stream[d] \in Streams /\ s[d] \in Streams /\ t[d] \in Streams
    BY <1>2, <1>4, <1>6
  <2>. QED BY <1>4, <1>6, <2>1, DeniesCompose
<1>. QED BY <1>1, <1>4, <1>5, <1>6, <1>7, <1>8

---------------------------------------------------------------------------
(* What a step may do to a response, and what it leaves of a job *)

\* The rights are as they were, later.
Calm ==
  /\ right' = right /\ job' = job
  /\ clock' \in Int /\ clock' >= clock
  /\ journal' = "ok" => journal = "ok"

\* A response that was bound stays bound to its job, and one that is still open had
\* its rights before the step, or the step changed none.
BoundStays(d) ==
  stream[d].state # "idle" =>
    /\ stream'[d].state # "idle" /\ stream'[d].work = stream[d].work
    /\ stream'[d].state = "open" =>
         /\ stream[d].state = "open"
         /\ DeliveryHolds(right, job[stream[d].work], clock) \/ Calm

\* Nothing is delivered to it.
SaysNothing(d) ==
  stream'[d].position = stream[d].position /\ stream'[d].terminal = stream[d].terminal

\* An outcome stays, and the backend is not invoked again for it.
OutcomeStays(w) == job[w] \in Ended => job'[w] = job[w] /\ invoked'[w] = invoked[w]

Good ==
  /\ Agree'
  /\ \A d \in Deliveries : BoundStays(d)
  /\ \A d \in lapsed : SaysNothing(d)
  /\ \A w \in Works : OutcomeStays(w)

\* The job of a task that does not move, while its terms may be taken back and its
\* cache may go.
LEMMA WorkFrame ==
  ASSUME Agree, NEW w \in Works, Fades(cache[w], cache'[w]),
         task'[w] = task[w], output'[w] = output[w], invoked'[w] = invoked[w],
         \/ job'[w] = job[w]
         \/ job[w] = "accepted" /\ job'[w] = "released",
         \/ live'[w] = live[w]
         \/ live'[w] = "none" /\ live[w] \notin {"queued", "running", "completing"},
         journal = "poisoned" => journal' = "poisoned"
  PROVE  TaskAgrees(w)' /\ CacheAgrees(w)' /\ OutcomeStays(w)
<1>1. TaskAgrees(w) /\ CacheAgrees(w)
  BY DEF Agree
<1>2. cache[w].events \in 0..MaxEvents + 1 /\ MaxEvents \in Nat
  BY ServiceAssumption DEF Agree, Shape, Caches
<1>3. TaskAgrees(w)'
  BY <1>1 DEF TaskAgrees, Ended
<1>4. CacheAgrees(w)'
  <2>1. /\ cache'[w].state # "retained" => cache'[w].events = 0
        /\ cache'[w].state = "retained" =>
             cache[w].state = "retained" /\ cache'[w].events = cache[w].events
        /\ cache[w].events <= MaxEvents => cache'[w].events <= MaxEvents
    BY <1>1, <1>2 DEF CacheAgrees, Fades
  <2>2. live'[w] = "finished" => live[w] = "finished" /\ job'[w] = "finished"
    BY <1>1 DEF CacheAgrees
  <2>3. job'[w] = "finished" => task'[w] = "done"
    BY <1>1 DEF CacheAgrees
  <2>4. live'[w] = "finished" /\ cache'[w].state = "retained" =>
          cache'[w].events = output'[w] /\ output'[w] >= 1
    BY <1>1, <2>1, <2>2 DEF CacheAgrees
  <2>5. live'[w] \in {"queued", "running", "completing"} => cache'[w].events <= MaxEvents
    BY <1>1, <2>1 DEF CacheAgrees
  <2>. QED BY <2>1, <2>2, <2>3, <2>4, <2>5 DEF CacheAgrees
<1>5. OutcomeStays(w)
  BY DEF OutcomeStays, Ended
<1>. QED BY <1>3, <1>4, <1>5

\* A cache that fades stays within its bounds, and one more event does where it is let in.
LEMMA FadesBounded ==
  ASSUME NEW c, NEW e, Fades(c, e), c.events \in Int, c.events <= MaxEvents, MaxEvents \in Nat,
         c.state # "retained" => c.events = 0
  PROVE  e.events <= MaxEvents /\ (e.state # "retained" => e.events = 0)
BY DEF Fades

LEMMA OneMore ==
  \A n \in 0..MaxEvents + 1 : n < MaxEvents => n + 1 \in 0..MaxEvents + 1 /\ n + 1 <= MaxEvents
BY ServiceAssumption

LEMMA RunningCache ==
  ASSUME NEW w, live'[w] \in {"queued", "running"}, job'[w] # "finished",
         cache'[w].state # "retained" => cache'[w].events = 0, cache'[w].events <= MaxEvents
  PROVE  CacheAgrees(w)'
BY DEF CacheAgrees

\* A response that is at most denied, while finished jobs and their outputs stay.
LEMMA StreamFrame ==
  ASSUME Agree, NEW d \in Deliveries, Denies(stream[d], stream'[d]),
         \A w \in Works : job[w] = "finished" => job'[w] = "finished" /\ output'[w] = output[w],
         stream'[d].state = "open" =>
           DeliveryHolds(right, job[stream[d].work], clock) \/ Calm
  PROVE  StreamAgrees(d)' /\ BoundStays(d) /\ SaysNothing(d)
<1>1. stream[d] \in Streams /\ StreamAgrees(d)
  BY DEF Agree, Shape
<1>2. /\ stream'[d].position = stream[d].position /\ stream'[d].terminal = stream[d].terminal
      /\ stream'[d].work = stream[d].work
      /\ stream[d].state # "open" => stream'[d].state = stream[d].state
      /\ stream'[d].state = "open" => stream[d].state = "open"
      /\ stream[d].state = "open" => stream'[d].state \in {"open", "denied"}
  BY <1>1 DEF Denies, Streams
<1>3. StreamAgrees(d)'
  <2>1. stream[d].work \in Works
    BY <1>1 DEF Streams
  <2>. QED BY <1>1, <1>2, <2>1 DEF StreamAgrees
<1>4. BoundStays(d)
  BY <1>2 DEF BoundStays
<1>. QED BY <1>2, <1>3, <1>4 DEF SaysNothing

\* Every commit leaves the responses so.
LEMMA CommitFrame ==
  ASSUME Agree, NEW r \in Rights, NEW j, Commit(r, j),
         \A w \in Works : job[w] = "finished" => j[w] = "finished" /\ output'[w] = output[w]
  PROVE  /\ stream' \in [Deliveries -> Streams]
         /\ \A d \in Deliveries : StreamAgrees(d)' /\ BoundStays(d) /\ SaysNothing(d)
<1>1. /\ stream' = SettledStreams(r, j) /\ job' = j
  BY DEF Commit
<1>2. /\ stream' \in [Deliveries -> Streams]
      /\ \A d \in Deliveries :
           /\ Denies(stream[d], stream'[d])
           /\ stream'[d].state = "open" => DeliveryHolds(right, job[stream[d].work], clock)
  BY <1>1, CommitSettles DEF Agree
<1>3. \A d \in Deliveries : StreamAgrees(d)' /\ BoundStays(d) /\ SaysNothing(d)
  BY <1>1, <1>2, StreamFrame
<1>. QED BY <1>2, <1>3

\* So do the steps that touch neither responses nor rights.
LEMMA CalmFrame ==
  ASSUME Agree, Calm, \A d \in Deliveries : Denies(stream[d], stream'[d]),
         \A w \in Works : job[w] = "finished" => output'[w] = output[w]
  PROVE  \A d \in Deliveries : StreamAgrees(d)' /\ BoundStays(d) /\ SaysNothing(d)
<1>1. \A w \in Works : job[w] = "finished" => job'[w] = "finished" /\ output'[w] = output[w]
  BY DEF Calm
<1>. QED BY <1>1, StreamFrame

---------------------------------------------------------------------------
(* One lemma per handler *)

LEMMA AcceptKeeps ==
  ASSUME IInv, NEW w \in Works, Accept(w)
  PROVE  Good
<1>. DEFINE jobs == [job EXCEPT ![w] = "accepted"]
            fresh == [state |-> "retained", events |-> 0, expires |-> TerminalDeadline, prefix |-> 0]
            settled == SettledCaches(right, jobs)
<1>1. /\ job[w] = "none" /\ status = "serving" /\ Commit(right, jobs)
      /\ cache' = [settled EXCEPT ![w] = RefreshedCache(fresh, right, "accepted", clock)]
      /\ live' = [v \in Works |-> IF v = w THEN "queued" ELSE IF Kept(v) THEN live[v] ELSE "none"]
      /\ task' = [task EXCEPT ![w] = "queued"]
      /\ UNCHANGED <<clock, status, output, invoked>>
  BY DEF Accept
<1>2. Agree /\ Shape /\ right \in Rights
  BY DEF IInv, Agree, Shape
<1>3. right' = right /\ job' = jobs /\ journal' = journal
  BY <1>1 DEF Commit
<1>4. /\ settled \in [Works -> Caches] /\ \A v \in Works : Fades(cache[v], settled[v])
  BY <1>2, CommitSettles
<1>5. fresh \in Caches
  BY ServiceAssumption DEF Caches
<1>. DEFINE first == RefreshedCache(fresh, right, "accepted", clock)
<1>6. first \in Caches /\ first.events = 0
  <2>1. first \in Caches /\ Fades(fresh, first)
    BY <1>2, <1>5, RefreshFades
  <2>2. fresh.events = 0
    OBVIOUS
  <2>. HIDE DEF fresh, first
  <2>. QED BY <2>1, <2>2 DEF Fades
<1>. HIDE DEF settled, first, fresh
<1>7. /\ stream' \in [Deliveries -> Streams]
      /\ \A d \in Deliveries : StreamAgrees(d)' /\ BoundStays(d) /\ SaysNothing(d)
  <2>1. \A v \in Works : job[v] = "finished" => jobs[v] = "finished" /\ output'[v] = output[v]
    BY <1>1, <1>2 DEF Shape
  <2>. QED BY <1>1, <1>2, <2>1, CommitFrame, Zenon
<1>8. Shape'
  <2>1. jobs \in [Works -> JobStates]
    BY <1>2 DEF Shape, JobStates, Open
  <2>2. cache' \in [Works -> Caches] /\ live' \in [Works -> Phases]
    BY <1>1, <1>2, <1>4, <1>6 DEF Shape, Phases, first
  <2>3. task' \in [Works -> {"none", "queued", "backend", "returned", "done"}]
    BY <1>1, <1>2 DEF Shape
  <2>. QED BY <1>1, <1>2, <1>3, <1>7, <2>1, <2>2, <2>3 DEF Shape
<1>9. ASSUME NEW v \in Works, v # w PROVE TaskAgrees(v)' /\ CacheAgrees(v)' /\ OutcomeStays(v)
  <2>1. /\ cache'[v] = settled[v] /\ task'[v] = task[v] /\ output'[v] = output[v]
        /\ invoked'[v] = invoked[v] /\ job'[v] = job[v] /\ journal' = journal
    BY <1>1, <1>2, <1>3, <1>4, <1>9 DEF Shape
  <2>2. \/ live'[v] = live[v]
        \/ live'[v] = "none" /\ ~Kept(v)
    BY <1>1, <1>9
  <2>3. ~Kept(v) => live[v] \notin {"queued", "running", "completing"}
    BY DEF Kept
  <2>. QED BY <1>2, <1>4, <2>1, <2>2, <2>3, WorkFrame, Zenon
<1>10. TaskAgrees(w)' /\ CacheAgrees(w)' /\ OutcomeStays(w)
  <2>1. /\ cache'[w] = first /\ task'[w] = "queued" /\ job'[w] = "accepted" /\ live'[w] = "queued"
        /\ invoked'[w] = invoked[w]
    BY <1>1, <1>2, <1>3, <1>4 DEF Shape, first
  <2>2. invoked[w] = 0
    BY <1>1, <1>2 DEF Agree, TaskAgrees
  <2>3. MaxEvents \in Nat
    BY ServiceAssumption
  <2>4. TaskAgrees(w)' /\ OutcomeStays(w)
    BY <1>1, <2>1, <2>2 DEF TaskAgrees, OutcomeStays, Ended
  <2>5. CacheAgrees(w)'
    BY <1>6, <2>1, <2>3 DEF CacheAgrees
  <2>. QED BY <2>4, <2>5
<1>11. status' # "stopped"
  BY <1>1
<1>12. \A d \in lapsed : d \in Deliveries
  BY DEF IInv, LapsedIsOver
<1>. QED BY <1>7, <1>8, <1>9, <1>10, <1>11, <1>12 DEF Good, Agree

\* The accepted phase is consumed before the backend is invoked, so it is invoked once.
LEMMA DispatchKeeps ==
  ASSUME IInv, NEW w \in Works, Dispatch(w)
  PROVE  Good
<1>. DEFINE jobs == [job EXCEPT ![w] = "running"]
            settled == SettledCaches(right, jobs)
<1>1. /\ task[w] = "queued" /\ job[w] = "accepted" /\ clock < TerminalDeadline
      /\ Commit(right, jobs) /\ cache' = settled
      /\ live' = [live EXCEPT ![w] = "running"] /\ status' = status
  BY DEF Dispatch, CanDispatch
<1>2. /\ \/ task' = [task EXCEPT ![w] = "backend"] /\ UNCHANGED output
         \/ task' = [task EXCEPT ![w] = "returned"] /\ output' = [output EXCEPT ![w] = -1]
      /\ \/ invoked' = [invoked EXCEPT ![w] = @ + 1]
         \/ UNCHANGED invoked
      /\ \/ UNCHANGED clock
         \/ clock' = clock + 1
  BY DEF Dispatch, Return
<1>3. Agree /\ Shape /\ right \in Rights /\ invoked[w] = 0
  BY <1>1 DEF IInv, Agree, Shape, TaskAgrees
<1>4. right' = right /\ job' = jobs /\ journal' = journal /\ journal = "ok"
  BY <1>1 DEF Commit
<1>5. settled \in [Works -> Caches] /\ \A v \in Works : Fades(cache[v], settled[v])
  BY <1>3, CommitSettles
<1>. HIDE DEF settled
<1>6. /\ stream' \in [Deliveries -> Streams]
      /\ \A d \in Deliveries : StreamAgrees(d)' /\ BoundStays(d) /\ SaysNothing(d)
  <2>1. \A v \in Works : job[v] = "finished" => jobs[v] = "finished" /\ output'[v] = output[v]
    BY <1>1, <1>2, <1>3 DEF Shape
  <2>. QED BY <1>1, <1>3, <2>1, CommitFrame, Zenon
<1>7. Shape'
  <2>1. jobs \in [Works -> JobStates]
    BY <1>3 DEF Shape, JobStates, Open
  <2>2. live' \in [Works -> Phases]
    BY <1>1, <1>3 DEF Shape, Phases
  <2>3. task' \in [Works -> {"none", "queued", "backend", "returned", "done"}]
    BY <1>2, <1>3 DEF Shape
  <2>4. output' \in [Works -> {-1} \cup 1..MaxEvents + 1]
    BY <1>2, <1>3 DEF Shape
  <2>5. invoked' \in [Works -> 0..1]
    BY <1>2, <1>3 DEF Shape
  <2>6. clock' \in 0..MaxTime
    BY <1>1, <1>2, <1>3, ServiceAssumption DEF Shape
  <2>. QED BY <1>1, <1>3, <1>4, <1>5, <1>6, <2>1, <2>2, <2>3, <2>4, <2>5, <2>6 DEF Shape
<1>8. ASSUME NEW v \in Works, v # w PROVE TaskAgrees(v)' /\ CacheAgrees(v)' /\ OutcomeStays(v)
  <2>1. /\ cache'[v] = settled[v] /\ task'[v] = task[v] /\ output'[v] = output[v]
        /\ invoked'[v] = invoked[v] /\ job'[v] = job[v] /\ live'[v] = live[v]
    BY <1>1, <1>2, <1>3, <1>4, <1>8 DEF Shape
  <2>. QED BY <1>3, <1>4, <1>5, <2>1, WorkFrame
<1>9. TaskAgrees(w)' /\ CacheAgrees(w)' /\ OutcomeStays(w)
  <2>1. /\ task'[w] \in {"backend", "returned"} /\ job'[w] = "running" /\ live'[w] = "running"
        /\ cache'[w] = settled[w]
    BY <1>1, <1>2, <1>3, <1>4 DEF Shape
  <2>2. TaskAgrees(w)' /\ OutcomeStays(w)
    BY <1>1, <2>1 DEF TaskAgrees, OutcomeStays, Ended
  <2>3. /\ cache[w].events <= MaxEvents /\ MaxEvents \in Nat
        /\ cache[w].state # "retained" => cache[w].events = 0
    BY <1>1, <1>3, ServiceAssumption, Zenon DEF Agree, TaskAgrees, CacheAgrees
  <2>4. Fades(cache[w], cache'[w])
    BY <1>5, <2>1
  <2>5. cache[w].events \in Int
    BY <1>3 DEF Agree, Shape, Caches
  <2>6. cache'[w].events <= MaxEvents /\ (cache'[w].state # "retained" => cache'[w].events = 0)
    BY <2>3, <2>4, <2>5, FadesBounded, Zenon
  <2>7. CacheAgrees(w)'
    <3>1. job'[w] # "finished" /\ live'[w] \in {"queued", "running"}
      BY <2>1
    <3>. QED BY <2>6, <3>1, RunningCache
  <2>. QED BY <2>2, <2>7
<1>10. status' = "stopped" => \A v \in Works : task'[v] \in {"none", "done"}
  BY <1>1, <1>3 DEF Agree
<1>11. \A d \in lapsed : d \in Deliveries
  BY DEF IInv, LapsedIsOver
<1>. QED BY <1>6, <1>7, <1>8, <1>9, <1>10, <1>11 DEF Good, Agree

\* A backend's answer, or none, is not yet an outcome.
LEMMA ReturnKeeps ==
  ASSUME IInv, NEW w \in Works, NEW events \in {-1} \cup 1..MaxEvents + 1,
         task[w] \in {"queued", "backend"}, Return(w, events),
         UNCHANGED <<clock, durable, status, live, cache, stream, invoked>>
  PROVE  Good
<1>1. /\ task' = [task EXCEPT ![w] = "returned"] /\ output' = [output EXCEPT ![w] = events]
      /\ UNCHANGED <<clock, right, job, journal, status, live, cache, stream, invoked>>
  BY DEF Return, durable
<1>2. Agree /\ Shape /\ clock \in Int
  BY DEF IInv, Agree, Shape
<1>3. job[w] # "finished" /\ TaskAgrees(w) /\ CacheAgrees(w)
  BY <1>2 DEF Agree, CacheAgrees
<1>4. \A d \in Deliveries : StreamAgrees(d)' /\ BoundStays(d) /\ SaysNothing(d)
  <2>1. Calm
    BY <1>1, <1>2 DEF Calm
  <2>2. \A v \in Works : job[v] = "finished" => output'[v] = output[v]
    BY <1>1, <1>2, <1>3 DEF Shape
  <2>3. \A d \in Deliveries : Denies(stream[d], stream'[d])
    BY <1>1 DEF Denies
  <2>. QED BY <1>2, <2>1, <2>2, <2>3, CalmFrame
<1>5. Shape'
  <2>1. task' \in [Works -> {"none", "queued", "backend", "returned", "done"}]
    BY <1>1, <1>2 DEF Shape
  <2>2. output' \in [Works -> {-1} \cup 1..MaxEvents + 1]
    BY <1>1, <1>2 DEF Shape
  <2>. QED BY <1>1, <1>2, <2>1, <2>2 DEF Shape
<1>6. ASSUME NEW v \in Works, v # w PROVE TaskAgrees(v)' /\ CacheAgrees(v)' /\ OutcomeStays(v)
  <2>1. task'[v] = task[v] /\ output'[v] = output[v] /\ Fades(cache[v], cache'[v])
    BY <1>1, <1>2, <1>6 DEF Shape, Fades
  <2>. QED BY <1>1, <1>2, <2>1, WorkFrame, Zenon
<1>7. TaskAgrees(w)' /\ CacheAgrees(w)' /\ OutcomeStays(w)
  <2>1. task'[w] = "returned"
    BY <1>1, <1>2 DEF Shape
  <2>2. TaskAgrees(w)' /\ OutcomeStays(w)
    BY <1>1, <1>3, <2>1, Zenon DEF TaskAgrees, OutcomeStays
  <2>3. CacheAgrees(w)'
    BY <1>1, <1>3, <2>1, Zenon DEF CacheAgrees
  <2>. QED BY <2>2, <2>3
<1>8. status' = "stopped" => \A v \in Works : task'[v] \in {"none", "done"}
  BY <1>1, <1>2 DEF Agree
<1>9. \A d \in lapsed : d \in Deliveries
  BY DEF IInv, LapsedIsOver
<1>. QED BY <1>4, <1>5, <1>6, <1>7, <1>8, <1>9 DEF Good, Agree

LEMMA DispatchRefusedKeeps ==
  ASSUME IInv, NEW w \in Works, DispatchRefused(w)
  PROVE  Good
<1>1. -1 \in {-1} \cup 1..MaxEvents + 1
  OBVIOUS
<1>. QED BY <1>1, ReturnKeeps DEF DispatchRefused

LEMMA BackendReturnsKeeps ==
  ASSUME IInv, NEW w \in Works, BackendReturns(w)
  PROVE  Good
BY ReturnKeeps DEF BackendReturns

LEMMA ProgressKeeps ==
  ASSUME IInv, NEW w \in Works, Progress(w)
  PROVE  Good
<1>1. /\ live[w] = "running"
      /\ UNCHANGED <<clock, right, job, journal, status, live, task, output, stream, invoked>>
  BY DEF Progress, durable
<1>2. Agree /\ Shape /\ clock \in Int /\ TaskAgrees(w) /\ CacheAgrees(w)
  BY DEF IInv, Agree, Shape
<1>3. \/ cache' = [cache EXCEPT ![w] = Cancelled(@)]
      \/ /\ cache[w].state = "retained" /\ cache[w].events < MaxEvents
         /\ cache' = [cache EXCEPT ![w].events = @ + 1, ![w].prefix = @ + 1]
  BY DEF Progress
<1>. DEFINE more == [cache[w] EXCEPT !.events = @ + 1, !.prefix = @ + 1]
<1>4. \/ cache' = [cache EXCEPT ![w] = Cancelled(cache[w])]
      \/ /\ cache[w].state = "retained" /\ cache[w].events < MaxEvents
         /\ cache' = [cache EXCEPT ![w] = more]
  BY <1>2, <1>3 DEF Shape, Caches
<1>5. cache[w] \in Caches /\ cache[w].events \in 0..MaxEvents + 1 /\ MaxEvents \in Nat
  BY <1>2, ServiceAssumption DEF Shape, Caches
<1>6. cache[w].events < MaxEvents =>
        more \in Caches /\ more.state = cache[w].state /\ more.events = cache[w].events + 1
  <2>1. cache[w].prefix \in Nat /\ cache[w].prefix + 1 \in Nat
    BY <1>5 DEF Caches
  <2>2. cache[w].events < MaxEvents => cache[w].events + 1 \in 0..MaxEvents + 1
    BY <1>5, OneMore, Zenon
  <2>3. cache[w].state \in {"none", "retained", "cancelled"} /\ cache[w].expires \in Int
    BY <1>5 DEF Caches
  <2>4. /\ DOMAIN more = DOMAIN cache[w] /\ more = [f \in DOMAIN more |-> more[f]]
        /\ DOMAIN cache[w] = {"state", "events", "expires", "prefix"}
    BY <1>5, Zenon DEF Caches
  <2>5. /\ more.state = cache[w].state /\ more.events = cache[w].events + 1
        /\ more.expires = cache[w].expires /\ more.prefix = cache[w].prefix + 1
    BY <1>5 DEF Caches
  <2>. HIDE DEF more
  <2>6. cache[w].events < MaxEvents => more \in Caches
    BY <2>1, <2>2, <2>3, <2>4, <2>5 DEF Caches
  <2>. QED BY <2>5, <2>6, Zenon
<1>7. Cancelled(cache[w]) \in Caches /\ Fades(cache[w], Cancelled(cache[w]))
  BY <1>5, CancelledFades
<1>. HIDE DEF more
<1>8. cache' \in [Works -> Caches]
  BY <1>2, <1>4, <1>6, <1>7 DEF Shape
<1>9. \A d \in Deliveries : StreamAgrees(d)' /\ BoundStays(d) /\ SaysNothing(d)
  <2>1. Calm /\ \A d \in Deliveries : Denies(stream[d], stream'[d])
    BY <1>1, <1>2 DEF Calm, Denies
  <2>. QED BY <1>1, <1>2, <2>1, CalmFrame, Zenon
<1>10. Shape'
  BY <1>1, <1>2, <1>8 DEF Shape
<1>11. ASSUME NEW v \in Works, v # w PROVE TaskAgrees(v)' /\ CacheAgrees(v)' /\ OutcomeStays(v)
  <2>1. Fades(cache[v], cache'[v])
    BY <1>2, <1>4, <1>11 DEF Shape, Fades
  <2>. QED BY <1>1, <1>2, <2>1, WorkFrame, Zenon
<1>12. TaskAgrees(w)' /\ CacheAgrees(w)' /\ OutcomeStays(w)
  <2>1. TaskAgrees(w)' /\ OutcomeStays(w)
    BY <1>1, <1>2, Zenon DEF TaskAgrees, OutcomeStays
  <2>2. /\ cache'[w].state # "retained" => cache'[w].events = 0
        /\ cache'[w].events <= MaxEvents
    <3>1. CASE cache'[w] = Cancelled(cache[w])
      <4>1. /\ cache[w].events <= MaxEvents /\ cache[w].events \in Int
            /\ cache[w].state # "retained" => cache[w].events = 0
        BY <1>1, <1>2, <1>5 DEF CacheAgrees
      <4>. QED BY <1>5, <1>7, <3>1, <4>1, FadesBounded, Zenon
    <3>2. CASE cache'[w] = more /\ cache[w].state = "retained" /\ cache[w].events < MaxEvents
      <4>1. cache[w].events + 1 <= MaxEvents
        BY <1>5, <3>2, OneMore, Zenon
      <4>. QED BY <1>6, <3>2, <4>1, Zenon
    <3>. QED BY <1>2, <1>4, <3>1, <3>2 DEF Shape
  <2>3. CacheAgrees(w)'
    BY <1>1, <1>2, <2>2 DEF CacheAgrees
  <2>. QED BY <2>1, <2>3
<1>13. status' = "stopped" => \A v \in Works : task'[v] \in {"none", "done"}
  BY <1>1, <1>2 DEF Agree
<1>14. \A d \in lapsed : d \in Deliveries
  BY DEF IInv, LapsedIsOver
<1>. QED BY <1>9, <1>10, <1>11, <1>12, <1>13, <1>14 DEF Good, Agree

\* A finished phase is entered with its outcome committed and its transcript verified.
LEMMA FinishKeeps ==
  ASSUME IInv, NEW w \in Works, Finish(w)
  PROVE  Good
<1>1. PICK answered, next :
        /\ answered <=> (Verified(w) /\ clock =< TerminalDeadline)
        /\ next = IF job[w] = "accepted" THEN "released" ELSE IF answered THEN "finished" ELSE "failed"
        /\ FinishAs(w, answered, next)
  BY Zenon DEF Finish
<1>. DEFINE jobs == [job EXCEPT ![w] = next]
            settled == SettledCaches(right, jobs)
            c == settled[w]
            last == IF ~answered THEN Cancelled(c)
                    ELSE IF c.state = "retained" THEN [c EXCEPT !.events = output[w]] ELSE c
<1>2. /\ task[w] = "returned" /\ task' = [task EXCEPT ![w] = "done"] /\ job[w] \in Open
      /\ UNCHANGED <<clock, status, output, invoked>>
  BY DEF Finish
<1>3. Agree /\ Shape /\ right \in Rights /\ TaskAgrees(w) /\ CacheAgrees(w)
  BY DEF IInv, Agree, Shape
<1>4. settled \in [Works -> Caches] /\ \A v \in Works : Fades(cache[v], settled[v])
  BY <1>3, CommitSettles, Zenon
<1>5. /\ Commit(right, jobs)
      /\ cache' = [settled EXCEPT ![w] = last]
      /\ live' = [live EXCEPT ![w] = IF answered THEN "finished" ELSE "refused"]
  BY <1>1, <1>4 DEF FinishAs
<1>6. right' = right /\ job' = jobs /\ journal' = journal /\ journal = "ok"
  BY <1>5 DEF Commit
<1>7. job[w] \in {"accepted", "running"} /\ live[w] \in {"queued", "running"}
  BY <1>2, <1>3, Zenon DEF TaskAgrees, Open
<1>8. /\ answered => job[w] = "running" /\ next = "finished" /\ output[w] # -1
      /\ next \in Ended /\ (next = "released" => job[w] # "running")
      /\ next = "finished" => answered
  BY <1>1, <1>7 DEF Verified, Ended
<1>10. c \in Caches /\ c.state # "retained" => c.events = 0
  <2>1. c \in Caches /\ Fades(cache[w], c)
    BY <1>4, Zenon
  <2>2. cache[w].state # "retained" => cache[w].events = 0
    BY <1>3 DEF CacheAgrees
  <2>. HIDE DEF c
  <2>. QED BY <2>1, <2>2, Zenon DEF Fades
<1>11. output[w] \in {-1} \cup 1..MaxEvents + 1
  BY <1>3 DEF Shape
<1>12. /\ last \in Caches
       /\ last.state # "retained" => last.events = 0
       /\ answered /\ last.state = "retained" => last.events = output[w] /\ output[w] >= 1
  <2>1. c \in Caches
    BY <1>4, Zenon
  <2>. HIDE DEF c
  <2>2. CASE ~answered
    <3>1. last = Cancelled(c)
      BY <2>2
    <3>2. Cancelled(c) \in Caches /\ Fades(c, Cancelled(c))
      BY <2>1, CancelledFades
    <3>3. c.state # "retained" => c.events = 0
      BY <1>10, <2>1
    <3>. QED BY <2>2, <3>1, <3>2, <3>3 DEF Fades
  <2>3. CASE answered /\ c.state = "retained"
    <3>1. last = [c EXCEPT !.events = output[w]]
      BY <2>3
    <3>2. output[w] \in 1..MaxEvents + 1 /\ MaxEvents \in Nat
      BY <1>8, <1>11, <2>3, ServiceAssumption
    <3>3. output[w] \in 0..MaxEvents + 1 /\ output[w] >= 1
      BY <3>2
    <3>4. last \in Caches /\ last.events = output[w] /\ last.state = c.state
      BY <2>1, <3>1, <3>3 DEF Caches
    <3>. QED BY <2>3, <3>3, <3>4
  <2>4. CASE answered /\ c.state # "retained"
    BY <1>10, <2>1, <2>4
  <2>. QED BY <2>2, <2>3, <2>4
<1>. HIDE DEF settled, last, c
<1>13. /\ stream' \in [Deliveries -> Streams]
       /\ \A d \in Deliveries : StreamAgrees(d)' /\ BoundStays(d) /\ SaysNothing(d)
  <2>1. \A v \in Works : job[v] = "finished" => jobs[v] = "finished" /\ output'[v] = output[v]
    BY <1>2, <1>3, <1>7 DEF Shape
  <2>. QED BY <1>3, <1>5, <2>1, CommitFrame, Zenon
<1>14. Shape'
  <2>1. jobs \in [Works -> JobStates]
    BY <1>3, <1>8 DEF Shape, JobStates
  <2>2. live' \in [Works -> Phases]
    BY <1>3, <1>5 DEF Shape, Phases
  <2>3. task' \in [Works -> {"none", "queued", "backend", "returned", "done"}]
    BY <1>2, <1>3 DEF Shape
  <2>4. cache' \in [Works -> Caches]
    BY <1>4, <1>5, <1>12, Zenon
  <2>. QED BY <1>2, <1>3, <1>6, <1>13, <2>1, <2>2, <2>3, <2>4 DEF Shape
<1>15. ASSUME NEW v \in Works, v # w PROVE TaskAgrees(v)' /\ CacheAgrees(v)' /\ OutcomeStays(v)
  <2>1. /\ cache'[v] = settled[v] /\ task'[v] = task[v] /\ output'[v] = output[v]
        /\ invoked'[v] = invoked[v] /\ job'[v] = job[v] /\ live'[v] = live[v]
    BY <1>2, <1>3, <1>4, <1>5, <1>6, <1>15 DEF Shape
  <2>. QED BY <1>3, <1>4, <1>6, <2>1, WorkFrame, Zenon
<1>16. TaskAgrees(w)' /\ CacheAgrees(w)' /\ OutcomeStays(w)
  <2>1. /\ task'[w] = "done" /\ job'[w] = next /\ cache'[w] = last
        /\ live'[w] = IF answered THEN "finished" ELSE "refused"
        /\ output'[w] = output[w] /\ invoked'[w] = invoked[w]
    BY <1>2, <1>3, <1>4, <1>5, <1>6 DEF Shape
  <2>2. TaskAgrees(w)'
    BY <1>3, <1>7, <1>8, <2>1, Zenon DEF TaskAgrees, Ended
  <2>3. OutcomeStays(w)
    BY <1>7, <1>8, <2>1, Zenon DEF OutcomeStays, Ended
  <2>4. CacheAgrees(w)'
    BY <1>8, <1>12, <2>1, Zenon DEF CacheAgrees
  <2>. QED BY <2>2, <2>3, <2>4
<1>17. status' = "stopped" => \A v \in Works : task'[v] \in {"none", "done"}
  BY <1>2, <1>3 DEF Agree
<1>18. \A d \in lapsed : d \in Deliveries
  BY DEF IInv, LapsedIsOver
<1>. QED BY <1>13, <1>14, <1>15, <1>16, <1>17, <1>18 DEF Good, Agree
=============================================================================
