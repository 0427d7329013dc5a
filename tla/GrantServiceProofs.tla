------------------------- MODULE GrantServiceProofs -------------------------
(***************************************************************************)
(* What a grant service tells a client, for any set of jobs, deliveries,   *)
(* deadlines and rights: the steps of deliveries, of time and of the       *)
(* administration keep the invariant too, and what it promises follows.    *)
(***************************************************************************)
EXTENDS GrantServiceTasks, TLAPS

---------------------------------------------------------------------------
(* A service that starts, and one that does nothing *)

LEMMA InitInv ==
  ASSUME Init
  PROVE  IInv
<1>1. MaxEvents \in Nat /\ MaxTime \in Nat /\ (CHOOSE w \in Works : TRUE) \in Works
  BY ServiceAssumption
<1>2. /\ clock = 0 /\ journal = "ok" /\ status = "serving" /\ lapsed = {}
      /\ right \in [until : Lifetimes, enabled : {TRUE}, current : {TRUE}]
  BY Zenon DEF Init
<1>3. /\ job = [w \in Works |-> "none"] /\ live = [w \in Works |-> "none"]
      /\ task = [w \in Works |-> "none"] /\ output = [w \in Works |-> -1]
      /\ invoked = [w \in Works |-> 0]
  BY Zenon DEF Init
<1>4. cache \in [Works -> Caches] /\ \A w \in Works : cache[w].events = 0 /\ cache[w].state = "none"
  BY <1>1 DEF Init, Caches
<1>5. stream \in [Deliveries -> Streams] /\ \A d \in Deliveries : ~ stream[d].terminal
  <2>. DEFINE s == [state |-> "idle", work |-> CHOOSE w \in Works : TRUE, cached |-> FALSE,
                    position |-> 0, terminal |-> FALSE]
  <2>1. stream = [d \in Deliveries |-> s]
    BY Zenon DEF Init
  <2>2. s \in Streams /\ ~ s.terminal
    BY <1>1 DEF Streams
  <2>. HIDE DEF s
  <2>. QED BY <2>1, <2>2
<1>6. clock \in 0..MaxTime /\ right \in Rights
  <2>1. right \in Rights
    BY <1>2, Zenon DEF Rights
  <2>. QED BY <1>1, <1>2, <2>1
<1>7. Shape
  BY <1>1, <1>2, <1>3, <1>4, <1>5, <1>6 DEF Shape, JobStates, Phases
<1>8. \A w \in Works : TaskAgrees(w)
  BY <1>3 DEF TaskAgrees, Ended
<1>9. \A w \in Works : CacheAgrees(w)
  BY <1>3, <1>4 DEF CacheAgrees
<1>10. \A d \in Deliveries : StreamAgrees(d)
  BY <1>5, Zenon DEF StreamAgrees
<1>. QED BY <1>2, <1>7, <1>8, <1>9, <1>10 DEF IInv, Agree, LapsedIsOver

LEMMA StutterKeeps ==
  ASSUME IInv, UNCHANGED vars
  PROVE  IInv'
<1>1. UNCHANGED <<clock, right, job, journal, status, live, cache, task, output, stream, invoked, lapsed>>
  BY DEF vars
<1>2. Shape'
  BY <1>1 DEF IInv, Agree, Shape
<1>3. \A w \in Works : TaskAgrees(w)' /\ CacheAgrees(w)'
  BY <1>1, Zenon DEF IInv, Agree, TaskAgrees, CacheAgrees
<1>4. \A d \in Deliveries : StreamAgrees(d)'
  BY <1>1, Zenon DEF IInv, Agree, StreamAgrees
<1>5. LapsedIsOver'
  BY <1>1 DEF IInv, LapsedIsOver, DeliveryHolds
<1>6. (status = "stopped" => \A w \in Works : task[w] \in {"none", "done"})'
  BY <1>1 DEF IInv, Agree
<1>. QED BY <1>2, <1>3, <1>4, <1>5, <1>6 DEF IInv, Agree

---------------------------------------------------------------------------
(* Deliveries, time and administration: the tasks do not move *)

\* What may be sent without the result stays within the limit on events.
LEMMA EndBounded ==
  ASSUME Agree, NEW w \in Works, live[w] \notin {"none", "refused"}
  PROVE  StreamEnd(w) \in Int /\ StreamEnd(w) <= MaxEvents
<1>1. live[w] \in {"none", "queued", "running", "completing", "finished", "refused"}
  BY DEF Agree, Shape, Phases
<1>2. cache[w].events \in 0..MaxEvents + 1 /\ MaxEvents \in Nat
  BY ServiceAssumption DEF Agree, Shape, Caches
<1>3. CacheAgrees(w)
  BY DEF Agree
<1>. QED BY <1>1, <1>2, <1>3 DEF StreamEnd, CacheAgrees

LEMMA TasksStay ==
  ASSUME IInv, Shape', \A w \in Works : Fades(cache[w], cache'[w]),
         UNCHANGED <<live, task, output, invoked>>,
         \A w \in Works : job'[w] = job[w] \/ (job[w] = "accepted" /\ job'[w] = "released"),
         journal = "poisoned" => journal' = "poisoned",
         status' \in {status, "failed"} \/ (status = "serving" /\ status' = "draining"),
         \A d \in Deliveries : StreamAgrees(d)' /\ BoundStays(d),
         \A d \in lapsed : SaysNothing(d)
  PROVE  Good
<1>1. Agree
  BY DEF IInv
<1>2. \A w \in Works : TaskAgrees(w)' /\ CacheAgrees(w)' /\ OutcomeStays(w)
  BY <1>1, WorkFrame
<1>3. status' = "stopped" => \A w \in Works : task'[w] \in {"none", "done"}
  BY <1>1, Zenon DEF Agree
<1>. QED BY <1>2, <1>3, Zenon DEF Good, Agree

\* One cache may go, nothing else.
LEMMA OneFades ==
  ASSUME Shape, NEW w \in Works, NEW B \in BOOLEAN,
         cache' = [cache EXCEPT ![w] = IF B THEN Cancelled(cache[w]) ELSE cache[w]]
  PROVE  cache' \in [Works -> Caches] /\ \A v \in Works : Fades(cache[v], cache'[v])
<1>1. cache \in [Works -> Caches] /\ cache[w] \in Caches
  BY DEF Shape
<1>2. Cancelled(cache[w]) \in Caches /\ Fades(cache[w], Cancelled(cache[w]))
  BY <1>1, CancelledFades
<1>3. \A v \in Works : Fades(cache[v], cache[v])
  BY DEF Fades
<1>. QED BY <1>1, <1>2, <1>3

LEMMA AllFade ==
  ASSUME Shape
  PROVE  Discarded \in [Works -> Caches] /\ \A v \in Works : Fades(cache[v], Discarded[v])
<1>1. cache \in [Works -> Caches]
  BY DEF Shape
<1>. QED BY <1>1, CancelledFades DEF Discarded

LEMMA ExpireKeeps ==
  ASSUME IInv, NEW w \in Works, Expire(w)
  PROVE  Good
<1>1. UNCHANGED <<clock, right, job, journal, status, live, task, output, stream, invoked>>
  BY DEF Expire, durable
<1>2. Agree /\ Shape
  BY DEF IInv, Agree
<1>3. cache' \in [Works -> Caches] /\ \A v \in Works : Fades(cache[v], cache'[v])
  <2>1. cache' = [cache EXCEPT ![w] = IF TRUE THEN Cancelled(cache[w]) ELSE cache[w]]
    BY DEF Expire
  <2>. QED BY <1>2, <2>1, OneFades, Zenon
<1>4. Shape'
  BY <1>1, <1>2, <1>3 DEF Shape
<1>5. \A d \in Deliveries : StreamAgrees(d)' /\ BoundStays(d) /\ SaysNothing(d)
  <2>1. clock \in Int
    BY <1>2 DEF Shape
  <2>2. Calm /\ \A d \in Deliveries : Denies(stream[d], stream'[d])
    BY <1>1, <2>1 DEF Calm, Denies
  <2>. QED BY <1>1, <1>2, <2>2, CalmFrame, Zenon
<1>6. \A d \in lapsed : d \in Deliveries
  BY DEF IInv, LapsedIsOver
<1>. QED BY <1>1, <1>3, <1>4, <1>5, <1>6, TasksStay

LEMMA TickKeeps ==
  ASSUME IInv, Tick
  PROVE  Good
<1>1. UNCHANGED <<right, job, journal, status, live, cache, task, output, stream, invoked>>
  BY DEF Tick, durable, memory
<1>2. Agree /\ Shape
  BY DEF IInv, Agree
<1>3. clock' \in 0..MaxTime /\ clock' >= clock /\ clock' \in Int
  BY <1>2, ServiceAssumption DEF Tick, Shape
<1>4. Shape'
  BY <1>1, <1>2, <1>3 DEF Shape
<1>5. \A d \in Deliveries : StreamAgrees(d)' /\ BoundStays(d) /\ SaysNothing(d)
  <2>1. Calm /\ \A d \in Deliveries : Denies(stream[d], stream'[d])
    BY <1>1, <1>3 DEF Calm, Denies
  <2>. QED BY <1>1, <1>2, <2>1, CalmFrame
<1>6. \A d \in lapsed : d \in Deliveries
  BY DEF IInv, LapsedIsOver
<1>7. \A w \in Works : Fades(cache[w], cache'[w])
  BY <1>1 DEF Fades
<1>. QED BY <1>1, <1>4, <1>5, <1>6, <1>7, TasksStay

LEMMA AdministerKeeps ==
  ASSUME IInv, NEW r \in Rights, Administer(r)
  PROVE  Good
<1>1. PICK jobs :
        /\ jobs = [w \in Works |-> IF job[w] = "accepted" /\ (~ r.enabled \/ ~ r.current)
                                   THEN "released" ELSE job[w]]
        /\ Commit(r, jobs) /\ cache' = SettledCaches(r, jobs)
  BY DEF Administer
<1>2. UNCHANGED <<clock, status, live, task, output, invoked>>
  BY DEF Administer
<1>3. right' = r /\ job' = jobs /\ journal' = journal
  BY <1>1 DEF Commit
<1>4. Agree /\ Shape
  BY DEF IInv, Agree
<1>5. cache' \in [Works -> Caches] /\ \A v \in Works : Fades(cache[v], cache'[v])
  BY <1>1, <1>4, CommitSettles, Zenon
<1>6. \A w \in Works : jobs[w] = job[w] \/ (job[w] = "accepted" /\ jobs[w] = "released")
  BY <1>1
<1>7. jobs \in [Works -> JobStates]
  BY <1>1, <1>4 DEF Shape, JobStates, Ended
<1>8. /\ stream' \in [Deliveries -> Streams]
      /\ \A d \in Deliveries : StreamAgrees(d)' /\ BoundStays(d) /\ SaysNothing(d)
  <2>1. \A w \in Works : job[w] = "finished" => jobs[w] = "finished" /\ output'[w] = output[w]
    BY <1>2, <1>6
  <2>. QED BY <1>1, <1>4, <2>1, CommitFrame
<1>9. Shape'
  BY <1>2, <1>3, <1>4, <1>5, <1>7, <1>8 DEF Shape
<1>10. \A d \in lapsed : d \in Deliveries
  BY DEF IInv, LapsedIsOver
<1>. QED BY <1>2, <1>3, <1>5, <1>6, <1>8, <1>9, <1>10, TasksStay

\* A failed append denies every open response and takes every body.
LEMMA JournalFailsKeeps ==
  ASSUME IInv, JournalFails
  PROVE  Good
<1>1. /\ UNCHANGED <<clock, right, job, live, task, output, invoked>>
      /\ journal = "ok" /\ journal' = "poisoned" /\ cache' = Discarded
      /\ status' \in {status, "failed"}
  BY DEF JournalFails
<1>2. Agree /\ Shape
  BY DEF IInv, Agree
<1>3. cache' \in [Works -> Caches] /\ \A v \in Works : Fades(cache[v], cache'[v])
  BY <1>1, <1>2, AllFade
<1>4. \A d \in Deliveries : stream'[d] \in Streams /\ Denies(stream[d], stream'[d])
  <2>. TAKE d \in Deliveries
  <2>1. stream[d] \in Streams
    BY <1>2 DEF Shape
  <2>2. [stream[d] EXCEPT !.state = "denied"] \in Streams
    BY <2>1 DEF Streams
  <2>3. stream'[d] = IF stream[d].state = "open"
                     THEN [stream[d] EXCEPT !.state = "denied"] ELSE stream[d]
    BY DEF JournalFails
  <2>. QED BY <2>1, <2>2, <2>3 DEF Denies
<1>5. stream' \in [Deliveries -> Streams]
  <2>1. stream' = [d \in Deliveries |-> stream'[d]]
    BY DEF JournalFails
  <2>. QED BY <1>4, <2>1
<1>6. Shape'
  BY <1>1, <1>2, <1>3, <1>5 DEF Shape
<1>7. \A d \in Deliveries : StreamAgrees(d)' /\ BoundStays(d) /\ SaysNothing(d)
  <2>1. clock \in Int
    BY <1>2 DEF Shape
  <2>2. Calm
    BY <1>1, <2>1 DEF Calm
  <2>. QED BY <1>1, <1>2, <1>4, <2>2, CalmFrame
<1>8. \A d \in lapsed : d \in Deliveries
  BY DEF IInv, LapsedIsOver
<1>. QED BY <1>1, <1>3, <1>6, <1>7, <1>8, TasksStay, Zenon

\* Nothing but the status changes, and the bodies that go with a failure.
LEMMA StatusKeeps ==
  ASSUME IInv, status' = "failed" \/ (status = "serving" /\ status' = "draining"),
         cache' = cache \/ cache' = Discarded,
         UNCHANGED <<clock, durable, live, task, output, stream, invoked>>
  PROVE  Good
<1>1. UNCHANGED <<clock, right, job, journal, live, task, output, stream, invoked>>
  BY DEF durable
<1>2. Agree /\ Shape /\ right \in Rights /\ clock \in Int
  BY DEF IInv, Agree, Shape
<1>3. \A d \in lapsed : d \in Deliveries
  BY Zenon DEF IInv, LapsedIsOver
<1>4. cache' \in [Works -> Caches] /\ \A v \in Works : Fades(cache[v], cache'[v])
  <2>1. CASE cache' = Discarded
    BY <1>2, <2>1, AllFade
  <2>2. CASE cache' = cache
    BY <1>2, <2>2 DEF Shape, Fades
  <2>. QED BY <2>1, <2>2
<1>5. Shape'
  BY <1>1, <1>2, <1>4 DEF Shape
<1>6. \A d \in Deliveries : StreamAgrees(d)' /\ BoundStays(d) /\ SaysNothing(d)
  <2>1. Calm /\ \A d \in Deliveries : Denies(stream[d], stream'[d])
    BY <1>1, <1>2 DEF Calm, Denies
  <2>. QED BY <1>1, <1>2, <2>1, CalmFrame, Zenon
<1>. QED BY <1>1, <1>2, <1>3, <1>4, <1>5, <1>6, TasksStay, Zenon

LEMMA DrainKeeps ==
  ASSUME IInv, Drain
  PROVE  Good
BY StatusKeeps DEF Drain

LEMMA ReleaseFailsKeeps ==
  ASSUME IInv, NEW w \in Works, ReleaseFails(w)
  PROVE  Good
BY StatusKeeps DEF ReleaseFails

LEMMA ReleaseQueuedKeeps ==
  ASSUME IInv, NEW x \in Works, ReleaseQueued(x)
  PROVE  Good
<1>1. PICK jobs \in {[job EXCEPT ![x] = "released"]} :
        Commit(right, jobs) /\ cache' = SettledCaches(right, jobs)
  BY Zenon DEF ReleaseQueued
<1>2. status = "draining" /\ job[x] = "accepted" /\ UNCHANGED <<clock, status, live, task, output, invoked>>
  BY DEF ReleaseQueued, Queued
<1>3. Agree /\ Shape /\ right \in Rights /\ clock \in Int
  BY DEF IInv, Agree, Shape
<1>4. \A d \in lapsed : d \in Deliveries
  BY Zenon DEF IInv, LapsedIsOver
<1>5. right' = right /\ job' = jobs /\ journal' = journal
  BY <1>1 DEF Commit
<1>6. cache' \in [Works -> Caches] /\ \A v \in Works : Fades(cache[v], cache'[v])
  BY <1>1, <1>3, CommitSettles, Zenon
<1>7. \A w \in Works : jobs[w] = job[w] \/ (job[w] = "accepted" /\ jobs[w] = "released")
  BY <1>1, <1>2, <1>3 DEF Shape
<1>8. jobs \in [Works -> JobStates]
  BY <1>1, <1>3 DEF Shape, JobStates, Ended
<1>9. /\ stream' \in [Deliveries -> Streams]
      /\ \A d \in Deliveries : StreamAgrees(d)' /\ BoundStays(d) /\ SaysNothing(d)
  <2>1. \A w \in Works : job[w] = "finished" => jobs[w] = "finished" /\ output'[w] = output[w]
    BY <1>2, <1>7
  <2>. QED BY <1>1, <1>3, <2>1, CommitFrame
<1>10. Shape'
  BY <1>2, <1>3, <1>5, <1>6, <1>8, <1>9 DEF Shape
<1>11. status' = "draining"
  BY <1>2
<1>. QED BY <1>2, <1>4, <1>11, <1>5, <1>6, <1>7, <1>9, <1>10, TasksStay, Zenon

LEMMA StopKeeps ==
  ASSUME IInv, Stop
  PROVE  Good
<1>1. /\ status' = "stopped" /\ \A w \in Works : task[w] \in {"none", "done"}
      /\ UNCHANGED <<clock, right, job, journal, live, cache, task, output, stream, invoked>>
  BY DEF Stop, durable
<1>2. Agree /\ Shape /\ clock \in Int
  BY DEF IInv, Agree, Shape
<1>3. Shape'
  BY <1>1, <1>2 DEF Shape
<1>4. \A d \in Deliveries : StreamAgrees(d)' /\ BoundStays(d) /\ SaysNothing(d)
  <2>1. Calm /\ \A d \in Deliveries : Denies(stream[d], stream'[d])
    BY <1>1, <1>2 DEF Calm, Denies
  <2>. QED BY <1>1, <1>2, <2>1, CalmFrame
<1>5. \A w \in Works : TaskAgrees(w)' /\ CacheAgrees(w)' /\ OutcomeStays(w)
  <2>1. \A w \in Works : Fades(cache[w], cache'[w])
    BY <1>1 DEF Fades
  <2>. QED BY <1>1, <1>2, <2>1, WorkFrame
<1>6. \A d \in lapsed : d \in Deliveries
  BY DEF IInv, LapsedIsOver
<1>7. status' = "stopped" => \A w \in Works : task'[w] \in {"none", "done"}
  BY <1>1
<1>. QED BY <1>3, <1>4, <1>5, <1>6, <1>7 DEF Good, Agree

\* The outcome could not be written: the service fails and every body is dropped.
LEMMA FinishFailsKeeps ==
  ASSUME IInv, NEW w \in Works, FinishFails(w)
  PROVE  Good
<1>1. /\ task[w] = "returned" /\ journal = "poisoned" /\ status' = "failed" /\ cache' = Discarded
      /\ live' = [live EXCEPT ![w] = "refused"] /\ task' = [task EXCEPT ![w] = "done"]
      /\ UNCHANGED <<clock, right, job, journal, output, stream, invoked>>
  BY DEF FinishFails, durable
<1>2. Agree /\ Shape /\ clock \in Int /\ TaskAgrees(w) /\ CacheAgrees(w)
  BY DEF IInv, Agree, Shape
<1>3. cache' \in [Works -> Caches] /\ \A v \in Works : Fades(cache[v], cache'[v])
  BY <1>1, <1>2, AllFade
<1>4. Shape'
  <2>1. live' \in [Works -> Phases]
    BY <1>1, <1>2 DEF Shape, Phases
  <2>2. task' \in [Works -> {"none", "queued", "backend", "returned", "done"}]
    BY <1>1, <1>2 DEF Shape
  <2>. QED BY <1>1, <1>2, <1>3, <2>1, <2>2, Zenon DEF Shape
<1>5. \A d \in Deliveries : StreamAgrees(d)' /\ BoundStays(d) /\ SaysNothing(d)
  <2>1. Calm /\ \A d \in Deliveries : Denies(stream[d], stream'[d])
    BY <1>1, <1>2 DEF Calm, Denies
  <2>. QED BY <1>1, <1>2, <2>1, CalmFrame
<1>6. ASSUME NEW v \in Works, v # w PROVE TaskAgrees(v)' /\ CacheAgrees(v)' /\ OutcomeStays(v)
  <2>1. task'[v] = task[v] /\ live'[v] = live[v]
    BY <1>1, <1>2, <1>6 DEF Shape
  <2>. QED BY <1>1, <1>2, <1>3, <2>1, WorkFrame, Zenon
<1>7. TaskAgrees(w)' /\ CacheAgrees(w)' /\ OutcomeStays(w)
  <2>1. task'[w] = "done" /\ live'[w] = "refused"
    BY <1>1, <1>2 DEF Shape
  <2>2. cache'[w].state # "retained" => cache'[w].events = 0
    BY <1>2, <1>3, Zenon DEF CacheAgrees, Fades
  <2>3. TaskAgrees(w)' /\ OutcomeStays(w)
    BY <1>1, <1>2, <2>1, Zenon DEF TaskAgrees, OutcomeStays
  <2>4. CacheAgrees(w)'
    BY <2>1, <2>2, Zenon DEF CacheAgrees
  <2>. QED BY <2>3, <2>4
<1>8. status' = "stopped" => \A v \in Works : task'[v] \in {"none", "done"}
  BY <1>1
<1>9. \A d \in lapsed : d \in Deliveries
  BY Zenon DEF IInv, LapsedIsOver
<1>. QED BY <1>4, <1>5, <1>6, <1>7, <1>8, <1>9 DEF Good, Agree

\* The job is over already: the task ends with nothing written.
LEMMA FinishEndedKeeps ==
  ASSUME IInv, NEW w \in Works, FinishEnded(w)
  PROVE  Good
<1>1. /\ task[w] = "returned" /\ job[w] \notin Open /\ cache' = [cache EXCEPT ![w] = Cancelled(cache[w])]
      /\ live' = [live EXCEPT ![w] = "refused"] /\ task' = [task EXCEPT ![w] = "done"]
      /\ UNCHANGED <<clock, right, job, journal, status, output, stream, invoked>>
  BY DEF FinishEnded, durable
<1>2. Agree /\ Shape /\ clock \in Int /\ TaskAgrees(w) /\ CacheAgrees(w)
  BY DEF IInv, Agree, Shape
<1>3. cache' \in [Works -> Caches] /\ \A v \in Works : Fades(cache[v], cache'[v])
  <2>1. cache' = [cache EXCEPT ![w] = IF TRUE THEN Cancelled(cache[w]) ELSE cache[w]]
    BY <1>1
  <2>. QED BY <1>2, <2>1, OneFades
<1>4. Shape'
  <2>1. live' \in [Works -> Phases]
    BY <1>1, <1>2 DEF Shape, Phases
  <2>2. task' \in [Works -> {"none", "queued", "backend", "returned", "done"}]
    BY <1>1, <1>2 DEF Shape
  <2>. QED BY <1>1, <1>2, <1>3, <2>1, <2>2, Zenon DEF Shape
<1>5. \A d \in Deliveries : StreamAgrees(d)' /\ BoundStays(d) /\ SaysNothing(d)
  <2>1. Calm /\ \A d \in Deliveries : Denies(stream[d], stream'[d])
    BY <1>1, <1>2 DEF Calm, Denies
  <2>. QED BY <1>1, <1>2, <2>1, CalmFrame
<1>6. ASSUME NEW v \in Works, v # w PROVE TaskAgrees(v)' /\ CacheAgrees(v)' /\ OutcomeStays(v)
  <2>1. task'[v] = task[v] /\ live'[v] = live[v]
    BY <1>1, <1>2, <1>6 DEF Shape
  <2>. QED BY <1>1, <1>2, <1>3, <2>1, WorkFrame, Zenon
<1>7. TaskAgrees(w)' /\ CacheAgrees(w)' /\ OutcomeStays(w)
  <2>1. task'[w] = "done" /\ live'[w] = "refused"
    BY <1>1, <1>2 DEF Shape
  <2>2. cache'[w].state # "retained" => cache'[w].events = 0
    BY <1>2, <1>3, Zenon DEF CacheAgrees, Fades
  <2>3. TaskAgrees(w)' /\ OutcomeStays(w)
    BY <1>1, <1>2, <2>1, Zenon DEF TaskAgrees, OutcomeStays, Open, Ended
  <2>4. CacheAgrees(w)'
    BY <2>1, <2>2, Zenon DEF CacheAgrees
  <2>. QED BY <2>3, <2>4
<1>8. status' = "stopped" => \A v \in Works : task'[v] \in {"none", "done"}
  BY <1>1, <1>2 DEF Agree, Shape
<1>9. \A d \in lapsed : d \in Deliveries
  BY Zenon DEF IInv, LapsedIsOver
<1>. QED BY <1>4, <1>5, <1>6, <1>7, <1>8, <1>9 DEF Good, Agree

\* A response is opened where its rights hold, and the open ones are looked at again.
LEMMA BindKeeps ==
  ASSUME IInv, NEW d \in Deliveries, NEW w \in Works, Bind(d, w)
  PROVE  Good
<1>. DEFINE seen == RefreshStreams(stream, cache, right, job)
            cached == live[w] # "none" /\ cache[w].state = "retained" /\ clock < cache[w].expires
            bound == [seen[d] EXCEPT !.state = "open", !.work = w, !.cached = cached]
<1>1. /\ stream[d].state = "idle"
      /\ UNCHANGED <<clock, right, job, journal, status, live, task, output, invoked>>
  BY DEF Bind, durable
<1>2. Agree /\ Shape /\ clock \in Int /\ stream \in [Deliveries -> Streams]
  BY DEF IInv, Agree, Shape
<1>3. /\ seen \in [Deliveries -> Streams]
      /\ \A e \in Deliveries :
           /\ Denies(stream[e], seen[e])
           /\ seen[e].state = "open" =>
                stream[e].state = "open" /\ DeliveryHolds(right, job[stream[e].work], clock)
  BY <1>2, RefreshedStreams, Zenon
<1>4. seen[d] = stream[d]
  BY <1>1, <1>3 DEF Denies
<1>5. stream' = [seen EXCEPT ![d] = bound]
  BY DEF Bind
<1>6. cached \in BOOLEAN
  BY Zenon
<1>. HIDE DEF seen, cached
<1>7. bound \in Streams /\ bound.terminal = stream[d].terminal
  BY <1>2, <1>4, <1>6, Zenon DEF Streams
<1>. HIDE DEF bound
<1>8. stream' \in [Deliveries -> Streams] /\ stream'[d] = bound
  BY <1>3, <1>5, <1>7
<1>9. cache' \in [Works -> Caches] /\ \A v \in Works : Fades(cache[v], cache'[v])
  <2>1. cache' = [cache EXCEPT ![w] = IF clock >= cache[w].expires THEN Cancelled(cache[w]) ELSE cache[w]]
    BY DEF Bind
  <2>2. (clock >= cache[w].expires) \in BOOLEAN
    BY <1>2 DEF Shape, Caches
  <2>. QED BY <1>2, <2>1, <2>2, OneFades, Zenon
<1>10. Shape'
  BY <1>1, <1>2, <1>8, <1>9 DEF Shape
<1>11. ASSUME NEW e \in Deliveries, e # d
       PROVE  StreamAgrees(e)' /\ BoundStays(e) /\ SaysNothing(e)
  <2>1. stream'[e] = seen[e]
    BY <1>3, <1>5, <1>11
  <2>2. Denies(stream[e], stream'[e]) /\ (stream'[e].state = "open" =>
          DeliveryHolds(right, job[stream[e].work], clock))
    BY <1>3, <2>1, Zenon
  <2>3. \A v \in Works : job[v] = "finished" => job'[v] = "finished" /\ output'[v] = output[v]
    BY <1>1, Zenon
  <2>. QED BY <1>2, <2>2, <2>3, StreamFrame, Zenon
<1>12. StreamAgrees(d)' /\ BoundStays(d)
  <2>1. StreamAgrees(d) /\ stream[d].terminal \in BOOLEAN
    BY <1>2 DEF Agree, Streams
  <2>2. ~ stream'[d].terminal
    BY <1>1, <1>7, <1>8, <2>1 DEF StreamAgrees
  <2>. QED BY <1>1, <2>2, Zenon DEF StreamAgrees, BoundStays
<1>13. \A e \in lapsed : e \in Deliveries /\ e # d
  BY <1>1 DEF IInv, LapsedIsOver
<1>14. status' \in {status, "failed"} /\ \A v \in Works : job'[v] = job[v]
  BY <1>1
<1>15. /\ \A e \in Deliveries : StreamAgrees(e)' /\ BoundStays(e)
       /\ \A e \in lapsed : SaysNothing(e)
  BY <1>11, <1>12, <1>13
<1>. QED BY <1>1, <1>9, <1>10, <1>14, <1>15, TasksStay, Zenon

\* What a response is told next is within its transcript, the terminal only with a
\* finished phase, and nothing at all without rights.
LEMMA PullKeeps ==
  ASSUME IInv, NEW d \in Deliveries, Pull(d)
  PROVE  Good
<1>1. PICK s, w, end, answer :
        /\ s = stream[d] /\ w = s.work /\ end = StreamEnd(w)
        /\ answer =
             IF \/ status = "failed"
                \/ RefreshedStream(s, cache[w], right, job[w], clock).state = "denied"
                \/ live[w] \in {"none", "refused"} \/ cache[w].state # "retained"
                \/ s.position > end
             THEN [s EXCEPT !.state = "denied"]
             ELSE IF s.position < end THEN [s EXCEPT !.position = @ + 1]
             ELSE IF live[w] = "finished" THEN [s EXCEPT !.state = "closed", !.terminal = TRUE]
             ELSE s
        /\ s.state = "open"
        /\ stream' = [stream EXCEPT ![d] = answer]
        /\ cache' = [cache EXCEPT ![w] =
                       IF s.cached /\ clock >= cache[w].expires THEN Cancelled(cache[w]) ELSE cache[w]]
  BY Zenon DEF Pull
<1>2. UNCHANGED <<clock, right, job, journal, status, live, task, output, invoked>>
  BY Zenon DEF Pull, durable
<1>3. Agree /\ Shape /\ clock \in Int /\ stream \in [Deliveries -> Streams] /\ s \in Streams
  BY <1>1 DEF IInv, Agree, Shape
<1>4. w \in Works /\ s.position \in 0..MaxEvents /\ s.terminal \in BOOLEAN /\ s.cached \in BOOLEAN
  BY <1>1, <1>3 DEF Streams
<1>5. StreamAgrees(d) /\ ~ s.terminal /\ CacheAgrees(w)
  BY <1>1, <1>3, <1>4 DEF Agree, StreamAgrees
<1>6. cache[w].events \in 0..MaxEvents + 1 /\ MaxEvents \in Nat /\ cache[w].expires \in Int
      /\ output[w] \in Int
  BY <1>3, <1>4, ServiceAssumption DEF Shape, Caches
<1>7. live[w] \notin {"none", "refused"} => end \in Int /\ end <= MaxEvents
  BY <1>1, <1>3, <1>4, EndBounded, Zenon
<1>8. \/ answer = [s EXCEPT !.state = "denied"]
      \/ /\ live[w] \notin {"none", "refused"} /\ s.position < end
         /\ RefreshedStream(s, cache[w], right, job[w], clock).state # "denied"
         /\ answer = [s EXCEPT !.position = s.position + 1]
      \/ /\ live[w] = "finished" /\ cache[w].state = "retained" /\ s.position = end
         /\ RefreshedStream(s, cache[w], right, job[w], clock).state # "denied"
         /\ answer = [s EXCEPT !.state = "closed", !.terminal = TRUE]
      \/ answer = s
  <2>1. live[w] \notin {"none", "refused"} /\ ~(s.position > end) /\ ~(s.position < end) => s.position = end
    BY <1>4, <1>7
  <2>. QED BY <1>1, <2>1, Zenon
<1>9. /\ answer \in Streams /\ answer.work = s.work /\ answer.state # "idle"
      /\ answer.terminal => answer.state = "closed" /\ live[w] = "finished"
           /\ cache[w].state = "retained" /\ answer.position = end
  <2>1. CASE answer = [s EXCEPT !.state = "denied"]
    BY <1>3, <1>5, <2>1 DEF Streams
  <2>2. CASE live[w] \notin {"none", "refused"} /\ s.position < end
             /\ answer = [s EXCEPT !.position = s.position + 1]
    <3>1. s.position + 1 \in 0..MaxEvents
      BY <1>4, <1>6, <1>7, <2>2
    <3>. QED BY <1>1, <1>3, <1>5, <2>2, <3>1, Zenon DEF Streams
  <2>3. CASE live[w] = "finished" /\ cache[w].state = "retained" /\ s.position = end
             /\ answer = [s EXCEPT !.state = "closed", !.terminal = TRUE]
    BY <1>3, <2>3, Zenon DEF Streams
  <2>4. CASE answer = s
    BY <1>1, <1>3, <1>5, <2>4, Zenon
  <2>. QED BY <1>8, <2>1, <2>2, <2>3, <2>4
<1>10. ~ DeliveryHolds(right, job[w], clock) =>
         answer.position = s.position /\ answer.terminal = s.terminal
  <2>1. ASSUME ~ DeliveryHolds(right, job[w], clock)
        PROVE  answer = [s EXCEPT !.state = "denied"]
    <3>1. RefreshedStream(s, cache[w], right, job[w], clock) = [s EXCEPT !.state = "denied"]
      BY <1>1, <2>1 DEF RefreshedStream
    <3>2. [s EXCEPT !.state = "denied"].state = "denied"
      BY <1>3 DEF Streams
    <3>. QED BY <1>1, <3>1, <3>2
  <2>2. [s EXCEPT !.state = "denied"].position = s.position
        /\ [s EXCEPT !.state = "denied"].terminal = s.terminal
    BY <1>3 DEF Streams
  <2>. QED BY <2>1, <2>2, Zenon
<1>11. stream' \in [Deliveries -> Streams] /\ stream'[d] = answer
  BY <1>1, <1>3, <1>9, Zenon
<1>12. cache' \in [Works -> Caches] /\ \A v \in Works : Fades(cache[v], cache'[v])
  <2>1. (s.cached /\ clock >= cache[w].expires) \in BOOLEAN
    OBVIOUS
  <2>. QED BY <1>1, <1>3, <1>4, <2>1, OneFades, Zenon
<1>13. Shape'
  BY <1>2, <1>3, <1>11, <1>12 DEF Shape
<1>14. Calm
  BY <1>2, <1>3 DEF Calm
<1>15. ASSUME NEW e \in Deliveries, e # d
       PROVE  StreamAgrees(e)' /\ BoundStays(e) /\ SaysNothing(e)
  <2>1. Denies(stream[e], stream'[e])
    BY <1>1, <1>3, <1>15 DEF Denies
  <2>2. \A v \in Works : job[v] = "finished" => job'[v] = "finished" /\ output'[v] = output[v]
    BY <1>2, Zenon
  <2>. QED BY <1>3, <1>14, <2>1, <2>2, StreamFrame, Zenon
<1>16. StreamAgrees(d)' /\ BoundStays(d)
  <2>1. answer.terminal => answer.state = "closed" /\ job[w] = "finished"
          /\ answer.position = output[w] - 1
    BY <1>1, <1>5, <1>6, <1>9, Zenon DEF CacheAgrees, StreamEnd
  <2>2. StreamAgrees(d)'
    <3>1. stream'[d] = answer /\ answer.work = w /\ job' = job /\ output' = output
      BY <1>1, <1>2, <1>9, <1>11, Zenon
    <3>. QED BY <2>1, <3>1, Zenon DEF StreamAgrees
  <2>3. BoundStays(d)
    BY <1>1, <1>9, <1>11, <1>14, Zenon DEF BoundStays
  <2>. QED BY <2>2, <2>3
<1>17. \A e \in lapsed : SaysNothing(e)
  <2>1. d \in lapsed => ~ DeliveryHolds(right, job[w], clock)
    BY <1>1 DEF IInv, LapsedIsOver
  <2>2. d \in lapsed => SaysNothing(d)
    BY <1>1, <1>10, <1>11, <2>1, Zenon DEF SaysNothing
  <2>3. \A e \in lapsed : e \in Deliveries
    BY DEF IInv, LapsedIsOver
  <2>. QED BY <1>15, <2>2, <2>3
<1>18. \A v \in Works : job'[v] = job[v]
  BY <1>2
<1>. QED BY <1>2, <1>12, <1>13, <1>15, <1>16, <1>17, <1>18, TasksStay, Zenon

---------------------------------------------------------------------------
(* The whole service *)

\* Time that passes and a journal that fails restore no right.
LEMMA LapsedKeeps ==
  ASSUME IInv, Good, Lapse
  PROVE  LapsedIsOver'
<1>1. lapsed' = lapsed \cup {d \in Deliveries :
        stream'[d].state = "open" /\ ~ DeliveryHolds(right, job[stream[d].work], clock)'}
  BY DEF Lapse
<1>2. Shape
  BY DEF IInv, Agree
<1>3. ASSUME NEW d \in lapsed, stream'[d].state = "open"
      PROVE  ~ DeliveryHolds(right, job[stream[d].work], clock)'
  <2>1. /\ d \in Deliveries /\ stream[d].state # "idle"
        /\ stream[d].state = "open" => ~ DeliveryHolds(right, job[stream[d].work], clock)
    BY DEF IInv, LapsedIsOver
  <2>2. BoundStays(d)
    BY <2>1 DEF Good
  <2>3. /\ stream'[d].work = stream[d].work /\ Calm
        /\ ~ DeliveryHolds(right, job[stream[d].work], clock)
    BY <1>3, <2>1, <2>2 DEF BoundStays
  <2>4. Lesser(right.until, DeliveryDeadline + 1) \in Int /\ clock \in Int
    <3>1. right.until \in Lifetimes /\ clock \in Int
      BY <1>2 DEF Shape, Rights
    <3>2. right.until \in Int
      BY <3>1, ServiceAssumption, Zenon
    <3>. QED BY <3>1, <3>2, ServiceAssumption DEF Lesser
  <2>5. job'[stream'[d].work] = job[stream[d].work] /\ right' = right
    BY <2>3 DEF Calm
  <2>6. /\ clock' \in Int /\ clock' >= clock /\ (journal' = "ok" => journal = "ok")
    BY <2>3 DEF Calm
  <2>7. clock' < Lesser(right.until, DeliveryDeadline + 1) =>
          clock < Lesser(right.until, DeliveryDeadline + 1)
    BY <2>4, <2>6
  <2>. QED BY <2>3, <2>5, <2>6, <2>7 DEF DeliveryHolds
<1>4. ASSUME NEW d \in lapsed
      PROVE  d \in Deliveries /\ stream'[d].state # "idle"
  <2>1. d \in Deliveries /\ stream[d].state # "idle"
    BY Zenon DEF IInv, LapsedIsOver
  <2>2. BoundStays(d)
    BY <2>1, Zenon DEF Good
  <2>. QED BY <2>1, <2>2 DEF BoundStays
<1>5. ASSUME NEW d \in lapsed'
      PROVE  /\ d \in Deliveries /\ stream'[d].state # "idle"
             /\ stream'[d].state = "open" => ~ DeliveryHolds(right, job[stream[d].work], clock)'
  <2>1. CASE d \in lapsed
    BY <1>3, <1>4, <2>1, Zenon
  <2>2. CASE d \notin lapsed
    BY <1>1, <1>5, <2>2
  <2>. QED BY <2>1, <2>2, Zenon
<1>. QED BY <1>5 DEF LapsedIsOver

LEMMA NextKeeps ==
  ASSUME IInv, Next
  PROVE  Good /\ IInv'
<1>1. Step /\ Lapse
  BY DEF Next
<1>2. Good
  <2>1. ASSUME NEW w \in Works, Accept(w) \/ TaskStep(w) \/ Progress(w) \/ Expire(w)
        PROVE  Good
    BY <2>1, AcceptKeeps, DispatchKeeps, DispatchRefusedKeeps, BackendReturnsKeeps,
       FinishKeeps, FinishEndedKeeps, FinishFailsKeeps, ProgressKeeps, ExpireKeeps DEF TaskStep
  <2>2. ASSUME NEW d \in Deliveries, NEW w \in Works, Bind(d, w)
        PROVE  Good
    BY <2>2, BindKeeps
  <2>3. ASSUME NEW d \in Deliveries, Pull(d)
        PROVE  Good
    BY <2>3, PullKeeps
  <2>4. ASSUME NEW r \in [until : Lifetimes, enabled : BOOLEAN, current : BOOLEAN], Administer(r)
        PROVE  Good
    BY <2>4, AdministerKeeps DEF Rights
  <2>5. CASE Tick
    BY <2>5, TickKeeps
  <2>6. CASE JournalFails
    BY <2>6, JournalFailsKeeps
  <2>7. CASE Drain
    BY <2>7, DrainKeeps
  <2>8. CASE Stop
    BY <2>8, StopKeeps
  <2>9. ASSUME NEW w \in Works, ReleaseQueued(w) \/ ReleaseFails(w)
        PROVE  Good
    BY <2>9, ReleaseQueuedKeeps, ReleaseFailsKeeps
  <2>. QED BY <1>1, <2>1, <2>2, <2>3, <2>4, <2>5, <2>6, <2>7, <2>8, <2>9 DEF Step
<1>3. LapsedIsOver'
  BY <1>1, <1>2, LapsedKeeps
<1>. QED BY <1>2, <1>3 DEF Good, IInv

LEMMA Invariance == Spec => []IInv
<1>1. Init => IInv
  BY InitInv
<1>2. IInv /\ [Next]_vars => IInv'
  BY NextKeeps, StutterKeeps
<1>. QED BY <1>1, <1>2, PTL DEF Spec

\* What a client was told is on disk and a stopped service owes nothing: whatever the
\* order of commits, failed appends, deadlines, rights taken back and drains, a terminal
\* was delivered only for a job that the journal holds as finished, after every event
\* before it, and a drain that answered left no task and no open job (finish,
\* stream_update and drain of the grant service).
THEOREM ServiceStaysDurable == Spec => []ServiceIsDurable
<1>1. IInv => ServiceIsDurable
  <2>. SUFFICES ASSUME IInv PROVE ServiceIsDurable
    OBVIOUS
  <2>1. Agree /\ Shape
    BY DEF IInv, Agree
  <2>2. TypeOK
    BY <2>1 DEF Shape, TypeOK, JobStates, Caches, Streams
  <2>3. TerminalIsDurable
    BY <2>1 DEF Agree, StreamAgrees, TerminalIsDurable
  <2>4. StoppedIsQuiet
    <3>1. ASSUME NEW w \in Works, task[w] \in {"none", "done"}, journal = "ok"
          PROVE  job[w] \notin Open
      BY <2>1, <3>1 DEF Agree, TaskAgrees, Ended, Open
    <3>. QED BY <2>1, <3>1 DEF Agree, StoppedIsQuiet
  <2>. QED BY <2>2, <2>3, <2>4 DEF ServiceIsDurable
<1>. QED BY <1>1, Invariance, PTL

\* What was taken back stays so: an outcome is permanent, a job is invoked at most once
\* and never after its release, and a response that was once without rights is told
\* nothing more although they may be back (Dispatch against administer and drain;
\* Delivery::refresh in commit_changes).
THEOREM TakenBackIsFinal == Spec => TakenBackStays
<1>1. IInv /\ [Next]_vars =>
        [\A w \in Works :
           /\ job[w] \in Ended => job'[w] = job[w] /\ invoked'[w] = invoked[w]
           /\ invoked'[w] =< 1
           /\ job'[w] = "released" => invoked'[w] = 0]_vars
  <2>. SUFFICES ASSUME IInv, Next
                PROVE  \A w \in Works :
                         /\ job[w] \in Ended => job'[w] = job[w] /\ invoked'[w] = invoked[w]
                         /\ invoked'[w] =< 1
                         /\ job'[w] = "released" => invoked'[w] = 0
    BY Zenon
  <2>1. Good /\ Agree'
    BY NextKeeps DEF Good
  <2>2. invoked' \in [Works -> 0..1]
    BY <2>1 DEF Agree, Shape
  <2>3. \A w \in Works : job'[w] = "released" => invoked'[w] = 0
    BY <2>1, Zenon DEF Agree, TaskAgrees
  <2>. QED BY <2>1, <2>2, <2>3 DEF Good, OutcomeStays
<1>2. IInv /\ [Next]_vars =>
        [\A d \in lapsed : stream'[d].position = stream[d].position
                           /\ stream'[d].terminal = stream[d].terminal]_vars
  <2>. SUFFICES ASSUME IInv, Next
                PROVE  \A d \in lapsed : stream'[d].position = stream[d].position
                                         /\ stream'[d].terminal = stream[d].terminal
    OBVIOUS
  <2>1. Good
    BY NextKeeps
  <2>. QED BY <2>1 DEF Good, SaysNothing
<1>3. Spec => [][Next]_vars
  BY PTL DEF Spec
<1>4. Spec => ReleasedNeverRuns
  BY <1>1, <1>3, Invariance, PTL DEF ReleasedNeverRuns
<1>5. Spec => LapsedStaysSilent
  BY <1>2, <1>3, Invariance, PTL DEF LapsedStaysSilent
<1>. QED BY <1>4, <1>5 DEF TakenBackStays
=============================================================================
