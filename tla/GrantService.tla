------------------------------ MODULE GrantService ------------------------------
(****************************************************************************)
(* The runtime beside a node's grant store: authority/src/grant_service.rs  *)
(* with its cache and deliveries, the executions and deliveries the store   *)
(* keeps (work_store/grant/execution.rs, delivery.rs), and the admission    *)
(* that carries a permit from acceptance to teardown                        *)
(* (channel/src/work/admission.rs).                                         *)
(*                                                                          *)
(* NodeStore models the store's own checks; here a job is its durable       *)
(* outcome, and the client's rights are one record: the authority lets it   *)
(* execute until a time, its grant is enabled or paused, and the policy the *)
(* jobs were accepted under is current or not.  The store's writer is held  *)
(* from the first check of a handler to its last effect, so each handler is *)
(* one step; a commit happens at the time on the clock.  A transcript is    *)
(* its length: events are compared through a digest chain.                  *)
(****************************************************************************)
EXTENDS Integers, FiniteSets, TLC

CONSTANTS
  Works, Deliveries,
  Lifetimes,                 \* until when the authority may let the client execute
  TerminalDeadline, DeliveryDeadline,
  MaxLive,                   \* 256 live jobs
  MaxEvents, MaxTime         \* bounds

\* Times are numbers of the one clock, and the terminal deadline is within its bound.
ASSUME ServiceAssumption ==
  /\ Works # {}
  /\ Lifetimes \subseteq Int /\ DeliveryDeadline \in Int
  /\ MaxEvents \in Nat /\ MaxTime \in Nat
  /\ TerminalDeadline \in 0..MaxTime

VARIABLES
  clock,
  right,      \* [until, enabled, current]
  job,        \* durable: none, accepted, running, finished (with a signed result),
              \* failed (without one) or released
  journal,    \* "ok", or "poisoned" after a failed append
  status,     \* ServiceStatus
  live,       \* the in-memory record of a job: its LivePhase, or none
  cache,      \* [state: none, retained or cancelled; events; expires; prefix]
  task,       \* the spawned task: none, queued, backend, returned, done
  output,     \* what a returned backend handed back: events, or -1
  stream,     \* delivery -> [state, work, position, terminal]
  invoked,    \* history: how often the backend was invoked for a job
  lapsed      \* history: deliveries whose rights were missing at some moment

durable == <<right, job, journal>>
memory == <<status, live, cache, task, output>>
vars == <<clock, right, job, journal, status, live, cache, task, output, stream, invoked, lapsed>>

Phases == {"none", "queued", "running", "completing", "finished", "refused"}
Open == {"accepted", "running"}
Ended == {"finished", "failed", "released"}
Lesser(a, b) == IF a < b THEN a ELSE b

(****************************************************************************)
(* Rights, as the store's state gives them at a time.                       *)
(****************************************************************************)
\* ActiveExecution::expires, and whether it answers at all.
ExecutionEnds(r, j) ==
  Lesser(r.until, IF j \in Open THEN TerminalDeadline ELSE DeliveryDeadline + 1)
ExecutionHolds(r, j, now) ==
  /\ journal = "ok" /\ r.current /\ j # "none"
  /\ j = "accepted" => r.enabled
  /\ now < ExecutionEnds(r, j)

\* Delivery::current; an ended job is retained until its delivery deadline.
DeliveryHolds(r, j, now) ==
  journal = "ok" /\ r.current /\ j # "none" /\ now < Lesser(r.until, DeliveryDeadline + 1)

(****************************************************************************)
(* Cancelling.  A cancelled cache drops its body and never comes back.      *)
(****************************************************************************)
Cancelled(c) == IF c.state = "retained" THEN [c EXCEPT !.state = "cancelled", !.events = 0] ELSE c

\* refresh_executions: the deadline follows the rights, or the cache goes.
RefreshedCache(c, r, j, now) ==
  IF c.state # "retained" THEN c
  ELSE IF ExecutionHolds(r, j, now) THEN [c EXCEPT !.expires = ExecutionEnds(r, j)]
  ELSE Cancelled(c)

\* Delivery::refresh
RefreshedStream(s, c, r, j, now) ==
  IF s.state = "open"
     /\ (~ DeliveryHolds(r, j, now)
         \/ (s.cached /\ (c.state # "retained" \/ now >= c.expires)))
  THEN [s EXCEPT !.state = "denied"] ELSE s

RefreshCaches(c, r, j) == [w \in Works |-> RefreshedCache(c[w], r, j[w], clock)]
RefreshStreams(s, c, r, j) ==
  [d \in Deliveries |->
     IF s[d].state = "open" THEN RefreshedStream(s[d], c[s[d].work], r, j[s[d].work], clock) ELSE s[d]]

\* commit_changes: the deadlines that have passed are observed against the old
\* state, then the new state is installed and everything is refreshed again.
Observed ==
  LET caches == RefreshCaches(cache, right, job)
  IN [caches |-> caches, streams |-> RefreshStreams(stream, caches, right, job)]
SettledCaches(r, j) == RefreshCaches(Observed.caches, r, j)
SettledStreams(r, j) == RefreshStreams(Observed.streams, SettledCaches(r, j), r, j)

Commit(r, j) ==
  /\ journal = "ok"
  /\ right' = r /\ job' = j
  /\ stream' = SettledStreams(r, j)
  /\ UNCHANGED journal

Discarded == [w \in Works |-> Cancelled(cache[w])]

(****************************************************************************)
(* Acceptance: every check and effect under the writer.                     *)
(****************************************************************************)
Init ==
  /\ clock = 0
  /\ right \in [until : Lifetimes, enabled : {TRUE}, current : {TRUE}]
  /\ job = [w \in Works |-> "none"]
  /\ journal = "ok" /\ status = "serving"
  /\ live = [w \in Works |-> "none"]
  /\ cache = [w \in Works |-> [state |-> "none", events |-> 0, expires |-> 0, prefix |-> 0]]
  /\ task = [w \in Works |-> "none"]
  /\ output = [w \in Works |-> -1]
  /\ stream = [d \in Deliveries |->
       [state |-> "idle", work |-> CHOOSE w \in Works : TRUE, cached |-> FALSE,
        position |-> 0, terminal |-> FALSE]]
  /\ invoked = [w \in Works |-> 0]
  /\ lapsed = {}

\* An acceptance keeps the live jobs that are active or still deliver.
Kept(w) ==
  \/ live[w] \in {"queued", "running", "completing"}
  \/ live[w] \in {"finished", "refused"} /\ clock =< DeliveryDeadline /\ cache[w].state = "retained"

Accept(w) ==
  LET kept == {v \in Works : Kept(v)}
      jobs == [job EXCEPT ![w] = "accepted"]
      fresh == [state |-> "retained", events |-> 0, expires |-> TerminalDeadline, prefix |-> 0]
  IN /\ job[w] = "none" /\ status = "serving"
     /\ right.enabled /\ right.current /\ clock < right.until /\ clock < TerminalDeadline
     /\ Cardinality(kept) < MaxLive
     /\ Commit(right, jobs)
     /\ cache' = [SettledCaches(right, jobs) EXCEPT ![w] = RefreshedCache(fresh, right, "accepted", clock)]
     /\ live' = [v \in Works |-> IF v = w THEN "queued" ELSE IF v \in kept THEN live[v] ELSE "none"]
     /\ task' = [task EXCEPT ![w] = "queued"]
     /\ UNCHANGED <<clock, status, output, invoked>>

(****************************************************************************)
(* The task: dispatch, progress, and the backend's return.                  *)
(****************************************************************************)
Return(w, events) ==
  /\ task' = [task EXCEPT ![w] = "returned"]
  /\ output' = [output EXCEPT ![w] = events]

\* Mutant: the job's phase is not read again before the backend is invoked.
CanDispatchAnyPhase(w) ==
  /\ cache[w].state = "retained" /\ clock < TerminalDeadline
  /\ status # "failed" /\ clock < right.until

\* The queued work has not been cancelled, and the Accepted phase is consumed.
CanDispatch(w) ==
  /\ cache[w].state = "retained" /\ clock < TerminalDeadline
  /\ status # "failed" /\ clock < right.until
  /\ job[w] = "accepted" /\ right.current /\ right.enabled

Dispatch(w) ==
  /\ task[w] = "queued" /\ CanDispatch(w)
  /\ LET jobs == [job EXCEPT ![w] = "running"]
     IN Commit(right, jobs) /\ cache' = SettledCaches(right, jobs)
  /\ live' = [live EXCEPT ![w] = "running"]
  /\ \/ /\ cache'[w].state = "retained"
        /\ task' = [task EXCEPT ![w] = "backend"]
        /\ invoked' = [invoked EXCEPT ![w] = @ + 1]
        /\ UNCHANGED <<clock, output>>
     \/ /\ cache'[w].state # "retained"
        /\ Return(w, -1) /\ UNCHANGED <<clock, invoked>>
     \* The record was written, but the deadline passed while it was.
     \/ /\ clock + 1 >= TerminalDeadline /\ clock' = clock + 1
        /\ Return(w, -1) /\ UNCHANGED invoked
  /\ UNCHANGED status

DispatchRefused(w) ==
  /\ task[w] = "queued"
  /\ ~ CanDispatch(w) \/ journal = "poisoned"
  /\ Return(w, -1)
  /\ UNCHANGED <<clock, durable, status, live, cache, stream, invoked>>

\* progress: an event is kept while the job runs and its body may be retained.
Progress(w) ==
  /\ task[w] = "backend" /\ live[w] = "running"
  /\ IF clock > TerminalDeadline \/ cache[w].state # "retained" \/ clock >= cache[w].expires
     THEN cache' = [cache EXCEPT ![w] = Cancelled(@)]
     ELSE /\ cache[w].events < MaxEvents
          /\ cache' = [cache EXCEPT ![w].events = @ + 1, ![w].prefix = @ + 1]
  /\ cache' # cache
  /\ UNCHANGED <<clock, durable, status, live, task, output, stream, invoked>>

\* A backend answers a transcript, or fails; what it answers is not yet verified.
BackendReturns(w) ==
  /\ task[w] = "backend"
  /\ \E events \in {-1} \cup 1..MaxEvents + 1 : Return(w, events)
  /\ UNCHANGED <<clock, durable, status, live, cache, stream, invoked>>

(****************************************************************************)
(* finish: what the job becomes, durably and in memory.                     *)
(****************************************************************************)
\* verify_completion: the transcript starts with every streamed event and ends
\* with a terminal one; a body that was dropped still has its prefix digest.
Verified(w) == output[w] # -1 /\ job[w] = "running" /\ output[w] > cache[w].prefix

FinishAs(w, answered, next) ==
  LET jobs == [job EXCEPT ![w] = next]
      settled == SettledCaches(right, jobs)
  IN /\ Commit(right, jobs)
     /\ cache' = [settled EXCEPT ![w] =
          IF ~ answered THEN Cancelled(@)
          ELSE IF @.state = "retained" THEN [@ EXCEPT !.events = output[w]] ELSE @]
     /\ live' = [live EXCEPT ![w] = IF answered THEN "finished" ELSE "refused"]

\* A job that never started is released; a result that came in time is kept.
Finish(w) ==
  /\ task[w] = "returned" /\ job[w] \in Open
  /\ LET answered == Verified(w) /\ clock =< TerminalDeadline
     IN FinishAs(w, answered,
          IF job[w] = "accepted" THEN "released" ELSE IF answered THEN "finished" ELSE "failed")
  /\ task' = [task EXCEPT ![w] = "done"]
  /\ UNCHANGED <<clock, status, output, invoked>>

\* The job was released meanwhile: nothing is written, and its body goes.
FinishEnded(w) ==
  /\ task[w] = "returned" /\ job[w] \notin Open
  /\ cache' = [cache EXCEPT ![w] = Cancelled(@)]
  /\ live' = [live EXCEPT ![w] = "refused"]
  /\ task' = [task EXCEPT ![w] = "done"]
  /\ UNCHANGED <<clock, durable, status, output, stream, invoked>>

\* Mutant: a completion that cannot be written is tried again for ever.
FinishFailsSilently(w) ==
  /\ task[w] = "returned" /\ job[w] \in Open /\ journal = "poisoned"
  /\ cache' = Discarded /\ cache # cache'
  /\ UNCHANGED <<clock, durable, status, live, task, output, stream, invoked>>

\* The outcome cannot be made durable: the service fails and serves nothing more.
FinishFails(w) ==
  /\ task[w] = "returned" /\ job[w] \in Open /\ journal = "poisoned"
  /\ status' = "failed"
  /\ cache' = Discarded
  /\ live' = [live EXCEPT ![w] = "refused"]
  /\ task' = [task EXCEPT ![w] = "done"]
  /\ UNCHANGED <<clock, durable, output, stream, invoked>>

(****************************************************************************)
(* Deliveries.                                                              *)
(****************************************************************************)
Bind(d, w) ==
  /\ stream[d].state = "idle" /\ status # "failed"
  /\ DeliveryHolds(right, job[w], clock) /\ right.enabled
  /\ LET cached == live[w] # "none" /\ cache[w].state = "retained" /\ clock < cache[w].expires
     IN stream' = [RefreshStreams(stream, cache, right, job) EXCEPT ![d] =
                     [@ EXCEPT !.state = "open", !.work = w, !.cached = cached]]
  /\ cache' = [cache EXCEPT ![w] = IF clock >= @.expires THEN Cancelled(@) ELSE @]
  /\ UNCHANGED <<clock, durable, status, live, task, output, invoked>>

\* Mutant: the terminal event is streamed like the others.
StreamEndAll(w) == cache[w].events

\* The terminal event travels with the result, never before it.
StreamEnd(w) == cache[w].events - (IF live[w] = "finished" THEN 1 ELSE 0)

\* stream_update: one event, the terminal once every event is out, or a refusal.
Pull(d) ==
  LET s == stream[d]
      w == s.work
      end == StreamEnd(w)
      answer ==
        IF \/ status = "failed"
           \/ RefreshedStream(s, cache[w], right, job[w], clock).state = "denied"
           \/ live[w] \in {"none", "refused"} \/ cache[w].state # "retained"
           \/ s.position > end
        THEN [s EXCEPT !.state = "denied"]
        ELSE IF s.position < end THEN [s EXCEPT !.position = @ + 1]
        ELSE IF live[w] = "finished" THEN [s EXCEPT !.state = "closed", !.terminal = TRUE]
        ELSE s
  IN /\ s.state = "open" /\ answer # s
     /\ stream' = [stream EXCEPT ![d] = answer]
     /\ cache' = [cache EXCEPT ![w] = IF s.cached /\ clock >= @.expires THEN Cancelled(@) ELSE @]
     /\ UNCHANGED <<clock, durable, status, live, task, output, invoked>>

(****************************************************************************)
(* Time, administration and the end of the service.                         *)
(****************************************************************************)
Tick ==
  /\ clock < MaxTime /\ clock' = clock + 1
  /\ UNCHANGED <<durable, memory, stream, invoked>>

\* ResultCache::monitor and monitor_execution
Expire(w) ==
  /\ cache[w].state = "retained"
  /\ clock >= cache[w].expires \/ (task[w] # "done" /\ ~ ExecutionHolds(right, job[w], clock))
  /\ cache' = [cache EXCEPT ![w] = Cancelled(@)]
  /\ UNCHANGED <<clock, durable, status, live, task, output, stream, invoked>>

\* administer, with the accepted jobs that the changed terms release.
Administer(r) ==
  LET jobs == [w \in Works |-> IF job[w] = "accepted" /\ (~ r.enabled \/ ~ r.current)
                               THEN "released" ELSE job[w]]
  IN /\ r # right /\ status # "failed"
     /\ r.current => right.current
     /\ Commit(r, jobs) /\ cache' = SettledCaches(r, jobs)
     /\ UNCHANGED <<clock, status, live, task, output, invoked>>

\* An append fails under some commit, and everything in flight is cancelled; under
\* administer the service fails as well.
JournalFails ==
  /\ journal = "ok" /\ journal' = "poisoned"
  /\ cache' = Discarded
  /\ stream' = [d \in Deliveries |-> IF stream[d].state = "open"
                                     THEN [stream[d] EXCEPT !.state = "denied"] ELSE stream[d]]
  /\ status' \in {status, "failed"}
  /\ UNCHANGED <<clock, right, job, live, task, output, invoked>>

\* drain: no more acceptances, and the jobs that have not started are released one by
\* one.  A drain may be dropped between two of them, and another one goes on.
Drain ==
  /\ status = "serving" /\ status' = "draining"
  /\ UNCHANGED <<clock, durable, live, cache, task, output, stream, invoked>>

Queued(w) == job[w] = "accepted" /\ live[w] # "none"
ReleaseQueued(w) ==
  /\ status = "draining" /\ Queued(w)
  /\ \E jobs \in {[job EXCEPT ![w] = "released"]} :
       Commit(right, jobs) /\ cache' = SettledCaches(right, jobs)
  /\ UNCHANGED <<clock, status, live, task, output, invoked>>

\* A release that cannot be written ends the drain
ReleaseFails(w) ==
  /\ status = "draining" /\ Queued(w) /\ journal = "poisoned"
  /\ status' = "failed"
  /\ cache' = Discarded
  /\ UNCHANGED <<clock, durable, live, task, output, stream, invoked>>

Stop ==
  /\ status = "draining"
  /\ \A w \in Works : task[w] \in {"none", "done"}
  /\ status' = "stopped"
  /\ UNCHANGED <<clock, durable, live, cache, task, output, stream, invoked>>

TaskStep(w) ==
  \/ Dispatch(w) \/ DispatchRefused(w) \/ BackendReturns(w)
  \/ Finish(w) \/ FinishEnded(w) \/ FinishFails(w)

Step ==
  \/ \E w \in Works : Accept(w) \/ TaskStep(w) \/ Progress(w) \/ Expire(w)
  \/ \E w \in Works : ReleaseQueued(w) \/ ReleaseFails(w)
  \/ \E d \in Deliveries, w \in Works : Bind(d, w)
  \/ \E d \in Deliveries : Pull(d)
  \/ \E r \in [until : Lifetimes, enabled : BOOLEAN, current : BOOLEAN] : Administer(r)
  \/ Tick \/ JournalFails \/ Drain \/ Stop

Lapse == lapsed' = lapsed \cup {d \in Deliveries :
  stream'[d].state = "open" /\ ~ DeliveryHolds(right, job[stream[d].work], clock)'}
Next == Step /\ Lapse

Spec == Init /\ [][Next]_vars

--------------------------------------------------------------------------------
\* The types of the state.
TypeOK ==
  /\ clock \in 0..MaxTime
  /\ job \in [Works -> {"none"} \cup Open \cup Ended]
  /\ live \in [Works -> Phases]
  /\ status \in {"serving", "draining", "stopped", "failed"}
  /\ task \in [Works -> {"none", "queued", "backend", "returned", "done"}]
  /\ \A w \in Works : cache[w].events \in 0..MaxEvents + 1
  /\ \A d \in Deliveries : stream[d].position \in 0..MaxEvents

\* A job runs at the backend at most once, its outcome is permanent, and one that
\* was released - by its task, by a pause, a new policy or a drain - never runs,
\* whatever the order of the release and the dispatch.
ReleasedNeverRuns ==
  [][\A w \in Works :
       /\ job[w] \in Ended => job'[w] = job[w] /\ invoked'[w] = invoked[w]
       /\ invoked'[w] =< 1
       /\ job'[w] = "released" => invoked'[w] = 0]_vars

\* A response whose rights were missing at any moment, even between two commits,
\* delivers nothing more, although the rights may have been restored since.
LapsedStaysSilent ==
  [][\A d \in lapsed : stream'[d].position = stream[d].position
                       /\ stream'[d].terminal = stream[d].terminal]_vars

\* What a client is shown is durable: the terminal is delivered only for a job
\* whose result is in the journal, after every event before it.
TerminalIsDurable ==
  \A d \in Deliveries : stream[d].terminal =>
    /\ job[stream[d].work] = "finished"
    /\ stream[d].position = output[stream[d].work] - 1

\* A drain that answered leaves nothing behind: no task runs and, unless the
\* journal failed, no job is open.
StoppedIsQuiet ==
  status = "stopped" =>
    /\ \A w \in Works : task[w] \in {"none", "done"}
    /\ journal = "ok" => \A w \in Works : job[w] \notin Open

---------------------------------------------------------------------------
\* What a client was told has happened is on disk, and a stopped service has left no
\* work behind that a task or the journal still owes.
ServiceIsDurable ==
  TypeOK /\ TerminalIsDurable /\ StoppedIsQuiet

\* What was taken back stays taken back: a released job is never dispatched, and a
\* response whose rights lapsed says nothing more, though they are restored.
TakenBackStays ==
  ReleasedNeverRuns /\ LapsedStaysSilent
=============================================================================
