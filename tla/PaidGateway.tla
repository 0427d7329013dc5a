---------------------------- MODULE PaidGateway ----------------------------
(* The paid gateway: requests routed over a pool of funded provider channels.

   A request walks its candidate providers.  At each it queues for the channel
   (one job at a time), opens the session if there is none, lets retained work
   be recovered first, and proposes.  It may fall back to the next provider
   only while it has proposed nothing.  A caller that goes away stops the
   request before the proposal and not after it.  When the gateway restarts,
   one recovery task per provider finishes what the journal holds.

   The channel journal is abstracted to its jobs: who proposed each, how far it
   got, whether its payment deadline still lets it be paid, whether its input
   is at hand (a restart loses what the journal does not retain), and whether
   the process knows of it (an append that failed may yet be on disk).       *)
EXTENDS Integers, Sequences, FiniteSets, SequencesExt

CONSTANTS Requests,     \* HTTP requests
          Providers,    \* the pool
          Retained,     \* the requests with retention Retain
          MaxPending,   \* max_pending_requests
          MaxJobs,      \* bound: proposals per channel
          MaxRestarts,  \* bound: restarts of the gateway
          Free          \* nobody holds the channel

GatewayConstants ==
    /\ MaxPending \in Nat \ {0} /\ MaxJobs \in Nat \ {0} /\ MaxRestarts \in Nat
    /\ Requests \cap Providers = {} /\ Free \notin Requests \cup Providers
    /\ Retained \subseteq Requests

VARIABLES pc,        \* [AllTasks -> where route() stands]
          cand,      \* [AllTasks -> the candidates still to try]
          gone,      \* the requests whose caller disconnected
          out,       \* [AllTasks -> how it ended]
          start,     \* [AllTasks -> the nonce high water before its operation]
          lock,      \* [Providers -> the task holding `serial`, or Free]
          session,   \* [Providers -> a session is open in this process]
          needs,     \* [Providers -> its needs_recovery]
          down,      \* [Providers -> backing off]
          pending,   \* [Providers -> the pending counter]
          jobs,      \* [Providers -> sequence of journaled jobs]
          setup,     \* [Providers -> a setup journal is on disk]
          draining,  \* "no", "closed", "drained"
          restarts

pool == <<lock, session, needs, down, pending, jobs, setup>>
vars == <<pc, cand, gone, out, start, lock, session, needs, down, pending, jobs, setup,
          draining, restarts>>

\* A provider names its own recovery task.
AllTasks == Requests \cup Providers
Streamed(t) == t \in Requests

Known(p) == SelectSeq(jobs[p], LAMBDA j : j.known)
High(p) == Len(Known(p))
Live == {"half", "accepted", "ready", "verified", "failed"}
\* What recovery takes up: failed results, and payable work whose input is at
\* hand or which only has to be paid (RecoveredJob, Unrecoverable apart).
Unsettled(j) ==
    /\ j.known /\ j.phase \in Live
    /\ j.phase = "failed" \/ (j.payable /\ (j.input \/ j.phase = "verified"))
Here(t) == Head(cand[t])
Mine(t) == jobs[Here(t)][Len(jobs[Here(t)])]

\* submit: a request waits for its first candidate; a task that ended is gone
\* from the pool and its permit is back.
Waiting == {"queue", "check", "open", "recover", "ready", "flagged", "sent", "collect",
            "verify", "reject", "pay"}
Running == {t \in AllTasks : pc[t] \in Waiting}
Holding == Waiting \ {"queue"}

-----------------------------------------------------------------------------
\* The counters' and locks' part of leaving a provider.  ProviderUse is
\* released with the request's use of it.
Release(t, p) ==
    /\ lock' = [lock EXCEPT ![p] = IF @ = t THEN Free ELSE @]

Uses(t, c, delta) ==
    IF Streamed(t) /\ c # <<>> THEN [pending EXCEPT ![Head(c)] = @ + delta] ELSE pending

\* Return from route(): the guard, the use and the permit go.
Return(t, o) ==
    /\ pc' = [pc EXCEPT ![t] = "done"]
    /\ out' = [out EXCEPT ![t] = o]
    /\ cand' = [cand EXCEPT ![t] = <<>>]
    /\ pending' = Uses(t, cand[t], -1)
    /\ Release(t, Here(t))

\* `continue`: the next candidate, or ProvidersUnavailable.
MoveOn(t, p, next) ==
    /\ cand' = [cand EXCEPT ![t] = next]
    /\ pc' = [pc EXCEPT ![t] = IF next = <<>> THEN "done" ELSE "queue"]
    /\ out' = [out EXCEPT ![t] = IF next = <<>> THEN "unavailable" ELSE @]
    /\ pending' = IF Streamed(t)
                  THEN [q \in Providers |-> pending[q] - (IF q = p THEN 1 ELSE 0)
                                          + (IF next # <<>> /\ q = Head(next) THEN 1 ELSE 0)]
                  ELSE pending
    /\ Release(t, p)

Continue(t) == MoveOn(t, Here(t), Tail(cand[t]))

Step(t, next) == /\ pc' = [pc EXCEPT ![t] = next]
                 /\ UNCHANGED <<cand, out, pending, lock>>

-----------------------------------------------------------------------------
(* Admission: request(), submit(), WorkTasks::spawn. *)

Active == Cardinality({r \in Requests : pc[r] \in Waiting})

\* Available providers first, then the least pending.
Before(p, q) == \/ ~down[p] /\ down[q]
                \/ down[p] = down[q] /\ pending[p] <= pending[q]
Orders == {s \in SetToSeqs(Providers) :
             \A i, j \in 1..Len(s) : i < j => Before(s[i], s[j])}

Spawns == draining = "no"

Submit(r) ==
    /\ pc[r] = "new" /\ Spawns /\ Active < MaxPending
    /\ \E order \in Orders :
         /\ cand' = [cand EXCEPT ![r] = order]
         /\ pending' = [pending EXCEPT ![Head(order)] = @ + 1]
    /\ pc' = [pc EXCEPT ![r] = "queue"]
    /\ UNCHANGED <<gone, out, start, lock, session, needs, down, jobs, setup, draining, restarts>>

\* WorkGatewayBusy: no permit, or the gateway is closing.
RefuseBusy(r) ==
    /\ pc[r] = "new" /\ (draining # "no" \/ Active >= MaxPending)
    /\ pc' = [pc EXCEPT ![r] = "done"]
    /\ out' = [out EXCEPT ![r] = "busy"]
    /\ UNCHANGED <<cand, gone, start, pool, draining, restarts>>

-----------------------------------------------------------------------------
(* route(): the queue and the session. *)

Take(t) ==
    /\ pc[t] = "queue" /\ lock[Here(t)] = Free
    /\ lock' = [lock EXCEPT ![Here(t)] = t]
    /\ pc' = [pc EXCEPT ![t] = "check"]
    /\ UNCHANGED <<cand, gone, out, start, session, needs, down, pending, jobs, setup, draining, restarts>>

\* CHANNEL_QUEUE_BUDGET: only the last candidate is waited for.
QueueBudget(t) ==
    /\ pc[t] = "queue" /\ Streamed(t) /\ Len(cand[t]) > 1 /\ lock[Here(t)] # Free
    /\ Continue(t)
    /\ UNCHANGED <<gone, start, session, needs, down, jobs, setup, draining, restarts>>

\* A recovery task leaves a provider without a retained setup alone; a provider
\* that backs off is passed over, also when it began to while we queued.
PassOver(t) ==
    /\ pc[t] = "check"
    /\ (~Streamed(t) /\ ~setup[Here(t)]) \/ down[Here(t)]
    /\ Continue(t)
    /\ UNCHANGED <<gone, start, session, needs, down, jobs, setup, draining, restarts>>

Proceed(t) ==
    /\ pc[t] = "check" /\ (Streamed(t) \/ setup[Here(t)]) /\ ~down[Here(t)]
    /\ start' = [start EXCEPT ![t] = High(Here(t))]
    /\ Step(t, IF ~session[Here(t)] THEN "open"
               ELSE IF Streamed(t) /\ ~needs[Here(t)] THEN "ready" ELSE "recover")
    /\ UNCHANGED <<gone, session, needs, down, jobs, setup, draining, restarts>>

\* open_for_gateway: the setup journal is on disk before the channel is usable,
\* and an opened session starts with recovery armed.
OpenSession(t) ==
    /\ pc[t] = "open"
    /\ setup' = [setup EXCEPT ![Here(t)] = TRUE]
    /\ session' = [session EXCEPT ![Here(t)] = TRUE]
    /\ needs' = [needs EXCEPT ![Here(t)] = TRUE]
    /\ Step(t, "recover")
    /\ UNCHANGED <<gone, start, down, jobs, draining, restarts>>

\* connection_failed, and on to the next.
ConnectionFailed(t) == down' = [down EXCEPT ![Here(t)] = TRUE]

OpenFails(t) ==
    /\ pc[t] = "open"
    /\ ConnectionFailed(t)
    /\ \E s \in BOOLEAN : setup' = [setup EXCEPT ![Here(t)] = @ \/ s]
    /\ Continue(t)
    /\ UNCHANGED <<gone, start, session, needs, jobs, draining, restarts>>

-----------------------------------------------------------------------------
(* PaidWorkSession::run(None, recover): retained work, one job after another. *)

\* execute_paid_job: each step of a job is journaled, and the next may fail.
Onward(phase) ==
    CASE phase = "half" -> {"accepted"}
      [] phase = "accepted" -> {"ready", "failed"}
      [] phase = "ready" -> {"verified"}
      [] phase = "verified" -> {"paid"}
      [] phase = "failed" -> {"rejected"}

RecoverJob(t, n) ==
    /\ pc[t] = "recover" /\ Unsettled(jobs[Here(t)][n])
    /\ \E phase \in Onward(jobs[Here(t)][n].phase) :
         jobs' = [jobs EXCEPT ![Here(t)][n].phase = phase]
    /\ Step(t, "recover")
    /\ UNCHANGED <<gone, start, session, needs, down, setup, draining, restarts>>

\* What is left unsettled at the end of a pass was refused for good or has no
\* payload; the flag says whether anything is that has an input or a result.
Remaining(js) ==
    \E n \in 1..Len(js) :
      LET j == js[n]
      IN /\ j.known /\ j.phase \in Live
         /\ j.phase = "failed" \/ (j.payable /\ (j.input \/ j.phase \in {"ready", "verified"}))
RefusedForGood(j) == j.phase \in {"half", "accepted"}

Recovered(t) ==
    /\ pc[t] = "recover"
    /\ \A n \in 1..Len(jobs[Here(t)]) :
         Unsettled(jobs[Here(t)][n]) => RefusedForGood(jobs[Here(t)][n])
    /\ needs' = [needs EXCEPT ![Here(t)] = Remaining(jobs[Here(t)])]
    /\ IF Streamed(t)
       THEN Step(t, "ready") /\ UNCHANGED down
       ELSE Return(t, "ok") /\ down' = [down EXCEPT ![Here(t)] = FALSE]
    /\ UNCHANGED <<gone, start, session, jobs, setup, draining, restarts>>

\* A pass that fails or runs out of its time is deferred.
RecoveryFails(t) ==
    /\ pc[t] = "recover"
    /\ ConnectionFailed(t)
    /\ IF Streamed(t) THEN Continue(t) ELSE Return(t, "provider")
    /\ UNCHANGED <<gone, start, session, needs, jobs, setup, draining, restarts>>

-----------------------------------------------------------------------------
(* transact(new_purchase) inside before_proposal. *)

\* A journal whose append failed takes no more until it is opened again.
Usable(p) == /\ Len(jobs[p]) < MaxJobs
             /\ \A n \in 1..Len(jobs[p]) : jobs[p][n].known

\* `proposed` is set, and recovery armed, before the proposal can leave.
Flag(t) ==
    /\ pc[t] = "ready" /\ t \notin gone /\ Usable(Here(t))
    /\ needs' = [needs EXCEPT ![Here(t)] = TRUE]
    /\ Step(t, "flagged")
    /\ UNCHANGED <<gone, start, session, down, jobs, setup, draining, restarts>>

Job(t, known) == [req |-> t, phase |-> "half", payable |-> TRUE, input |-> TRUE, known |-> known]

Append1(t) ==
    /\ pc[t] = "flagged"
    /\ jobs' = [jobs EXCEPT ![Here(t)] = Append(@, Job(t, TRUE))]
    /\ Step(t, "sent")
    /\ UNCHANGED <<gone, start, session, needs, down, setup, draining, restarts>>

\* ProposeError::Store: the proposal may be on disk without being in memory.
\* (slip: taken for a proposal that never happened)
AppendFailsContinue(t) ==
    /\ pc[t] = "flagged"
    /\ \E s \in {<<>>, <<Job(t, FALSE)>>} : jobs' = [jobs EXCEPT ![Here(t)] = @ \o s]
    /\ ConnectionFailed(t)
    /\ Continue(t)
    /\ UNCHANGED <<gone, start, session, needs, setup, draining, restarts>>

AppendFails(t) ==
    /\ pc[t] = "flagged"
    /\ \E s \in {<<>>, <<Job(t, FALSE)>>} : jobs' = [jobs EXCEPT ![Here(t)] = @ \o s]
    /\ Return(t, "provider")
    /\ UNCHANGED <<gone, start, session, needs, down, setup, draining, restarts>>

SetMine(t, phase) ==
    jobs' = [jobs EXCEPT ![Here(t)][Len(jobs[Here(t)])].phase = phase]

ProviderAccepts(t) ==
    /\ pc[t] = "sent" /\ SetMine(t, "accepted") /\ Step(t, "collect")
    /\ UNCHANGED <<gone, start, session, needs, down, setup, draining, restarts>>

\* fetch_result_stream journals the result, of either outcome.
Collect(t) ==
    /\ pc[t] = "collect"
    /\ \/ SetMine(t, "ready") /\ Step(t, "verify")
       \/ SetMine(t, "failed") /\ Step(t, "reject")
    /\ UNCHANGED <<gone, start, session, needs, down, setup, draining, restarts>>

\* check_payment_window, then the transcript.
Verify(t) ==
    /\ pc[t] = "verify" /\ Mine(t).payable
    /\ SetMine(t, "verified") /\ Step(t, "pay")
    /\ UNCHANGED <<gone, start, session, needs, down, setup, draining, restarts>>

\* The flag after a run that ended: whatever the journal still holds.
Rearm(t) == needs' = [needs EXCEPT ![Here(t)] = Remaining(jobs'[Here(t)])]

\* InvocationFailed: rejected unpaid, an error to the caller.
Reject(t) ==
    /\ pc[t] = "reject" /\ SetMine(t, "rejected") /\ Rearm(t)
    /\ Return(t, "provider")
    /\ UNCHANGED <<gone, start, session, down, setup, draining, restarts>>

Pay(t) ==
    /\ pc[t] = "pay" /\ Mine(t).payable
    /\ SetMine(t, "paid") /\ Rearm(t)
    /\ down' = [down EXCEPT ![Here(t)] = FALSE]
    /\ Return(t, "ok")
    /\ UNCHANGED <<gone, start, session, setup, draining, restarts>>

MayFallBack(t) == High(Here(t)) = start[t]

Fails(t) ==
    /\ pc[t] \in {"ready", "sent", "collect", "verify", "reject", "pay"}
    /\ IF MayFallBack(t)
       THEN ConnectionFailed(t) /\ Continue(t)
       ELSE Return(t, "provider") /\ UNCHANGED down
    /\ UNCHANGED <<gone, start, session, needs, jobs, setup, draining, restarts>>

-----------------------------------------------------------------------------
(* Stops: the caller, the deadline, the gateway. *)

Disconnect(r) ==
    /\ r \in Requests /\ r \notin gone /\ pc[r] \in Waiting
    /\ gone' = gone \cup {r}
    /\ UNCHANGED <<pc, cand, out, start, pool, draining, restarts>>

\* before_proposal: a caller that is gone stops what has not proposed.
StopsForGone(t) == pc[t] \in {"open", "ready"} \/ (pc[t] = "queue" /\ Len(cand[t]) = 1)

Abandon(r) ==
    /\ r \in gone /\ StopsForGone(r)
    /\ Return(r, "stopped")
    /\ UNCHANGED <<gone, start, session, needs, down, jobs, setup, draining, restarts>>

\* The deadline elapses: the operation is dropped where it stands.  An append
\* in flight may have reached the disk.
Deadline(t) ==
    /\ pc[t] \in Waiting \ {"check", "recover", "flagged"}
    /\ pc[t] = "queue" => Len(cand[t]) = 1
    /\ Return(t, IF pc[t] \notin {"queue", "open"} /\ High(Here(t)) # start[t] THEN "provider" ELSE "stopped")
    /\ UNCHANGED <<gone, start, session, needs, down, jobs, setup, draining, restarts>>

DeadlineInAppend(t) ==
    /\ pc[t] = "flagged"
    /\ \E s \in {<<>>, <<Job(t, FALSE)>>} : jobs' = [jobs EXCEPT ![Here(t)] = @ \o s]
    /\ Return(t, "stopped")
    /\ UNCHANGED <<gone, start, session, needs, down, setup, draining, restarts>>

\* UNREACHABLE_PROVIDER_BACKOFF runs out.
BackoffEnds(p) ==
    /\ down[p]
    /\ down' = [down EXCEPT ![p] = FALSE]
    /\ UNCHANGED <<pc, cand, gone, out, start, lock, session, needs, pending, jobs, setup, draining, restarts>>

\* The chain passes a job's payment deadline.
PaymentDeadline(p, n) ==
    /\ jobs[p][n].payable /\ jobs[p][n].phase \in Live
    /\ jobs' = [jobs EXCEPT ![p][n].payable = FALSE]
    /\ UNCHANGED <<pc, cand, gone, out, start, lock, session, needs, down, pending, setup, draining, restarts>>

\* drain: admission and spawning close, then every task is awaited, then the
\* sessions are shut down.
CloseAdmission ==
    /\ draining = "no"
    /\ draining' = "closed"
    /\ UNCHANGED <<pc, cand, gone, out, start, pool, restarts>>

MayShutDown == Running = {}

Drained ==
    /\ draining = "closed" /\ MayShutDown
    /\ session' = [p \in Providers |-> FALSE]
    /\ draining' = "drained"
    /\ UNCHANGED <<pc, cand, gone, out, start, lock, needs, down, pending, jobs, setup, restarts>>

\* The process ends at any point and starts again: the journals are read whole,
\* and a recovery task per provider is spawned.
Restart ==
    /\ restarts < MaxRestarts
    /\ restarts' = restarts + 1
    /\ pc' = [t \in AllTasks |-> IF t \in Providers THEN "queue"
                              ELSE IF pc[t] = "new" THEN "new" ELSE "done"]
    /\ out' = [t \in AllTasks |-> IF t \in Requests /\ pc[t] \in Waiting THEN "lost"
                               ELSE IF t \in Providers THEN "none" ELSE out[t]]
    /\ cand' = [t \in AllTasks |-> IF t \in Providers THEN <<t>> ELSE <<>>]
    /\ start' = [t \in AllTasks |-> 0]
    /\ lock' = [p \in Providers |-> Free]
    /\ session' = [p \in Providers |-> FALSE]
    /\ needs' = [p \in Providers |-> FALSE]
    /\ down' = [p \in Providers |-> FALSE]
    /\ pending' = [p \in Providers |-> 0]
    /\ jobs' = [p \in Providers |-> [n \in 1..Len(jobs[p]) |->
                   [jobs[p][n] EXCEPT !.known = TRUE, !.input = @ /\ jobs[p][n].req \in Retained]]]
    /\ draining' = "no"
    /\ UNCHANGED <<gone, setup>>

Init ==
    /\ pc = [t \in AllTasks |-> IF t \in Providers THEN "queue" ELSE "new"]
    /\ cand = [t \in AllTasks |-> IF t \in Providers THEN <<t>> ELSE <<>>]
    /\ gone = {} /\ out = [t \in AllTasks |-> "none"] /\ start = [t \in AllTasks |-> 0]
    /\ lock = [p \in Providers |-> Free]
    /\ session = [p \in Providers |-> FALSE] /\ needs = [p \in Providers |-> FALSE]
    /\ down = [p \in Providers |-> FALSE] /\ pending = [p \in Providers |-> 0]
    /\ jobs = [p \in Providers |-> <<>>] /\ setup = [p \in Providers |-> FALSE]
    /\ draining = "no" /\ restarts = 0

Admit(r) == Submit(r) \/ RefuseBusy(r)
Reach(t) == Take(t) \/ QueueBudget(t) \/ PassOver(t) \/ Proceed(t) \/ OpenSession(t) \/ OpenFails(t)
RecoverStep(t) == \/ pc[t] = "recover" /\ \E n \in 1..Len(jobs[Here(t)]) : RecoverJob(t, n)
                  \/ Recovered(t) \/ RecoveryFails(t)
Work(t) == Flag(t) \/ Append1(t) \/ AppendFails(t) \/ ProviderAccepts(t) \/ Collect(t)
           \/ Verify(t) \/ Reject(t) \/ Pay(t) \/ Fails(t)
Stop(t) == Abandon(t) \/ Deadline(t) \/ DeadlineInAppend(t)
Route(t) == Reach(t) \/ RecoverStep(t) \/ (Streamed(t) /\ Work(t)) \/ Stop(t)
Outside == \/ \E r \in Requests : Disconnect(r)
           \/ \E p \in Providers : BackoffEnds(p) \/ \E n \in 1..Len(jobs[p]) : PaymentDeadline(p, n)
           \/ CloseAdmission \/ Restart

Next == \/ \E r \in Requests : Admit(r)
        \/ \E t \in AllTasks : Route(t)
        \/ Drained \/ Outside

\* Tasks run and timers fire.  Nothing is assumed of providers or callers: the
\* waits on them end by the deadlines alone.
OwnStep(t) == \/ Take(t) \/ QueueBudget(t) \/ PassOver(t) \/ Proceed(t) \/ RecoveryFails(t)
              \/ Deadline(t) \/ DeadlineInAppend(t)
Fairness == /\ \A t \in AllTasks : WF_vars(OwnStep(t))
            /\ WF_vars(Drained)

Spec == Init /\ [][Next]_vars /\ Fairness

-----------------------------------------------------------------------------
AllJobs == UNION {{<<p, n>> : n \in 1..Len(jobs[p])} : p \in Providers}

\* The pool's bookkeeping: a channel is held by a task that is working on that
\* provider, and a provider's pending count is the requests using it.
TypeOK ==
    /\ \A p \in Providers :
         /\ lock[p] # Free => pc[lock[p]] \in Holding /\ Here(lock[p]) = p
         /\ pending[p] = Cardinality({r \in Requests : pc[r] \in Waiting /\ Here(r) = p})
    /\ \A t \in AllTasks : pc[t] \in Holding => lock[Here(t)] = t

\* A request is proposed to at most one provider, and once: whatever failed,
\* timed out, or was lost, and also when an append was left uncertain.
ProposedOnce ==
    \A v, w \in AllJobs : jobs[v[1]][v[2]].req = jobs[w[1]][w[2]].req => v = w

\* A request that was answered with its provider unproposed left no work behind
\* in any journal the process knows of, so nothing will be paid for it.
UnproposedLeavesNothing ==
    \A r \in Requests : out[r] \in {"unavailable", "busy", "stopped"} =>
        \A w \in AllJobs : jobs[w[1]][w[2]].req = r => ~jobs[w[1]][w[2]].known \/ restarts > 0

\* Recovery stays armed: whenever nobody holds an open channel, work that a pass
\* would take up, to pay it or to reject it, has needs_recovery set, so the next
\* request settles it first.  Work whose input a restart lost before its result
\* came is neither (skips_lost_payload_jobs).
RecoveryStaysArmed ==
    \A p \in Providers :
        lock[p] = Free /\ session[p] /\ (\E n \in 1..Len(jobs[p]) : Unsettled(jobs[p][n]))
          => needs[p]

\* After drain returned no task is left, and nothing is proposed or paid.
DrainedIsQuiet ==
    [][draining = "drained" /\ draining' = "drained" =>
         /\ Running' = {}
         /\ \A p \in Providers : Len(jobs'[p]) = Len(jobs[p])]_vars

=============================================================================
