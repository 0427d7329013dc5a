------------------------------ MODULE WorkStream ------------------------------
(***************************************************************************)
(* The gateway side of a request (sdk/src/gateway_work.rs): admission of   *)
(* the request, the task that runs it, the bounded queue between the task  *)
(* and the HTTP response, and the drain that ends the gateway.             *)
(*                                                                         *)
(* A task never waits for its reader: emit either queues an event or sets  *)
(* the overflow flag, after which nothing more is queued.  The reader      *)
(* looks at the flag before every receive.  The two run on different       *)
(* threads, so the look (ReaderLooks) and the receive (ReaderSelects) are  *)
(* separate steps, as are the two closes of a drain and the three checks a *)
(* request passes.                                                         *)
(*                                                                         *)
(* A request's script says what its run will do: the signed prefixes it    *)
(* receives as chunks of cells, how it ends and the size of its            *)
(* completion.  A frame is a header cell holding a length, then that many  *)
(* cells.                                                                  *)
(***************************************************************************)
EXTENDS Integers, Sequences, FiniteSets, SequencesExt

CONSTANTS
    Requests,       \* the requests HTTP makes
    Scripts,        \* what the run of a request may do
    Policies,       \* the Fetch admissions a request may meet, in order
    MaxPending,     \* permits of the admission semaphore
    BufferBytes,    \* OUTPUT_BUFFER_BYTES
    BufferEvents,   \* OUTPUT_BUFFER_EVENTS
    EventOverhead,  \* OUTPUT_EVENT_OVERHEAD
    MaxPayload,     \* MAX_FETCH_OUTPUT_PAYLOAD_BYTES
    Endpoints,      \* endpoints the gateway owns
    Drainers,       \* callers of drain
    MaxCancels      \* bound: drain futures dropped before they end

VARIABLES
    req,            \* each request with its task, queue and reader
    gw,             \* the gateway: admission, tasks, endpoints
    drains          \* the drain futures

vars == <<req, gw, drains>>

-----------------------------------------------------------------------------
(* Events and what they are charged. *)

Event(kind, cells) == [kind |-> kind, cells |-> cells]

NoScript ==
    [chunks |-> <<>>, frames |-> <<>>, framed |-> TRUE, verdict |-> "None",
     done |-> <<>>, decodes |-> TRUE]

event_bytes(event) == Len(event.cells)

Charge(event) ==
    IF event.kind = "Transcript" THEN 0 ELSE event_bytes(event) + EventOverhead

Charged(events) == FoldLeft(LAMBDA n, e : n + Charge(e), 0, events)

-----------------------------------------------------------------------------
(* fetch_prefix: whole frames out of the bytes received so far. *)

PrefixStart(cells) == [rest |-> cells, events |-> <<>>, ok |-> TRUE]

PrefixStep(s) ==
    IF s.rest = <<>> \/ ~s.ok THEN s
    ELSE IF Head(s.rest) > MaxPayload THEN [s EXCEPT !.ok = FALSE]
    ELSE IF Len(s.rest) < 1 + Head(s.rest) THEN s
    ELSE [s EXCEPT !.rest = SubSeq(s.rest, Head(s.rest) + 2, Len(s.rest)),
                   !.events = Append(s.events, SubSeq(s.rest, 2, Head(s.rest) + 1))]

fetch_prefix(pending, bytes) ==
    FoldLeft(LAMBDA acc, i : PrefixStep(acc), PrefixStart(pending \o bytes),
             [i \in 1..Len(pending \o bytes) |-> i])

-----------------------------------------------------------------------------
(* The queue: emit and emit_mandatory. *)

Queue(r, event, permits) ==
    [r EXCEPT !.queue = Append(@, event), !.budget = @ - permits]

\* Mutant: an event that does not fit is dropped and nobody is told.
EmitDrops(r, event) ==
    IF \/ ~r.open
       \/ Charge(event) > r.budget
       \/ Len(r.queue) = BufferEvents
    THEN r
    ELSE Queue(r, event, Charge(event))

Emit(r, event) ==
    IF r.overflow \/ ~r.open THEN r
    ELSE IF Charge(event) > r.budget \/ Len(r.queue) = BufferEvents
         THEN [r EXCEPT !.overflow = TRUE]
         ELSE Queue(r, event, Charge(event))

\* What the run emits, kept beside what the queue made of it.
Say(r, event) == [Emit(r, event) EXCEPT !.sent = Append(@, event)]

SayAll(r, events) == FoldLeft(LAMBDA acc, e : Say(acc, e), r, events)

-----------------------------------------------------------------------------
(* WorkRequest::admitted: the one contract of the policy that admits. *)

Contracts(policy) ==
    FoldLeft(LAMBDA seen, a : IF \E i \in DOMAIN seen : seen[i].contract = a.contract
                              THEN seen ELSE Append(seen, a),
             <<>>, policy)

TryContract(acc, a) ==
    IF acc.result \in {"Several", "Unrepaired"} THEN acc
    ELSE IF a.body = "Unrepaired" THEN [acc EXCEPT !.result = "Unrepaired"]
    ELSE IF a.body = "Refused" THEN acc
    ELSE IF acc.result = "Admitted" THEN [acc EXCEPT !.result = "Several"]
    ELSE [result |-> "Admitted", contract |-> a.contract]

admitted(policy) ==
    FoldLeft(TryContract, [result |-> "NoFetch", contract |-> 0], Contracts(policy))

-----------------------------------------------------------------------------
(* State. *)

NewRequest ==
    [phase |-> "Idle", policy |-> <<>>, contract |-> 0, script |-> NoScript,
     fed |-> 0, accepted |-> FALSE, pending |-> <<>>, queue |-> <<>>,
     budget |-> BufferBytes, overflow |-> FALSE, open |-> TRUE, sender |-> FALSE,
     sent |-> <<>>, got |-> <<>>, stream |-> "None"]

Init ==
    /\ req = [r \in Requests |-> NewRequest]
    /\ gw = [admission |-> TRUE, permits |-> MaxPending, closed |-> FALSE,
             tasks |-> {}, failure |-> FALSE, endpoints |-> Endpoints, locked |-> FALSE]
    /\ drains = [d \in Drainers |-> [pc |-> "Idle", ok |-> TRUE, cancels |-> 0]]

Live == {"Running", "Completing"}
StreamOver == {"Slow", "Failed", "Ended", "Dropped"}
Running(r) == req[r].phase \in Live

-----------------------------------------------------------------------------
(* WorkGateway::request and submit, in the order of their checks. *)

\* try_acquire_owned on the admission semaphore, then source.request.
Request(r) ==
    \E policy \in Policies :
    \E script \in Scripts :
        /\ req[r].phase = "Idle"
        /\ IF ~gw.admission \/ gw.permits = 0
           THEN /\ req' = [req EXCEPT ![r].phase = "Busy"]
                /\ UNCHANGED gw
           ELSE IF admitted(policy).result # "Admitted"
           THEN /\ req' = [req EXCEPT ![r].phase = "Refused", ![r].policy = policy]
                /\ UNCHANGED gw
           ELSE /\ req' = [req EXCEPT ![r].phase = "Held", ![r].policy = policy,
                                      ![r].contract = admitted(policy).contract,
                                      ![r].script = script]
                /\ gw' = [gw EXCEPT !.permits = @ - 1]
        /\ UNCHANGED drains

\* submit looks whether admission is closed.
Submit(r) ==
    /\ req[r].phase = "Held"
    /\ IF gw.admission
       THEN /\ req' = [req EXCEPT ![r].phase = "Checked"]
            /\ UNCHANGED gw
       ELSE /\ req' = [req EXCEPT ![r].phase = "Busy"]
            /\ gw' = [gw EXCEPT !.permits = @ + 1]
    /\ UNCHANGED drains

Finished(t) == req[t].phase \in {"Over", "Panicked"}

\* TaskState::poll: finished tasks leave, the first failure is kept.
Reaped(g) ==
    [g EXCEPT !.tasks = {t \in @ : ~Finished(t)},
              !.failure = @ \/ \E t \in g.tasks : req[t].phase = "Panicked"]

\* Mutant: spawn does not look at closed, submit has already checked.
SpawnLate(r) ==
    /\ req[r].phase = "Checked"
    /\ req' = [req EXCEPT ![r].phase = "Running", ![r].sender = TRUE, ![r].stream = "Top"]
    /\ gw' = [Reaped(gw) EXCEPT !.tasks = @ \cup {r}]
    /\ UNCHANGED drains

\* WorkTasks::spawn under the state lock.
Spawn(r) ==
    /\ req[r].phase = "Checked"
    /\ IF gw.closed
       THEN /\ req' = [req EXCEPT ![r].phase = "Busy"]
            /\ gw' = [gw EXCEPT !.permits = @ + 1]
       ELSE /\ req' = [req EXCEPT ![r].phase = "Running", ![r].sender = TRUE,
                                  ![r].stream = "Top"]
            /\ gw' = [Reaped(gw) EXCEPT !.tasks = @ \cup {r}]
    /\ UNCHANGED drains

-----------------------------------------------------------------------------
(* The task of a request. *)

\* accepted(): the provider's acceptance, before any output.
Accept(r) ==
    /\ req[r].phase = "Running"
    /\ ~req[r].accepted
    /\ req' = [req EXCEPT ![r] = [Say(@, Event("Accepted", <<>>)) EXCEPT !.accepted = TRUE]]
    /\ UNCHANGED <<gw, drains>>

\* The run ends: the task drops its requester and its permit.
EndTask(r, phase, final) ==
    /\ req' = [req EXCEPT ![r] = [final EXCEPT !.phase = phase, !.sender = FALSE]]
    /\ gw' = [gw EXCEPT !.permits = @ + 1]

Outputs(events) == [i \in DOMAIN events |-> Event("Output", events[i])]

\* progress(): one signed prefix, decoded; a bad one fails the run.
FedRequest(r, s) ==
    [SayAll(req[r], Outputs(s.events)) EXCEPT !.pending = s.rest, !.fed = @ + 1]

Progress(r) ==
    /\ req[r].phase = "Running"
    /\ req[r].accepted
    /\ req[r].fed < Len(req[r].script.chunks)
    /\ \E s \in {fetch_prefix(req[r].pending, req[r].script.chunks[req[r].fed + 1])} :
        IF s.ok
        THEN /\ req' = [req EXCEPT ![r] = FedRequest(r, s)]
             /\ UNCHANGED gw
        ELSE EndTask(r, "Over", Say(req[r], Event("Error", <<>>)))
    /\ UNCHANGED drains

\* Work not yet proposed stops when its reader is gone.
StopUnproposed(r) ==
    /\ req[r].phase = "Running"
    /\ ~req[r].accepted
    /\ ~req[r].open
    /\ EndTask(r, "Over", req[r])
    /\ UNCHANGED drains

Fed(r) ==
    /\ req[r].phase = "Running"
    /\ req[r].accepted
    /\ req[r].fed = Len(req[r].script.chunks)

\* The run returns; a verified completion queues its transcript first.
RunReturns(r) ==
    /\ Fed(r)
    /\ CASE req[r].script.verdict = "Completed" ->
              /\ req' = [req EXCEPT ![r] =
                    [Say(@, Event("Transcript", FlattenSeq(@.script.chunks)))
                        EXCEPT !.phase = "Completing"]]
              /\ UNCHANGED gw
         [] req[r].script.verdict = "None" -> EndTask(r, "Over", req[r])
         [] req[r].script.verdict = "Error" ->
              EndTask(r, "Over", Say(req[r], Event("Error", <<>>)))
         [] OTHER -> EndTask(r, "Panicked", req[r])
    /\ UNCHANGED drains

\* The completion follows the transcript, or the error of decoding it.
Complete(r) ==
    /\ req[r].phase = "Completing"
    /\ EndTask(r, "Over",
               Say(req[r], IF req[r].script.decodes THEN Event("Done", req[r].script.done)
                                                    ELSE Event("Error", <<>>)))
    /\ UNCHANGED drains

-----------------------------------------------------------------------------
(* response_stream: the reader. *)

Gone(r, stream) ==
    [r EXCEPT !.stream = stream, !.open = FALSE, !.queue = <<>>, !.budget = BufferBytes]

\* The top of the loop: an overflowed stream ends with the slow-consumer error.
ReaderLooks(r) ==
    /\ req[r].stream = "Top"
    /\ req' = [req EXCEPT ![r] = IF @.overflow THEN Gone(@, "Slow")
                                 ELSE [@ EXCEPT !.stream = "Select"]]
    /\ UNCHANGED <<gw, drains>>

Received(r) ==
    LET event == Head(r.queue)
        taken == [r EXCEPT !.queue = Tail(@), !.budget = @ + Charge(event),
                           !.got = Append(@, event), !.stream = "Top"]
    IN  IF event.kind = "Error" THEN Gone(taken, "Failed") ELSE taken

\* The select: the flag's branch is enabled only while its sender lives.
ReaderSelects(r) ==
    /\ req[r].stream = "Select"
    /\ req' = [req EXCEPT ![r] =
          IF @.sender /\ @.overflow THEN [@ EXCEPT !.stream = "Top"]
          ELSE IF @.queue # <<>> THEN Received(@)
          ELSE IF ~@.sender THEN Gone(@, "Ended")
          ELSE [@ EXCEPT !.stream = "Waiting"]]
    /\ UNCHANGED <<gw, drains>>

\* A pending select wakes on the flag, on its sender's end, or on an event.
ReaderWakes(r) ==
    /\ req[r].stream = "Waiting"
    /\ req[r].overflow \/ ~req[r].sender \/ req[r].queue # <<>>
    /\ req' = [req EXCEPT ![r] = IF @.overflow \/ ~@.sender THEN [@ EXCEPT !.stream = "Top"]
                                 ELSE Received(@)]
    /\ UNCHANGED <<gw, drains>>

\* HTTP drops the response.
ReaderLeaves(r) ==
    /\ req[r].stream \in {"Top", "Select", "Waiting"}
    /\ req' = [req EXCEPT ![r] = Gone(@, "Dropped")]
    /\ UNCHANGED <<gw, drains>>

-----------------------------------------------------------------------------
(* WorkGateway::drain. *)

\* The call closes admission.
DrainCalled(d) ==
    /\ drains[d].pc = "Idle"
    /\ gw' = [gw EXCEPT !.admission = FALSE]
    /\ drains' = [drains EXCEPT ![d].pc = "Closing"]
    /\ UNCHANGED req

\* Then the tasks, and returns its future.
DrainCloses(d) ==
    /\ drains[d].pc = "Closing"
    /\ gw' = [gw EXCEPT !.closed = TRUE]
    /\ drains' = [drains EXCEPT ![d].pc = "Lock"]
    /\ UNCHANGED req

\* WorkTasks::drain waits for the draining lock.
DrainLocks(d) ==
    /\ drains[d].pc = "Lock"
    /\ ~gw.locked
    /\ gw' = [gw EXCEPT !.locked = TRUE]
    /\ drains' = [drains EXCEPT ![d].pc = "Polling"]
    /\ UNCHANGED req

\* The tasks are polled in place until none is left.
DrainPolls(d) ==
    /\ drains[d].pc = "Polling"
    /\ Reaped(gw).tasks = {}
    /\ gw' = [Reaped(gw) EXCEPT !.locked = FALSE]
    /\ drains' = [drains EXCEPT ![d].pc = "Source", ![d].ok = ~Reaped(gw).failure]
    /\ UNCHANGED req

\* source.shutdown, whose own failure fails the drain.
DrainSource(d) ==
    \E shut \in BOOLEAN :
        /\ drains[d].pc = "Source"
        /\ drains' = [drains EXCEPT ![d].pc = "Endpoints", ![d].ok = @ /\ shut]
        /\ UNCHANGED <<req, gw>>

\* close_endpoints, one at a time, each forgotten once it is closed.
DrainEndpoint(d) ==
    /\ drains[d].pc = "Endpoints"
    /\ gw' = [gw EXCEPT !.endpoints = IF @ = 0 THEN 0 ELSE @ - 1]
    /\ drains' = [drains EXCEPT ![d].pc = IF gw.endpoints = 0 THEN "Done" ELSE @]
    /\ UNCHANGED req

\* The future is dropped; a later call starts over.
DrainCancelled(d) ==
    /\ drains[d].pc \in {"Lock", "Polling", "Source", "Endpoints"}
    /\ drains[d].cancels < MaxCancels
    /\ gw' = [gw EXCEPT !.locked = IF drains[d].pc = "Polling" THEN FALSE ELSE @]
    /\ drains' = [drains EXCEPT ![d] = [pc |-> "Idle", ok |-> TRUE, cancels |-> @.cancels + 1]]
    /\ UNCHANGED req

-----------------------------------------------------------------------------
Settled ==
    /\ \A r \in Requests :
          \/ req[r].phase \in {"Busy", "Refused"}
          \/ Finished(r) /\ req[r].stream \in StreamOver
    /\ \A d \in Drainers : drains[d].pc = "Done"
    /\ UNCHANGED vars

Next ==
    \/ \E r \in Requests : Request(r)
    \/ \E r \in Requests : Submit(r)
    \/ \E r \in Requests : Spawn(r)
    \/ \E r \in Requests : Accept(r)
    \/ \E r \in Requests : Progress(r)
    \/ \E r \in Requests : StopUnproposed(r)
    \/ \E r \in Requests : RunReturns(r)
    \/ \E r \in Requests : Complete(r)
    \/ \E r \in Requests : ReaderLooks(r)
    \/ \E r \in Requests : ReaderSelects(r)
    \/ \E r \in Requests : ReaderWakes(r)
    \/ \E r \in Requests : ReaderLeaves(r)
    \/ \E d \in Drainers : DrainCalled(d)
    \/ \E d \in Drainers : DrainCloses(d)
    \/ \E d \in Drainers : DrainLocks(d)
    \/ \E d \in Drainers : DrainPolls(d)
    \/ \E d \in Drainers : DrainSource(d)
    \/ \E d \in Drainers : DrainEndpoint(d)
    \/ \E d \in Drainers : DrainCancelled(d)
    \/ Settled

Spec == Init /\ [][Next]_vars

-----------------------------------------------------------------------------
(* Properties. *)

\* The two budgets are accounted: what a request's queue holds is charged to
\* its buffer (emit's permits travel with the event and are dropped with it),
\* and every admission permit is free or held by one request under way.
TypeOK ==
    /\ \A r \in Requests :
        /\ req[r].budget + Charged(req[r].queue) = BufferBytes
        /\ req[r].budget >= 0
        /\ Len(req[r].queue) <= BufferEvents
        /\ req[r].sender <=> req[r].phase \in Live
    /\ gw.permits + Cardinality({r \in Requests : req[r].phase \in {"Held", "Checked"} \cup Live})
          = MaxPending
    /\ gw.locked <=> \E d \in Drainers : drains[d].pc = "Polling"
    /\ \A r \in Requests : req[r].phase \in Live => r \in gw.tasks

\* What response_stream yields is a prefix of what the run emitted, without a
\* gap or a repeat; and a stream that ends without an error has yielded all of
\* it, but for an event larger than the whole buffer that was the first to be
\* refused, which the reader may miss between its look and its receive.
NoGaps ==
    \A r \in Requests :
        /\ IsPrefix(req[r].got, req[r].sent)
        /\ req[r].stream = "Ended" =>
              \/ req[r].got = req[r].sent
              \/ Charge(req[r].sent[Len(req[r].got) + 1]) > BufferBytes

\* A job whose charged events fit the buffer is never called slow, however
\* large its transcript is and however late its reader: emit_mandatory does
\* not charge the transcript, and nothing else of the job is lost with it.
FittingJobIsDelivered ==
    \A r \in Requests :
        Charged(req[r].sent) <= BufferBytes /\ Len(req[r].sent) <= BufferEvents
            => ~req[r].overflow

\* However the provider's signed prefixes cut the frames, fetch_prefix turns
\* them into the same events: those emitted are the first frames of the
\* output, all of them once every chunk is in, with nothing left over.
FramesAreWhole ==
    \A r \in Requests :
        LET outputs == SelectSeq(req[r].sent, LAMBDA e : e.kind = "Output")
            cells == [i \in DOMAIN outputs |-> outputs[i].cells]
        IN  /\ IsPrefix(cells, req[r].script.frames)
            /\ req[r].script.framed /\ req[r].fed = Len(req[r].script.chunks)
                 => cells = req[r].script.frames /\ req[r].pending = <<>>

\* A request is run under a contract only if it is the one contract of the
\* policy that admits it, and refused only if there is not exactly one.
AdmittedIsUnique ==
    \A r \in Requests :
        LET admits == {req[r].policy[i].contract : i \in
                         {j \in DOMAIN req[r].policy : req[r].policy[j].body = "Admitted"}}
            unrepaired == \E i \in DOMAIN req[r].policy : req[r].policy[i].body = "Unrepaired"
        IN  /\ req[r].phase \in Live => admits = {req[r].contract}
            /\ req[r].phase = "Refused" => unrepaired \/ Cardinality(admits) # 1

\* Once a drain has seen the tasks end, no task of the gateway runs or ever
\* starts again, whichever request was between its checks when it was called,
\* and the source and the endpoints are shut down only then.
DrainedIsQuiet ==
    \/ \A d \in Drainers : drains[d].pc \notin {"Source", "Endpoints", "Done"}
    \/ \A r \in Requests : ~Running(r)

\* A drain that reports success followed no task that panicked, whether spawn
\* or an earlier, dropped drain reaped that task.
PanicIsReported ==
    \A d \in Drainers :
        drains[d].pc = "Done" /\ drains[d].ok =>
            \A r \in Requests : req[r].phase # "Panicked"

\* A drain that is not dropped ends, with the endpoints closed, though another
\* drain may hold the draining lock or be dropped while it does.
DrainsEnd ==
    \A d \in Drainers :
        drains[d].pc = "Closing" ~>
            drains[d].pc = "Idle" \/ (drains[d].pc = "Done" /\ gw.endpoints = 0)
==============================================================================
