---------------------------- MODULE ResultStream ----------------------------
(***************************************************************************)
(* The live result of a paid job, from the provider's executor to the      *)
(* stream of the user (channel/src/work/stream.rs): the provider streams   *)
(* the published events while the job runs and the rest of the recorded    *)
(* result when it is there; the client verifies every event as it arrives, *)
(* shows it, and asks again only while nothing has been shown.             *)
(* Every wait for a change also ends after 30 seconds.                     *)
(***************************************************************************)
EXTENDS Execution

CONSTANTS
  Retain,     \* the retention the job was signed with; a Fetch job is ephemeral
  MaxFaults   \* bound: connections lost, restarts of the provider, stale observations

VARIABLES
  view,    \* the provider's view of the chain: its freshness, the deadlines that passed, a close
  server,  \* the provider's side of the stream
  net,     \* frames on their way
  client,  \* the client's side
  shown,   \* what the user's stream was given
  faults

vars == <<limits, facts, exec, progress, job, view, server, net, client, shown, faults>>

Frame(kind, events, code) == [kind |-> kind, events |-> events, code |-> code]
IdleServer == [phase |-> "Idle", position |-> 0, frames |-> <<>>, final |-> FALSE]

Init ==
  /\ ExecInit
  /\ view = [fresh |-> TRUE, passed |-> 0, closing |-> FALSE]
  /\ server = IdleServer
  /\ net = <<>>
  /\ client \in [phase : {"Dial"}, observed : BOOLEAN, verifier : {NewVerifier(facts.payload)}, emitted : {FALSE}]
  /\ shown = <<>>
  /\ faults = 0

-----------------------------------------------------------------------------
(* The provider.                                                           *)
\* The terminal deadline less the delivery margin is passed = 1, the deadline itself 2
Unreleasable == view.passed > 0
Terminated == job.phase \in {"Failed", "Expired"}
\* reserve_ready_release and reserve_stream: the refusal, or None when plaintext may leave
ReserveAnswer ==
  CASE Terminated -> "Declined"
    [] ~Terminated /\ view.closing -> "Unavailable"
    [] ~Terminated /\ ~view.closing /\ ~view.fresh -> IF Unreleasable THEN "Expired" ELSE "Stale"
    [] OTHER ->
         IF job.phase = "Accepted" THEN "NoResult"
         ELSE IF job.phase = "Indeterminate" THEN "Declined"
         ELSE IF job.phase = "Ready" /\ job.result = <<>> THEN "NotReady"
         ELSE IF Unreleasable THEN "Expired" ELSE "None"
Released == job' = [job EXCEPT !.released = TRUE]

\* retained_delivery: the recorded result, authorized again
HasResult == ReserveAnswer = "None" /\ job.phase = "Ready"

Answer(frame) == net' = Append(net, frame)
EndServer == server' = [IdleServer EXCEPT !.phase = "Ended"]

\* The head of the loop of result_stream; a stale observation waits inside it
Reserve ==
  /\ server.phase = "Reserve" /\ ReserveAnswer # "Stale"
  /\ \/ /\ ReserveAnswer = "None"
        /\ Released /\ server' = [server EXCEPT !.phase = "Retained"] /\ UNCHANGED net
     \/ /\ ReserveAnswer = "NoResult"
        /\ server' = [server EXCEPT !.phase = "Wait"] /\ UNCHANGED <<net, job>>
     \/ /\ ReserveAnswer \notin {"None", "NoResult"}
        /\ Answer(Frame("Refused", <<>>, ReserveAnswer)) /\ EndServer /\ UNCHANGED job
  /\ UNCHANGED <<limits, facts, exec, progress, view, client, shown, faults>>

\* The rest of the recorded result, or on to the live events
FramesOf(batches) == [i \in DOMAIN batches |-> Frame("Prefix", batches[i], "None")]
PrefixFrames(events) == FramesOf(PrefixBatches(events))
ResultFrames(position) ==
  Append(PrefixFrames(SubSeq(job.result, position + 1, Len(job.result) - 1)), Frame("Terminal", <<Last(job.result)>>, "None"))
RetainedDelivery ==
  /\ server.phase = "Retained"
  /\ \/ /\ HasResult
        /\ Released
        /\ IF server.position < Len(job.result)
           THEN /\ server' = [server EXCEPT !.phase = "Send", !.frames = ResultFrames(server.position), !.final = TRUE]
                /\ UNCHANGED net
           ELSE Answer(Frame("Status", <<>>, "Internal")) /\ EndServer
     \/ /\ ReserveAnswer = "Stale" \/ (ReserveAnswer = "None" /\ ~HasResult)
        /\ server' = [server EXCEPT !.phase = "Snapshot"] /\ UNCHANGED <<net, job>>
     \/ /\ ReserveAnswer \notin {"None", "Stale"}
        /\ Answer(Frame("Refused", <<>>, ReserveAnswer)) /\ EndServer /\ UNCHANGED job
  /\ UNCHANGED <<limits, facts, exec, progress, view, client, shown, faults>>

Snapshot ==
  /\ server.phase = "Snapshot"
  /\ server' = [server EXCEPT !.phase = "Send", !.final = FALSE,
       !.frames = PrefixFrames(SubSeq(progress, Min({server.position, Len(progress)}) + 1, Len(progress)))]
  /\ UNCHANGED <<limits, facts, exec, progress, job, view, net, client, shown, faults>>

\* Every frame checks the release again
FrameLen(f) == IF f.kind = "Terminal" THEN TerminalFrameLen(f.events[1]) ELSE PrefixFrameLen(f.events)
SendFrame(f) ==
  /\ Answer(f) /\ Released
  /\ server' = [server EXCEPT !.frames = Tail(@), !.position = IF server.final THEN @ ELSE @ + Len(f.events)]
Send ==
  /\ server.phase = "Send" /\ server.frames # <<>> /\ ReserveAnswer # "Stale"
  /\ \/ /\ ReserveAnswer = "None"
        /\ IF FrameLen(Head(server.frames)) <= facts.frame
           THEN SendFrame(Head(server.frames))
           ELSE Answer(Frame("Status", <<>>, "Internal")) /\ EndServer /\ Released
     \/ /\ ReserveAnswer # "None"
        /\ Answer(Frame("Status", <<>>, "Unavailable")) /\ EndServer /\ UNCHANGED job
  /\ UNCHANGED <<limits, facts, exec, progress, view, client, shown, faults>>
Sent ==
  /\ server.phase = "Send" /\ server.frames = <<>>
  /\ IF server.final
     THEN Answer(Frame("End", <<>>, "None")) /\ EndServer
     ELSE server' = [server EXCEPT !.phase = "Wait"] /\ UNCHANGED net
  /\ UNCHANGED <<limits, facts, exec, progress, job, view, client, shown, faults>>

\* notified, or 30 seconds later
Wake ==
  /\ server.phase = "Wait"
  /\ server' = [server EXCEPT !.phase = "Reserve"]
  /\ UNCHANGED <<limits, facts, exec, progress, job, view, net, client, shown, faults>>

-----------------------------------------------------------------------------
(* The client: fetch_result_stream, and the loop around it.                *)
Dial ==
  /\ client.phase = "Dial"
  /\ client' = [client EXCEPT !.phase = "Reading", !.verifier = NewVerifier(facts.payload)]
  /\ server' = [IdleServer EXCEPT !.phase = "Reserve"]
  /\ net' = <<>>
  /\ UNCHANGED <<limits, facts, exec, progress, job, view, shown, faults>>

\* The call ends with an error
Retryable(code) == code \in {"NotReady", "Unavailable"}
\* Mutant: delivery is retried whatever was shown
CallFailsAgain(code) ==
  client' = [client EXCEPT !.phase = IF Retryable(code) THEN "Retry" ELSE "Failed"]
CallFails(code) ==
  client' = [client EXCEPT !.phase = IF ~client.emitted /\ Retryable(code) THEN "Retry" ELSE "Failed"]
Hangup == server' = IdleServer /\ net' = <<>>
BadStream == client' = [client EXCEPT !.phase = "Malformed"] /\ Hangup

\* The events of a frame go through the verifier, and are shown unless they end the stream
LiveFits(events) == Len(events) <= facts.events /\ SpoolLen(events) <= facts.spool
TakeBatch(f, v) ==
  IF /\ v.ok /\ FrameLen(f) <= facts.frame /\ LiveFits(v.events)
     /\ f.kind = "Prefix" => v.output = {}
  THEN /\ client' = [client EXCEPT !.verifier = v,
                                   !.phase = IF f.kind = "Terminal" THEN "Closing" ELSE @,
                                   !.emitted = @ \/ (f.kind = "Prefix" /\ client.observed)]
       /\ shown' = IF f.kind = "Prefix" /\ client.observed THEN shown \o f.events ELSE shown
       /\ net' = Tail(net)
       /\ UNCHANGED server
  ELSE BadStream /\ UNCHANGED shown
Receive ==
  /\ client.phase \in {"Reading", "Closing"} /\ net # <<>>
  /\ \E f \in {Head(net)} :
       \/ /\ f.kind \in {"Prefix", "Terminal"}
          /\ IF client.phase = "Reading"
             THEN \E v \in {Folded(VerifierPush, client.verifier, f.events)} : TakeBatch(f, v)
             ELSE BadStream /\ UNCHANGED shown
       \/ /\ f.kind \in {"Refused", "Status"}
          /\ CallFails(f.code) /\ Hangup /\ UNCHANGED shown
       \/ /\ f.kind = "End"
          /\ IF client.phase = "Closing" /\ VerifyOutput(client.verifier.events)
             THEN client' = [client EXCEPT !.phase = IF view.passed = 2 THEN "Failed" ELSE "Done"] /\ Hangup
             ELSE BadStream
          /\ UNCHANGED shown
  /\ UNCHANGED <<limits, facts, exec, progress, job, view, faults>>

Retry ==
  /\ client.phase = "Retry"
  /\ client' = [client EXCEPT !.phase = IF view.passed = 2 THEN "Failed" ELSE "Dial"]
  /\ UNCHANGED <<limits, facts, exec, progress, job, view, server, net, shown, faults>>

\* The user's stream refuses an event: the call is over
UserGone ==
  /\ client.phase = "Reading" /\ client.emitted
  /\ client' = [client EXCEPT !.phase = "Failed"] /\ Hangup
  /\ UNCHANGED <<limits, facts, exec, progress, job, view, shown, faults>>

-----------------------------------------------------------------------------
(* The chain, and what goes wrong.                                         *)
Over == client.phase \in {"Done", "Failed", "Malformed"}
Refresh ==
  /\ ~Over /\ ~view.fresh
  /\ view' = [view EXCEPT !.fresh = TRUE]
  /\ UNCHANGED <<limits, facts, exec, progress, job, server, net, client, shown, faults>>
\* A job without a result is over at its terminal deadline, with the client and the provider
DeadlinePasses ==
  /\ ~Over /\ view.passed < 2 /\ view' = [view EXCEPT !.passed = @ + 1]
  /\ job' = IF view.passed = 1 /\ job.phase \in {"Accepted", "Running", "Indeterminate"}
            THEN [job EXCEPT !.phase = "Expired"] ELSE job
  /\ UNCHANGED <<limits, facts, exec, progress, server, net, client, shown, faults>>
Fault ==
  ~Over /\ faults < MaxFaults /\ faults' = faults + 1
Stale ==
  /\ Fault /\ view.fresh
  /\ view' = [view EXCEPT !.fresh = FALSE]
  /\ UNCHANGED <<limits, facts, exec, progress, job, server, net, client, shown>>
Close ==
  /\ Fault /\ ~view.closing
  /\ view' = [view EXCEPT !.closing = TRUE]
  /\ UNCHANGED <<limits, facts, exec, progress, job, server, net, client, shown>>
\* The connection is lost, with any of the last frames
Disconnect ==
  /\ Fault /\ client.phase \in {"Reading", "Closing"}
  /\ \E n \in 0..Len(net) : net' = Append(SubSeq(net, 1, n), Frame("Status", <<>>, "Unavailable"))
  /\ server' = IdleServer
  /\ UNCHANGED <<limits, facts, exec, progress, job, view, client, shown>>
\* The provider restarts: the run and its live events are gone, the journal is not.  It
\* holds the input and the transcript of a retained job only.
Restart ==
  /\ Fault
  /\ exec' = [exec EXCEPT !.phase = IF job.phase = "Accepted" /\ Retain THEN "Start" ELSE "Gone"]
  /\ progress' = <<>>
  /\ job' = [job EXCEPT !.phase = IF @ = "Running" THEN "Indeterminate" ELSE @,
                        !.result = IF Retain THEN @ ELSE <<>>]
  /\ server' = IdleServer
  /\ net' = IF client.phase \in {"Reading", "Closing"} THEN Append(net, Frame("Status", <<>>, "Unavailable")) ELSE net
  /\ UNCHANGED <<limits, facts, view, client, shown>>

\* begin_run: the margins have to fit before the deadline at a fresh height; a run
\* that is refused is not spawned again
Dispatchable == view.fresh /\ view.passed = 0
Runs(Step) ==
  /\ ~Over /\ (job.phase = "Accepted" => exec.phase = "Start" /\ Dispatchable)
  /\ Step
  /\ UNCHANGED <<view, server, net, client, shown, faults>>
Run == Runs(ExecNext)
RunRefused ==
  /\ ~Over /\ job.phase = "Accepted" /\ exec.phase = "Start" /\ ~Dispatchable
  /\ exec' = [exec EXCEPT !.phase = "Gone"]
  /\ UNCHANGED <<limits, facts, progress, job, view, server, net, client, shown, faults>>
Next ==
  \/ Run \/ RunRefused
  \/ Reserve \/ RetainedDelivery \/ Snapshot \/ Send \/ Sent \/ Wake
  \/ Dial \/ Receive \/ Retry \/ UserGone
  \/ Refresh \/ DeadlinePasses \/ Stale \/ Close \/ Disconnect \/ Restart

Serve == Reserve \/ RetainedDelivery \/ Snapshot \/ Send \/ Sent \/ Wake
Consume == Dial \/ Receive \/ Retry
Progress == Runs(ExecForward) \/ RunRefused
Clock == Refresh \/ DeadlinePasses

Spec == Init /\ [][Next]_vars
-----------------------------------------------------------------------------
\* What the service keeps of the run is what the executor published, and the
\* verifier of the client has seen a prefix of it.
StreamTypeOK ==
  /\ server.phase \in {"Idle", "Reserve", "Retained", "Snapshot", "Send", "Wait", "Ended"}
  /\ client.phase \in {"Dial", "Reading", "Closing", "Retry", "Done", "Failed", "Malformed"}
  /\ client.observed => client.emitted = (shown # <<>>)
  /\ client.phase \in {"Reading", "Closing"} /\ client.observed =>
       shown = SelectSeq(client.verifier.events, LAMBDA e : e.body.kind = "Chunk")

\* The user sees the events of one transcript, in order and once: what was shown is
\* a prefix of what is recorded, whichever calls were retried ("Reopening after a
\* prefix would replay it into the user's stream").
ShownOnce ==
  /\ \A i \in DOMAIN shown : shown[i].sequence = i - 1
  /\ job.phase = "Ready" /\ job.result # <<>> => IsPrefix(shown, job.result)

\* An honest provider's stream never fails the client's checks: no interleaving of
\* live events, the record and the retained rest makes a gap, a repetition, an
\* oversized frame or a stream without an ending.
HonestStreamVerifies == client.phase # "Malformed"

\* Plaintext leaves only after its release is in the journal, where it counts as
\* delivered whatever happens next.
ReleasedFirst == (shown # <<>> \/ \E i \in DOMAIN net : net[i].kind \in {"Prefix", "Terminal"}) => job.released

=============================================================================
