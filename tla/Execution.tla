----------------------------- MODULE Execution ------------------------------
(***************************************************************************)
(* One accepted invocation at the provider: the executor turns what the    *)
(* upstream provider answers (Fetch) or what the program computes (Gpu)    *)
(* into a signed transcript, publishing every event as soon as it is       *)
(* signed, and the work service keeps the published events and records the *)
(* transcript as the job's result.                                         *)
(* An event that has been published may be in the client's hands, so the   *)
(* transcript may only grow from there; and whatever runs out - bytes,     *)
(* events, spool, time - the accepted job is owed a signed ending.         *)
(***************************************************************************)
EXTENDS Integers, Sequences, SequencesExt, FiniteSets, FiniteSetsExt, TLC

(***************************************************************************)
(* The signed output of one invocation: a chain of events, each naming its *)
(* predecessor, that carries artifacts in contiguous chunks and ends with  *)
(* a terminal or a failure.  The builder (OutputStream), the incremental   *)
(* verifier (StreamVerifier) and the verifier of whole transcripts of      *)
(* rpc/src/protocol/invocation/output.rs, over the chains of               *)
(* rpc/src/protocol/stream.rs.                                             *)
(* Bytes are cells.  A commitment is a free term: the chain it commits to. *)
(* The keys, the scheme and the canonicalization of an event are one       *)
(* field, signed, that says whether they are the expected ones.            *)
(***************************************************************************)

CONSTANTS
  Input,            \* the commitment of the request
  MaxChunkBytes,    \* MAX_CHUNK_BYTES
  MaxArtifacts,     \* MAX_ARTIFACTS
  ChunkFraming,     \* what the payload of a chunk adds to its bytes
  TerminalPayload,  \* the payload of a terminal
  FailurePayload    \* FAILURE_PAYLOAD_BYTES

\* FoldLeft, each step on the value of the one before it
Folded(op(_, _), base, seq) ==
  FoldLeft(LAMBDA acc, x : CHOOSE r \in {op(a, x) : a \in {acc}} : TRUE, base, seq)

Chunk(name, offset, bytes) ==
  [kind |-> "Chunk", name |-> name, offset |-> offset, bytes |-> bytes]
Terminal(artifacts, metadata) ==
  [kind |-> "Terminal", artifacts |-> artifacts, metadata |-> metadata]
Failure(reason) == [kind |-> "Failure", reason |-> reason]

PayloadLen(body) ==
  CASE body.kind = "Chunk" -> Len(body.bytes) + ChunkFraming
    [] body.kind = "Terminal" -> TerminalPayload
    [] body.kind = "Failure" -> FailurePayload
PayloadBytes(events) == FoldLeft(LAMBDA n, e : n + PayloadLen(e.body), 0, events)

-----------------------------------------------------------------------------
(* The chain: output_genesis, event_commitment, and the event that comes  *)
(* next in a chain.                                                        *)
Genesis == << Input >>
Commitment(e) == Append(e.previous, <<e.sequence, e.body>>)
Tip(events) == IF events = <<>> THEN Genesis ELSE Commitment(Last(events))
PushEnvelope(events, body) ==
  Append(events, [signed |-> TRUE, input |-> Input, sequence |-> Len(events),
                  previous |-> Tip(events), body |-> body])

\* verify_output_event_continuation
Continues(e, sequence, previous) ==
  /\ e.signed
  /\ e.input = Input
  /\ e.sequence = sequence
  /\ e.previous = previous

\* verify_output_event_envelopes
IsChain(events) ==
  /\ events # <<>>
  /\ \A i \in DOMAIN events : Continues(events[i], i - 1, Tip(SubSeq(events, 1, i - 1)))

-----------------------------------------------------------------------------
(* ArtifactPrefix: how far each artifact has got.                          *)
NoPrefix == [n \in {} |-> 0]
PrefixTakes(prefix, c) ==
  /\ Len(c.bytes) <= MaxChunkBytes
  /\ IF c.name \in DOMAIN prefix
     THEN prefix[c.name] = c.offset /\ c.offset # 0 /\ c.bytes # <<>>
     ELSE c.offset = 0 /\ Cardinality(DOMAIN prefix) < MaxArtifacts
PrefixPush(prefix, c) == (c.name :> c.offset + Len(c.bytes)) @@ prefix

\* The artifacts that chunks carry: name -> bytes
Collect(artifacts, c) ==
  (c.name :> (IF c.name \in DOMAIN artifacts THEN artifacts[c.name] ELSE <<>>) \o c.bytes) @@ artifacts
NoArtifacts == [n \in {} |-> <<>>]

-----------------------------------------------------------------------------
(* OutputStream: the builder.  An operation that the code may refuse       *)
(* answers with the error, "Limit" or "Invalid", beside the stream.        *)
NewStream(maximum) ==
  [events |-> <<>>, artifacts |-> NoArtifacts, used |-> 0, maximum |-> maximum, error |-> "None"]
Refused(s, error) == [s EXCEPT !.error = error]
Failed(s) == s.error # "None"

Fits(s, bytes) == s.used + bytes <= s.maximum

Published(s, body) ==
  [s EXCEPT !.events = PushEnvelope(@, body), !.used = @ + PayloadLen(body),
            !.artifacts = IF body.kind = "Chunk" THEN Collect(@, body) ELSE @]

PushInner(s, c, reserve) ==
  IF Failed(s) THEN s
  ELSE IF ~PrefixTakes([n \in DOMAIN s.artifacts |-> Len(s.artifacts[n])], c) THEN Refused(s, "Invalid")
  ELSE IF ~Fits(s, PayloadLen(c) + reserve) THEN Refused(s, "Limit")
  ELSE Published(s, c)
Push(s, c) == PushInner(s, c, FailurePayload)

\* fail
FailStream(s, reason) ==
  IF Fits(s, FailurePayload) THEN Published(s, Failure(reason)) ELSE Refused(s, "Limit")

\* The chunks of an artifact that are still to be published
Pieces(name, bytes, from, size) ==
  [i \in 1..((Len(bytes) - from + size - 1) \div size) |->
     Chunk(name, from + (i - 1) * size, SubSeq(bytes, from + (i - 1) * size + 1, Min({Len(bytes), from + i * size})))]
Remaining(s, name, bytes, size) ==
  IF name \in DOMAIN s.artifacts THEN Pieces(name, bytes, Len(s.artifacts[name]), size)
  ELSE IF bytes = <<>> THEN << Chunk(name, 0, <<>>) >>
  ELSE Pieces(name, bytes, 0, size)

\* append_completion: the rest of every artifact in the order of the names, then the terminal
Extends(s, artifacts) ==
  \A n \in DOMAIN s.artifacts : n \in DOMAIN artifacts /\ IsPrefix(s.artifacts[n], artifacts[n])
AppendTerminal(s, body) ==
  IF Failed(s) THEN s ELSE IF Fits(s, PayloadLen(body)) THEN Published(s, body) ELSE Refused(s, "Limit")
AppendCompletion(s, artifacts, names, metadata, size) ==
  IF ~Extends(s, artifacts) THEN Refused(s, "Invalid")
  ELSE AppendTerminal(
         Folded(LAMBDA t, c : PushInner(t, c, 0), s,
                  FlattenSeq([i \in DOMAIN names |-> Remaining(s, names[i], artifacts[names[i]], size)])),
         Terminal(artifacts, metadata))

\* resume: what the events hold is checked and built up again
Resume(events, maximum) ==
  Folded(LAMBDA s, e : IF Failed(s) THEN s
                         ELSE IF s.used + PayloadLen(e.body) > maximum THEN Refused(s, "Limit")
                         ELSE Published(s, e.body),
           NewStream(maximum), events)

FinishOrFail(s, artifacts, names, metadata, size) ==
  LET done == AppendCompletion(s, artifacts, names, metadata, size) IN
  IF ~Failed(done) THEN done
  ELSE FailStream(Resume(SubSeq(done.events, 1, Len(s.events)), s.maximum),
                  IF done.error = "Limit" THEN "OutputLimit" ELSE "Execution")

-----------------------------------------------------------------------------
(* verify: a whole transcript.  An output is the outcome, the artifacts    *)
(* and the metadata; a refused transcript has none.                        *)
Output(outcome, artifacts, metadata) ==
  [outcome |-> outcome, artifacts |-> artifacts, metadata |-> metadata]
Bodies(events) == [i \in DOMAIN events |-> events[i].body]

\* The chunks of the bodies, taken one after the other
TakeBody(acc, body) ==
  IF ~acc.ok \/ acc.ended THEN [acc EXCEPT !.ok = FALSE]
  ELSE IF body.kind # "Chunk" THEN [acc EXCEPT !.ended = TRUE]
  ELSE [acc EXCEPT !.ok = PrefixTakes(acc.prefix, body),
                   !.prefix = PrefixPush(@, body), !.artifacts = Collect(@, body)]
Taken(bodies) ==
  Folded(TakeBody, [ok |-> TRUE, ended |-> FALSE, prefix |-> NoPrefix, artifacts |-> NoArtifacts], bodies)

Concluded(acc, body) ==
  IF ~acc.ok \/ ~acc.ended THEN {}
  ELSE IF body.kind = "Failure" THEN {Output(body.reason, acc.artifacts, <<>>)}
  ELSE IF body.artifacts = acc.artifacts THEN {Output("Succeeded", acc.artifacts, body.metadata)}
  ELSE {}
Verify(events, budget) ==
  IF PayloadBytes(events) > budget \/ ~IsChain(events) THEN {}
  ELSE UNION {Concluded(acc, Last(events).body) : acc \in {Taken(Bodies(events))}}

-----------------------------------------------------------------------------
(* StreamVerifier: the same transcript, one event at a time.               *)
NewVerifier(budget) ==
  [events |-> <<>>, previous |-> Genesis, prefix |-> NoPrefix, bytes |-> 0, budget |-> budget,
   output |-> {}, ok |-> TRUE]

VerifierTakes(v, e) ==
  /\ v.output = {}
  /\ v.bytes + PayloadLen(e.body) <= v.budget
  /\ Continues(e, Len(v.events), v.previous)
  /\ IF e.body.kind = "Chunk" THEN PrefixTakes(v.prefix, e.body)
     ELSE Verify(Append(v.events, e), v.budget) # {}

VerifierPush(v, e) ==
  IF ~v.ok \/ ~VerifierTakes(v, e) THEN [v EXCEPT !.ok = FALSE]
  ELSE [v EXCEPT !.events = Append(@, e), !.previous = Commitment(e),
                 !.bytes = @ + PayloadLen(e.body),
                 !.prefix = IF e.body.kind = "Chunk" THEN PrefixPush(@, e.body) ELSE @,
                 !.output = IF e.body.kind = "Chunk" THEN {} ELSE Verify(Append(v.events, e), v.budget)]

---------------------------------------------------------------------------

CONSTANTS
  Live,              \* whether the caller takes live events (execute_stream)
  Domain,            \* "Fetch" or "Gpu": the capacity domain of the invocation
  Limits,            \* the admitted limits: [bytes, steps, events, spool, frame]
  MaxInvocationBytes,\* MAX_INVOCATION_BYTES
  EventFraming,      \* what an encoded envelope adds to its payload
  ReservedFraming,   \* what compute_bounds reserves for that
  ArrayHeader,       \* the CBOR header of a transcript
  WidestHeader,      \* the widest one
  FrameFraming,      \* what a prefix frame adds to the transcript it carries
  TerminalFraming,   \* what a terminal frame adds to that: the signed result
  Payloads,          \* the event payloads the upstream provider answers with
  TerminalPayloads,  \* its terminal payloads
  PlanSteps,         \* the steps of the plan
  StopValues,        \* the values it stops at
  Values,            \* the values a step may emit
  Buffers            \* what the plan's output buffer may hold

VARIABLES
  limits,    \* the limits this invocation was admitted with
  facts,     \* the bounds derived from them
  exec,      \* the executor's run
  progress,  \* the service's published events of the job
  job        \* the job in the provider's journal

-----------------------------------------------------------------------------
MaxOutputBytes == limits.bytes
MaxOutputEvents == limits.events

(* Sizes.  A payload is encoded as an array of integers: one byte for a    *)
(* small cell, two for others.                                             *)
CellWidth(c) == IF c < 2 THEN 1 ELSE 2
EventLen(body) ==
  EventFraming + 2 * PayloadLen(body)
    - (IF body.kind = "Chunk" THEN Cardinality({i \in DOMAIN body.bytes : CellWidth(body.bytes[i]) = 1}) ELSE 0)
SpoolLen(events) == ArrayHeader + FoldLeft(LAMBDA n, e : n + EventLen(e.body), 0, events)

\* compute_bounds: an emitted value is one cell
ComputeBounds(l, chunks, payload) ==
  [frame |-> 2 * Max({Min({l.bytes, MaxChunkBytes}) + ChunkFraming, TerminalPayload}) + ReservedFraming,
   spool |-> 2 * payload + (chunks + 1) * ReservedFraming + ArrayHeader,
   events |-> chunks + 1, payload |-> payload]
ComputeChunks(l) == Min({l.steps, l.bytes}) + ((l.bytes + MaxChunkBytes - 1) \div MaxChunkBytes) + MaxArtifacts
ComputeFacts(l) ==
  ComputeBounds(l, ComputeChunks(l), l.bytes + ComputeChunks(l) * ChunkFraming + TerminalPayload)
FetchFacts(l) ==
  [frame |-> l.frame, spool |-> l.spool, events |-> l.bytes + l.events + 2, payload |-> l.spool]

\* AdmissionFacts::for_admission
Capped(f, spool) ==
  [frame |-> Min({f.frame, spool}), spool |-> spool, events |-> Min({f.events, spool}), payload |-> Min({f.payload, spool})]
ForAdmission(f) == Capped(f, Min({f.spool, MaxInvocationBytes}))
Facts(l) == ForAdmission(IF Domain = "Gpu" THEN ComputeFacts(l) ELSE FetchFacts(l))

-----------------------------------------------------------------------------
(* Fetch framing: a length, then that many cells.                          *)
FrameEvent(payload) == << Len(payload) >> \o payload

\* A reader of frames: the cells still missing of the current one (-1 between frames)
ReadCell(r, c) ==
  IF r.missing = -1 THEN [r EXCEPT !.missing = c, !.begun = @ + 1]
  ELSE [r EXCEPT !.missing = IF @ = 1 THEN -1 ELSE @ - 1, !.cells = @ + 1]
Frames(bytes) == Folded(ReadCell, [missing |-> -1, begun |-> 0, cells |-> 0], bytes)

ResponseEvents == "response.events"
Artifact(output, name) == IF name \in DOMAIN output.artifacts THEN output.artifacts[name] ELSE <<>>

\* validate_output and validate_failed_output of a Fetch
FetchOutputOk(output, read) ==
  IF output.outcome = "Succeeded"
  THEN /\ read.missing = -1
       /\ read.begun + 1 <= MaxOutputEvents
       /\ read.cells + Len(output.metadata) <= MaxOutputBytes
  ELSE read.begun + 1 <= MaxOutputEvents /\ read.cells <= MaxOutputBytes

\* validate_output and validate_failed_output of a computation
StopRule(values) ==
  /\ values # <<>> /\ Len(values) <= PlanSteps
  /\ \A i \in 1..(Len(values) - 1) : values[i] \notin StopValues
  /\ Last(values) \in StopValues \/ Len(values) = PlanSteps
ComputeOutputOk(output) ==
  IF output.outcome = "Succeeded"
  THEN StopRule(Artifact(output, "emitted")) /\ Artifact(output, "buffer") \in Buffers
  ELSE Len(Artifact(output, "emitted")) + Len(Artifact(output, "buffer")) <= MaxOutputBytes

OutputOk(output) ==
  IF Domain = "Gpu" THEN ComputeOutputOk(output)
  ELSE FetchOutputOk(output, Frames(Artifact(output, ResponseEvents)))

\* verify_output
CheckEvents(events) ==
  /\ Len(events) <= facts.events
  /\ SpoolLen(events) <= facts.spool
  /\ \A i \in DOMAIN events : EventLen(events[i].body) <= facts.frame
VerifyOutput(events) ==
  /\ CheckEvents(events)
  /\ \E output \in Verify(events, facts.payload) : OutputOk(output)

-----------------------------------------------------------------------------
(* Frames of a result stream.                                              *)
PrefixFrameLen(events) == SpoolLen(events) + FrameFraming
TerminalFrameLen(event) == SpoolLen(<<event>>) + FrameFraming + TerminalFraming

\* prefix_batches: as many events as fit, an event that never fits alone
AddToBatches(batches, e) ==
  IF batches # <<>> /\ PrefixFrameLen(Append(Last(batches), e)) <= facts.frame
  THEN Append(Front(batches), Append(Last(batches), e))
  ELSE Append(batches, <<e>>)
PrefixBatches(events) == Folded(AddToBatches, <<>>, events)

\* result_frames, as the sizes record_result checks
ResultFramesFit(events) ==
  /\ \A i \in DOMAIN PrefixBatches(Front(events)) : PrefixFrameLen(PrefixBatches(Front(events))[i]) <= facts.frame
  /\ TerminalFrameLen(Last(events)) <= facts.frame

-----------------------------------------------------------------------------
(* The work service.                                                       *)
\* publish_progress: terminals are not published, and room is kept for one
PublishTakes(e) ==
  Live => /\ SpoolLen(Append(progress, e)) <= facts.spool
          /\ Len(progress) + 1 < facts.events
Publish(e) ==
  IF e.body.kind # "Chunk" \/ ~Live THEN progress ELSE Append(progress, e)

\* record_result, or the end of a run whose transcript it will not take
RecordResult(events) ==
  IF VerifyOutput(events) /\ ResultFramesFit(events)
  THEN job' = [job EXCEPT !.phase = "Ready", !.result = events]
  ELSE job' = [job EXCEPT !.phase = "Failed"]

-----------------------------------------------------------------------------
(* The executor.                                                           *)
StreamBudget == IF Domain = "Gpu" THEN MaxInvocationBytes ELSE facts.payload

\* Plan::validate_bounds
PlanFits(l) ==
  /\ PlanSteps <= l.steps
  /\ \A b \in Buffers : PlanSteps + Len(b) <= Min({l.bytes, MaxInvocationBytes})

ExecInit ==
  /\ limits \in {l \in Limits : Domain = "Gpu" => PlanFits(l)}
  /\ facts = Facts(limits)
  /\ exec = [phase |-> "Start", stream |-> NewStream(StreamBudget), published |-> <<>>,
             payloads |-> <<>>, payload |-> <<>>, pieces |-> <<>>, events |-> <<>>]
  /\ progress = <<>>
  /\ job = [phase |-> "Accepted", result |-> <<>>, released |-> FALSE]

\* The transcript goes to the service; a failure that could not be signed is a fault
Ended(stream) ==
  IF Failed(stream) THEN [exec EXCEPT !.phase = "Unsigned"]
  ELSE [exec EXCEPT !.phase = "Done", !.stream = stream, !.events = stream.events]

\* Mutant: the fallback is a transcript of its own
CheckedFresh(stream) ==
  IF Failed(stream) THEN stream
  ELSE IF VerifyOutput(stream.events) THEN stream
  ELSE FailStream(NewStream(StreamBudget), "OutputLimit")
\* run_fetch checks what it has signed; a transcript over its bounds falls back to what was published
Checked(stream) ==
  IF Failed(stream) THEN stream
  ELSE IF VerifyOutput(stream.events) THEN stream
  ELSE FailStream(Resume(exec.published, StreamBudget), "OutputLimit")
FetchEnd(stream) == (\E s \in {Checked(t) : t \in {stream}} : exec' = Ended(s)) /\ UNCHANGED <<limits, facts, progress, job>>
FetchFail(reason) == FetchEnd(FailStream(exec.stream, reason))

\* fits: a chunk is published only if a failure still fits behind it
FailureLen == EventLen(Failure("ExecutionTimeout")) + 1
FetchFits(e) ==
  /\ Len(exec.payloads) + 2 <= MaxOutputEvents
  /\ Len(exec.published) + 2 <= facts.events
  /\ Max({EventLen(e.body), FailureLen}) <= facts.frame
  /\ WidestHeader + SpoolLen(Append(exec.published, e)) - ArrayHeader + FailureLen <= facts.spool

\* begin_run: the running marker is journalled before the backend is called
BeginRun ==
  /\ job.phase = "Accepted"
  /\ job' = [job EXCEPT !.phase = "Running"]
  /\ UNCHANGED <<limits, facts, exec, progress>>

\* The bounds have to hold a signed failure, or the run is refused at once
Start ==
  /\ exec.phase = "Start" /\ job.phase = "Running"
  /\ exec' = [exec EXCEPT !.phase =
       IF \/ Domain = "Gpu"
          \/ /\ VerifyOutput(FailStream(exec.stream, "ExecutionTimeout").events)
             /\ FailureLen <= facts.frame
             /\ WidestHeader + FailureLen <= facts.spool
       THEN "Loop" ELSE "Invalid"]
  /\ UNCHANGED <<limits, facts, progress, job>>

\* The projector yields an event
FetchEvent(payload) ==
  /\ Domain = "Fetch" /\ exec.phase = "Loop" /\ exec.pieces = <<>>
  /\ IF FoldLeft(LAMBDA n, p : n + Len(p), Len(payload), exec.payloads) > MaxOutputBytes
     THEN FetchFail("OutputLimit")
     ELSE /\ exec' = [exec EXCEPT !.payload = payload,
                                  !.pieces = Pieces(ResponseEvents,
                                    Artifact(exec.stream, ResponseEvents) \o FrameEvent(payload),
                                    Len(Artifact(exec.stream, ResponseEvents)), MaxChunkBytes)]
          /\ UNCHANGED <<limits, facts, progress, job>>

\* One chunk of its frame is signed and published
FetchPublish(stream) ==
  IF ~PublishTakes(Last(stream.events))
  THEN exec' = [exec EXCEPT !.phase = "Refused"] /\ UNCHANGED <<limits, facts, progress, job>>
  ELSE /\ exec' = [exec EXCEPT !.stream = stream, !.published = stream.events, !.pieces = Tail(@),
                               !.payloads = IF Len(exec.pieces) = 1 THEN Append(@, exec.payload) ELSE @]
       /\ progress' = Publish(Last(stream.events))
       /\ UNCHANGED <<limits, facts, job>>
FetchChunkWith(stream) ==
  IF Failed(stream) THEN FetchFail("OutputLimit")
  ELSE IF ~FetchFits(Last(stream.events))
  THEN FetchEnd(FailStream(Resume(exec.published, StreamBudget), "OutputLimit"))
  ELSE FetchPublish(stream)
FetchChunk ==
  /\ Domain = "Fetch" /\ exec.phase = "Loop" /\ exec.pieces # <<>>
  /\ \E s \in {Push(exec.stream, Head(exec.pieces))} : FetchChunkWith(s)

\* The projector yields its terminal, in time or late
FetchTerminal(terminal) ==
  /\ Domain = "Fetch" /\ exec.phase = "Loop" /\ exec.pieces = <<>>
  /\ \/ FetchEnd(FinishOrFail(exec.stream, ResponseEvents :> FlattenSeq([i \in DOMAIN exec.payloads |-> FrameEvent(exec.payloads[i])]),
                              <<ResponseEvents>>, terminal, MaxChunkBytes))
     \/ FetchFail("ExecutionTimeout")

\* The caller cancels, the deadline passes, or the provider fails or ends early
FetchAbort(reason) ==
  /\ Domain = "Fetch" /\ exec.phase = "Loop" /\ exec.pieces = <<>>
  /\ FetchFail(reason)

-----------------------------------------------------------------------------
\* A step of the program emits a value
ComputePublish(stream) ==
  IF Failed(stream) THEN exec' = Ended(FailStream(exec.stream, "OutputLimit")) /\ UNCHANGED <<limits, facts, progress, job>>
  ELSE IF ~PublishTakes(Last(stream.events))
  THEN exec' = [exec EXCEPT !.phase = "Refused"] /\ UNCHANGED <<limits, facts, progress, job>>
  ELSE /\ exec' = [exec EXCEPT !.stream = stream, !.published = stream.events,
                               !.payloads = Append(@, Last(stream.events).body.bytes)]
       /\ progress' = Publish(Last(stream.events))
       /\ UNCHANGED <<limits, facts, job>>
Emitted == FlattenSeq(exec.payloads)
Stopped == Len(Emitted) = PlanSteps \/ (Emitted # <<>> /\ Last(Emitted) \in StopValues)
ComputeStep(value) ==
  /\ Domain = "Gpu" /\ exec.phase = "Loop" /\ ~Stopped
  /\ \E s \in {Push(exec.stream, Chunk("emitted", Len(Emitted), <<value>>))} : ComputePublish(s)

\* The program has stopped: its outputs complete the transcript, which is published event by event
Tailing(stream) ==
  IF Failed(stream) THEN Ended(stream)
  ELSE [exec EXCEPT !.phase = "Tail", !.stream = stream, !.events = stream.events]
\* An output that the plan's own validation refuses ends the run in a failure instead
Unshaped == << -1 >>
ComputeDone(buffer) ==
  LET artifacts == ("buffer" :> buffer) @@ ("emitted" :> Emitted) IN
  /\ Domain = "Gpu" /\ exec.phase = "Loop" /\ Stopped
  /\ IF ComputeOutputOk(Output("Succeeded", artifacts, <<Len(Emitted)>>))
     THEN \E s \in {FinishOrFail(exec.stream, artifacts, <<"buffer", "emitted">>,
                                 <<Len(Emitted)>>, MaxChunkBytes)} : exec' = Tailing(s)
     ELSE \E s \in {FailStream(exec.stream, "Execution")} : exec' = Ended(s)
  /\ UNCHANGED <<limits, facts, progress, job>>

ComputeTail ==
  /\ exec.phase = "Tail"
  /\ IF Len(exec.published) = Len(exec.events)
     THEN exec' = [exec EXCEPT !.phase = "Done"] /\ UNCHANGED <<limits, facts, progress, job>>
     ELSE \E e \in {exec.events[Len(exec.published) + 1]} :
            IF e.body.kind = "Chunk" /\ ~PublishTakes(e)
            THEN exec' = [exec EXCEPT !.phase = "Refused"] /\ UNCHANGED <<limits, facts, progress, job>>
            ELSE exec' = [exec EXCEPT !.published = Append(@, e)] /\ progress' = Publish(e) /\ UNCHANGED <<limits, facts, job>>

ComputeTailStops(reason) ==
  /\ exec.phase = "Tail" /\ Len(exec.published) < Len(exec.events)
  /\ \E s \in {FailStream(Resume(SubSeq(exec.events, 1, Len(exec.published)), StreamBudget), reason)} : exec' = Ended(s)
  /\ UNCHANGED <<limits, facts, progress, job>>

ComputeAbort(reason) ==
  /\ Domain = "Gpu" /\ exec.phase = "Loop"
  /\ \E s \in {FailStream(exec.stream, reason)} : exec' = Ended(s)
  /\ UNCHANGED <<limits, facts, progress, job>>

-----------------------------------------------------------------------------
\* run_accepted_work: the result is journalled, a fault ends the job
Record ==
  /\ exec.phase = "Done" /\ job.phase = "Running"
  /\ RecordResult(exec.events)
  /\ UNCHANGED <<limits, facts, exec, progress>>
EndRun ==
  /\ exec.phase \in {"Invalid", "Unsigned", "Refused"} /\ job.phase = "Running"
  /\ job' = [job EXCEPT !.phase = "Failed"]
  /\ UNCHANGED <<limits, facts, exec, progress>>
\* then the live events are dropped
DropProgress ==
  /\ job.phase \in {"Ready", "Failed"} /\ progress # <<>>
  /\ progress' = <<>>
  /\ UNCHANGED <<limits, facts, exec, job>>

ExecNext ==
  \/ BeginRun
  \/ Start
  \/ \E p \in Payloads : FetchEvent(p)
  \/ FetchChunk
  \/ \E t \in TerminalPayloads : FetchTerminal(t)
  \/ \E r \in {"Cancelled", "ExecutionTimeout", "Execution"} : FetchAbort(r)
  \/ \E v \in Values : ComputeStep(v)
  \/ \E b \in Buffers \cup {Unshaped} : ComputeDone(b)
  \/ ComputeTail
  \/ \E r \in {"Cancelled", "ExecutionTimeout"} : ComputeTailStops(r)
  \/ \E r \in {"Cancelled", "ExecutionTimeout", "Execution"} : ComputeAbort(r)
  \/ Record
  \/ EndRun
  \/ DropProgress

\* The steps that are taken without anyone outside: the run is started, its deadline
\* ends it, and what it hands over is recorded.
ExecForward ==
  \/ BeginRun \/ Start \/ FetchChunk \/ ComputeTail \/ Record \/ EndRun \/ DropProgress
  \/ FetchAbort("ExecutionTimeout") \/ ComputeAbort("ExecutionTimeout")

-----------------------------------------------------------------------------
\* The executor's account of what it published is the service's.
TypeOK ==
  /\ exec.phase \in {"Start", "Loop", "Tail", "Done", "Invalid", "Unsigned", "Refused"}
  /\ job.phase \in {"Accepted", "Running", "Ready", "Failed"}
  /\ job.phase \in {"Accepted", "Running"} /\ Live => progress = SelectSeq(exec.published, LAMBDA e : e.body.kind = "Chunk")
  /\ exec.stream.used = PayloadBytes(exec.stream.events)

\* An event that was published is never signed again differently: the transcript
\* extends what was published, whichever way the run ends (finish_or_fail, the
\* discarded candidate of run_fetch and the truncated tail of execute_signed_in).
PublishedStays ==
  exec.phase \in {"Done", "Tail"} => IsPrefix(SelectSeq(exec.published, LAMBDA e : e.body.kind = "Chunk"), exec.events)

\* The accepted job always gets a signed ending: the budget never refuses the
\* failure itself ("Live prefixes leave this room", output.rs).
FailureAlwaysFits == exec.phase # "Unsigned"

\* The service never refuses to publish what the executor signed within its
\* bounds (publish_progress against fits and compute_bounds).
PublishNeverRefused == exec.phase # "Refused"

\* Whatever the executor hands over verifies and is a result the service can record,
\* with one exception: the executor holds a bare event against the frame limit (fits)
\* and record_result the whole frame around it, so that a limit with no room for the
\* framing of some event ends the job unpaid.  With that room nothing is lost.
FramingFits(e) == EventLen(e.body) + ArrayHeader + FrameFraming + TerminalFraming <= facts.frame
ResultIsRecorded ==
  job.phase = "Failed" =>
    \/ exec.phase = "Invalid"
    \/ exec.phase = "Done" /\ VerifyOutput(exec.events)
         /\ \E i \in DOMAIN exec.events : ~FramingFits(exec.events[i])
=============================================================================
