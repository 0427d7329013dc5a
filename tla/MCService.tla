----------------------------- MODULE MCService ------------------------------
(*************************************************************************)
(* A provider's grant service, the delivery of a result, and the         *)
(* gateway's queue of work.  part says which of the five a behaviour is  *)
(* about; the other variables stay as they began.                        *)
(*   grants    GrantService, one job and one delivery                    *)
(*   draining  GrantService, two jobs and room for one                   *)
(*   stream    WorkStream, one request with every script and policy      *)
(*   drains    WorkStream, one request and two drains                    *)
(*   result    ResultStream, a call of one small event                   *)
(*************************************************************************)
EXTENDS GrantService, Sequences

VARIABLE part

VARIABLES
  drn_clock, drn_right, drn_job, drn_journal, drn_status, drn_live, drn_cache,
  drn_task, drn_output, drn_stream, drn_invoked, drn_lapsed

drn_vars ==
  <<drn_clock, drn_right, drn_job, drn_journal, drn_status, drn_live, drn_cache,
  drn_task, drn_output, drn_stream, drn_invoked, drn_lapsed>>

VARIABLES
  work_req, work_gw, work_drains

work_vars ==
  <<work_req, work_gw, work_drains>>

VARIABLES
  run_limits, run_facts, run_exec, run_progress, run_job, run_view, run_server,
  run_net, run_client, run_shown, run_faults

run_vars ==
  <<run_limits, run_facts, run_exec, run_progress, run_job, run_view, run_server,
  run_net, run_client, run_shown, run_faults>>

---------------------------------------------------------------------------
(* Scripts that split frames, overflow and fail. *)

\* Two frames <<1>> and <<0, 1>>, cut in several ways.
TwoFrames == <<<<1>>, <<0, 1>>>>
Script(chunks, frames, framed, verdict, done, decodes) ==
    [chunks |-> chunks, frames |-> frames, framed |-> framed, verdict |-> verdict,
     done |-> done, decodes |-> decodes]

AllScripts ==
    {Script(c, TwoFrames, TRUE, "Completed", <<1>>, TRUE) :
        c \in {<<<<1, 1, 2, 0, 1>>>>, <<<<1>>, <<1, 2, 0>>, <<1>>>>, <<<<1, 1, 2>>, <<0, 1>>>>}}
    \cup
    {Script(<<<<1, 7>>>>, <<<<7>>>>, TRUE, v, <<>>, TRUE) : v \in {"Error", "Panic", "None"}}
    \cup
    {Script(<<<<1, 7>>, <<4, 8>>>>, <<<<7>>>>, FALSE, "Completed", <<1>>, TRUE),
     Script(<<<<0, 1, 7>>>>, <<<<>>, <<7>>>>, TRUE, "Completed", <<1>>, FALSE),
     Script(<<<<1, 7>>>>, <<<<7>>>>, TRUE, "Completed", <<1, 2, 3, 4, 5, 6, 7, 8>>, TRUE)}

FewScripts ==
    {Script(<<<<1, 7>>>>, <<<<7>>>>, TRUE, v, <<1>>, TRUE) : v \in {"Completed", "Panic"}}

\* Runs that only end, for the drains.
ShortScripts == {Script(<<>>, <<>>, TRUE, v, <<1>>, TRUE) : v \in {"None", "Panic"}}

Under(contract, body) == [contract |-> contract, body |-> body]

AllPolicies ==
    {<<Under(1, "Admitted"), Under(2, "Refused"), Under(1, "Admitted")>>,
     <<Under(1, "Admitted"), Under(2, "Admitted")>>,
     <<Under(1, "Refused")>>, <<>>,
     <<Under(1, "Admitted"), Under(2, "Unrepaired")>>}

OnePolicy == {<<Under(1, "Admitted")>>}

OneRequest == {"r1"}
TwoRequests == {"r1", "r2"}
OneDrainer == {"d1"}
TwoDrainers == {"d1", "d2"}

(* A service with room for one live job of two. *)
TwoWorks == {"v", "w"}
LongLived == {9}

(* A proxied call of one small event. *)
ShortLimits == [bytes : {3}, steps : {0}, events : {2}, spool : {30}, frame : {14}]
ShortPayloads == {<<1>>}

---------------------------------------------------------------------------
Draining == INSTANCE GrantService WITH
  Works <- TwoWorks, Deliveries <- {}, Lifetimes <- LongLived, MaxLive <- 1,
  MaxTime <- 3, clock <- drn_clock, right <- drn_right, job <- drn_job,
  journal <- drn_journal, status <- drn_status, live <- drn_live, cache <- drn_cache,
  task <- drn_task, output <- drn_output, stream <- drn_stream, invoked <- drn_invoked,
  lapsed <- drn_lapsed

Stream == INSTANCE WorkStream WITH
  BufferBytes <- 7, BufferEvents <- 4, EventOverhead <- 1, MaxPayload <- 3,
  Endpoints <- 1, Requests <- OneRequest, Scripts <- AllScripts,
  Policies <- AllPolicies, MaxPending <- 1, Drainers <- OneDrainer, MaxCancels <- 0,
  req <- work_req, gw <- work_gw, drains <- work_drains

Drains == INSTANCE WorkStream WITH
  BufferBytes <- 7, BufferEvents <- 4, EventOverhead <- 1, MaxPayload <- 3,
  Endpoints <- 1, Requests <- OneRequest, Scripts <- FewScripts, Policies <- OnePolicy,
  MaxPending <- 1, Drainers <- TwoDrainers, MaxCancels <- 1, req <- work_req,
  gw <- work_gw, drains <- work_drains

Result == INSTANCE ResultStream WITH
  Input <- "request", MaxChunkBytes <- 2, MaxArtifacts <- 2, ChunkFraming <- 1,
  TerminalPayload <- 2, FailurePayload <- 1, EventFraming <- 2, ReservedFraming <- 7,
  ArrayHeader <- 1, WidestHeader <- 2, FrameFraming <- 1, TerminalFraming <- 2,
  Live <- TRUE, Domain <- "Fetch", MaxInvocationBytes <- 60, PlanSteps <- 0,
  StopValues <- {}, Values <- {}, Buffers <- {}, Limits <- ShortLimits,
  Payloads <- ShortPayloads, TerminalPayloads <- ShortPayloads, MaxFaults <- 1, Retain <- FALSE,
  limits <- run_limits, facts <- run_facts, exec <- run_exec, progress <- run_progress,
  job <- run_job, view <- run_view, server <- run_server, net <- run_net,
  client <- run_client, shown <- run_shown, faults <- run_faults

---------------------------------------------------------------------------
MCInit ==
  /\ part \in {"grants", "draining", "stream", "drains", "result"}
  /\ Init /\ (part # "grants" => right.until = 9)
  /\ Draining!Init
  /\ IF part = "drains" THEN Drains!Init ELSE Stream!Init
  /\ Result!Init /\ (part # "result" => run_client.observed)

GrantsStep ==
  part = "grants" /\ Next /\ UNCHANGED <<part, drn_vars, work_vars, run_vars>>

DrainingStep ==
  part = "draining" /\ Draining!Next /\ UNCHANGED <<part, vars, work_vars, run_vars>>

StreamStep ==
  part = "stream" /\ Stream!Next /\ UNCHANGED <<part, vars, drn_vars, run_vars>>

DrainsStep ==
  part = "drains" /\ Drains!Next /\ UNCHANGED <<part, vars, drn_vars, run_vars>>

ResultStep ==
  part = "result" /\ Result!Next /\ UNCHANGED <<part, vars, drn_vars, work_vars>>

MCNext == GrantsStep \/ DrainingStep \/ StreamStep \/ DrainsStep \/ ResultStep

\* A spawned task runs, a backend returns and drain awaits the tasks; a request under way, its
\* run, a reader that polls and a drain that is awaited go on; a call is served
\* and consumed, and its deadlines pass.
Fairness ==
  /\ \A x \in TwoWorks : WF_drn_vars(part = "draining" /\ Draining!TaskStep(x) /\ Draining!Lapse)
  /\ WF_drn_vars(part = "draining" /\ Draining!Stop /\ Draining!Lapse)
  /\ WF_work_vars(part = "stream" /\ Stream!Submit("r1"))
  /\ WF_work_vars(part = "stream" /\ Stream!Spawn("r1"))
  /\ WF_work_vars(part = "stream" /\ Stream!Accept("r1"))
  /\ WF_work_vars(part = "stream" /\ Stream!Progress("r1"))
  /\ WF_work_vars(part = "stream" /\ Stream!RunReturns("r1"))
  /\ WF_work_vars(part = "stream" /\ Stream!Complete("r1"))
  /\ WF_work_vars(part = "stream" /\ Stream!ReaderLooks("r1"))
  /\ WF_work_vars(part = "stream" /\ Stream!ReaderSelects("r1"))
  /\ WF_work_vars(part = "stream" /\ Stream!ReaderWakes("r1"))
  /\ WF_work_vars(part = "drains" /\ Drains!Submit("r1"))
  /\ WF_work_vars(part = "drains" /\ Drains!Spawn("r1"))
  /\ WF_work_vars(part = "drains" /\ Drains!Accept("r1"))
  /\ WF_work_vars(part = "drains" /\ Drains!Progress("r1"))
  /\ WF_work_vars(part = "drains" /\ Drains!RunReturns("r1"))
  /\ WF_work_vars(part = "drains" /\ Drains!Complete("r1"))
  /\ WF_work_vars(part = "drains" /\ Drains!ReaderLooks("r1"))
  /\ WF_work_vars(part = "drains" /\ Drains!ReaderSelects("r1"))
  /\ WF_work_vars(part = "drains" /\ Drains!ReaderWakes("r1"))
  /\ \A d \in TwoDrainers :
       /\ WF_work_vars(part = "drains" /\ Drains!DrainCloses(d))
       /\ WF_work_vars(part = "drains" /\ Drains!DrainPolls(d))
       /\ WF_work_vars(part = "drains" /\ Drains!DrainSource(d))
       /\ WF_work_vars(part = "drains" /\ Drains!DrainEndpoint(d))
       /\ SF_work_vars(part = "drains" /\ Drains!DrainLocks(d))
  /\ WF_run_vars(part = "result" /\ Result!Serve)
  /\ WF_run_vars(part = "result" /\ Result!Consume)
  /\ WF_run_vars(part = "result" /\ Result!Progress)
  /\ WF_run_vars(part = "result" /\ Result!Clock)

MCSpec == MCInit /\ [][MCNext]_<<part, vars, drn_vars, work_vars, run_vars>> /\ Fairness

---------------------------------------------------------------------------
\* What was taken on ends.  Every accepted job ends, or the journal it would end in has
\* failed; a stream that is read ends, with all of the output, the run's error or the
\* slow-consumer error; the client's call for a result ends, with the result or an error.
WorkEnds == 
  \/ part = "draining" /\ drn_job["w"] = "accepted"
  \/ part = "stream" /\ work_req["r1"].stream = "Top"
  \/ part = "result"
  ~>
  \/ part = "draining" /\ (drn_job["w"] \in Ended \/ drn_journal = "poisoned")
  \/ part = "stream" /\ work_req["r1"].stream \in Stream!StreamOver
  \/ part = "result" /\ Result!Over

\* A drain comes to an end.  The service stops, or has failed with no task left; a drain of
\* the gateway that is not dropped ends with the endpoints closed, though another drain may
\* hold the draining lock or be dropped while it does.
DrainsEnd == 
  \/ part = "draining" /\ drn_status = "draining"
  \/ part = "drains" /\ work_drains["d1"].pc = "Closing"
  ~>
  \/ part = "draining" /\ (\/ drn_status = "stopped"
                           \/ drn_status = "failed" /\ \A x \in TwoWorks : drn_task[x] \in {"none", "done"})
  \/ part = "drains" /\ (\/ work_drains["d1"].pc = "Idle"
                         \/ work_drains["d1"].pc = "Done" /\ work_gw.endpoints = 0)

\* A reader of a work stream gets what the run emitted, without a gap or a repeat: a
\* job that fits is never called slow, frames are whole however they were cut, a
\* request runs under the one contract that admits it, and both budgets add up.
StreamsAreWhole ==
  part = "stream" =>
    /\ Stream!TypeOK /\ Stream!NoGaps /\ Stream!FittingJobIsDelivered
    /\ Stream!FramesAreWhole /\ Stream!AdmittedIsUnique

\* What was taken on ends, and so does a drain that waits for it.
EverythingEnds == WorkEnds /\ DrainsEnd
=============================================================================
