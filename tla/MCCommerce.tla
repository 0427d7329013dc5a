----------------------------- MODULE MCCommerce -----------------------------
(*************************************************************************)
(* What a client and a provider do around a channel: setting one up,     *)
(* buying over it, and running and delivering what was bought, and the   *)
(* gateway that does so for others.  part says which of the nine a       *)
(* behaviour is about; the other variables stay as they began.           *)
(*   purchase  Purchase, tracked attempts over two channels              *)
(*   setup     Setup, the provider driving; one crash, two exchanges     *)
(*   anchor    Setup, both endpoints driving until both have mounted     *)
(*   fetch     ResultStream, a proxied call whose prefixes are cut       *)
(*   compute   ResultStream, a program of two steps                      *)
(*   calls     Execution, proxied calls whose limits bind one after the  *)
(*             other                                                     *)
(*   programs  Execution, programs of up to three steps with an output   *)
(*             buffer                                                    *)
(*   tight     Execution, an invocation that barely fits its failure     *)
(*   gateway   WorkStream, two requests and a drain that may be dropped  *)
(*************************************************************************)
EXTENDS Purchase, TLC

VARIABLE part

VARIABLES
  setup_blocks, setup_chain, setup_pool, setup_admits, setup_setup, setup_driver,
  setup_channel, setup_exchange, setup_answered, setup_crashes, setup_exchanges

setup_vars ==
  <<setup_blocks, setup_chain, setup_pool, setup_admits, setup_setup, setup_driver,
  setup_channel, setup_exchange, setup_answered, setup_crashes, setup_exchanges>>

VARIABLES
  run_limits, run_facts, run_exec, run_progress, run_job, run_view, run_server,
  run_net, run_client, run_shown, run_faults

run_vars ==
  <<run_limits, run_facts, run_exec, run_progress, run_job, run_view, run_server,
  run_net, run_client, run_shown, run_faults>>

VARIABLES
  work_req, work_gw, work_drains

work_vars ==
  <<work_req, work_gw, work_drains>>

---------------------------------------------------------------------------
(* A setup that the provider alone drives, on a chain that loses submissions *)
(* and lets others spend the coins; and one that both endpoints drive, whose *)
(* channel may be closed as soon as it is open.                              *)

ProviderDrives == {"provider"}
BothDrive == {"provider", "client"}
Others == {"spendBond", "spendPayment", "closePayment"}
Closer == {"spendBond", "closePayment"}

(* Results: one job of each capacity domain; the frame limit of the proxied  *)
(* call holds two small events, so that live prefixes are cut.               *)

FetchLimits == [bytes : {4}, steps : {0}, events : {3}, spool : {40}, frame : {14}]
FetchPayloads == {<<1, 2, 1>>}
FetchTerminals == {<<1>>}
ComputeLimits == [bytes : {4}, steps : {2}, events : {0}, spool : {0}, frame : {0}]
ComputeBuffers == {<<2, 1>>}
OneValue == {1}
StopAtTwo == {2}

CallLimits ==
  [bytes : {4, 6}, steps : {0}, events : {2, 4}, spool : {6, 12, 20, 27, 34, 41, 60},
   frame : {7, 8, 10, 60}]
CallPayloads == {<<1>>, <<1, 2>>, <<2, 2, 1>>}
CallTerminals == {<<1>>, <<1, 1>>}
ProgramLimits == [bytes : 4..6, steps : {3, 5}, events : {0}, spool : {0}, frame : {0}]
ProgramBuffers == {<<>>, <<1>>, <<2, 1, 2>>}
TightLimits == [bytes : {6}, steps : {4}, events : {0}, spool : {0}, frame : {0}]

(* The gateway's runs: two that only end, or panic.                          *)

ShortScripts ==
  {[chunks |-> <<>>, frames |-> <<>>, framed |-> TRUE, verdict |-> v, done |-> <<1>>, decodes |-> TRUE] :
     v \in {"None", "Panic"}}
OnePolicy == {<<[contract |-> 1, body |-> "Admitted"]>>}
TwoRequests == {"r1", "r2"}
OneDrainer == {"d1"}

---------------------------------------------------------------------------
Opening == INSTANCE Setup WITH
  Drivers <- ProviderDrives, Foreign <- Others, Lossy <- TRUE, Horizon <- 4,
  MaxHeight <- 3, Batch <- 2, MaxCrashes <- 1, MaxExchanges <- 2,
  blocks <- setup_blocks, chain <- setup_chain, pool <- setup_pool,
  admits <- setup_admits, setup <- setup_setup, driver <- setup_driver,
  channel <- setup_channel, exchange <- setup_exchange, answered <- setup_answered,
  crashes <- setup_crashes, exchanges <- setup_exchanges

Anchoring == INSTANCE Setup WITH
  Drivers <- BothDrive, Foreign <- Closer, Lossy <- FALSE, Horizon <- 4,
  MaxHeight <- 3, Batch <- 2, MaxCrashes <- 0, MaxExchanges <- 2,
  blocks <- setup_blocks, chain <- setup_chain, pool <- setup_pool,
  admits <- setup_admits, setup <- setup_setup, driver <- setup_driver,
  channel <- setup_channel, exchange <- setup_exchange, answered <- setup_answered,
  crashes <- setup_crashes, exchanges <- setup_exchanges

Fetch == INSTANCE ResultStream WITH
  Input <- "request", MaxChunkBytes <- 2, MaxArtifacts <- 2, ChunkFraming <- 1,
  TerminalPayload <- 2, FailurePayload <- 1, EventFraming <- 2, ReservedFraming <- 7,
  ArrayHeader <- 1, WidestHeader <- 2, FrameFraming <- 1, TerminalFraming <- 2,
  Live <- TRUE, Domain <- "Fetch", MaxInvocationBytes <- 60, PlanSteps <- 0,
  StopValues <- {}, Values <- {}, Buffers <- {}, Limits <- FetchLimits,
  Payloads <- FetchPayloads, TerminalPayloads <- FetchTerminals, MaxFaults <- 1, Retain <- FALSE,
  limits <- run_limits, facts <- run_facts, exec <- run_exec, progress <- run_progress,
  job <- run_job, view <- run_view, server <- run_server, net <- run_net,
  client <- run_client, shown <- run_shown, faults <- run_faults

Compute == INSTANCE ResultStream WITH
  Input <- "request", MaxChunkBytes <- 2, MaxArtifacts <- 2, ChunkFraming <- 1,
  TerminalPayload <- 2, FailurePayload <- 1, EventFraming <- 2, ReservedFraming <- 7,
  ArrayHeader <- 1, WidestHeader <- 2, FrameFraming <- 1, TerminalFraming <- 2,
  Live <- TRUE, Domain <- "Gpu", MaxInvocationBytes <- 200, Payloads <- {},
  TerminalPayloads <- {}, StopValues <- StopAtTwo, Limits <- ComputeLimits,
  PlanSteps <- 2, Values <- OneValue, Buffers <- ComputeBuffers, MaxFaults <- 1, Retain <- TRUE,
  limits <- run_limits, facts <- run_facts, exec <- run_exec, progress <- run_progress,
  job <- run_job, view <- run_view, server <- run_server, net <- run_net,
  client <- run_client, shown <- run_shown, faults <- run_faults

Calls == INSTANCE Execution WITH
  Input <- "request", MaxChunkBytes <- 2, MaxArtifacts <- 2, ChunkFraming <- 1,
  TerminalPayload <- 2, FailurePayload <- 1, EventFraming <- 2, ReservedFraming <- 7,
  ArrayHeader <- 1, WidestHeader <- 2, FrameFraming <- 1, TerminalFraming <- 2,
  Live <- TRUE, Domain <- "Fetch", MaxInvocationBytes <- 60, PlanSteps <- 0,
  StopValues <- {}, Values <- {}, Buffers <- {}, Limits <- CallLimits,
  Payloads <- CallPayloads, TerminalPayloads <- CallTerminals, limits <- run_limits,
  facts <- run_facts, exec <- run_exec, progress <- run_progress, job <- run_job

Programs == INSTANCE Execution WITH
  Input <- "request", MaxChunkBytes <- 2, MaxArtifacts <- 2, ChunkFraming <- 1,
  TerminalPayload <- 2, FailurePayload <- 1, EventFraming <- 2, ReservedFraming <- 7,
  ArrayHeader <- 1, WidestHeader <- 2, FrameFraming <- 1, TerminalFraming <- 2,
  Live <- TRUE, Domain <- "Gpu", MaxInvocationBytes <- 200, Payloads <- {},
  TerminalPayloads <- {}, StopValues <- StopAtTwo, Limits <- ProgramLimits,
  PlanSteps <- 3, Values <- 1 .. 2, Buffers <- ProgramBuffers, limits <- run_limits,
  facts <- run_facts, exec <- run_exec, progress <- run_progress, job <- run_job

Tight == INSTANCE Execution WITH
  Input <- "request", MaxChunkBytes <- 2, MaxArtifacts <- 2, ChunkFraming <- 1,
  TerminalPayload <- 2, FailurePayload <- 1, EventFraming <- 2, ReservedFraming <- 7,
  ArrayHeader <- 1, WidestHeader <- 2, FrameFraming <- 1, TerminalFraming <- 2,
  Live <- FALSE, Domain <- "Gpu", MaxInvocationBytes <- 6, Payloads <- {},
  TerminalPayloads <- {}, StopValues <- StopAtTwo, Limits <- TightLimits,
  PlanSteps <- 3, Values <- 1 .. 3, Buffers <- ProgramBuffers, limits <- run_limits,
  facts <- run_facts, exec <- run_exec, progress <- run_progress, job <- run_job

Gateway == INSTANCE WorkStream WITH
  Requests <- TwoRequests, Scripts <- ShortScripts, Policies <- OnePolicy,
  MaxPending <- 2, BufferBytes <- 7, BufferEvents <- 4, EventOverhead <- 1,
  MaxPayload <- 3, Endpoints <- 1, Drainers <- OneDrainer, MaxCancels <- 1,
  req <- work_req, gw <- work_gw, drains <- work_drains

ASSUME Opening!SetupConstants

---------------------------------------------------------------------------
\* A run whose result nobody waits for.
Undelivered ==
  /\ run_view = <<>> /\ run_server = <<>> /\ run_net = <<>>
  /\ run_client = <<>> /\ run_shown = <<>> /\ run_faults = 0

MCInit ==
  /\ part \in {"purchase", "setup", "anchor", "fetch", "compute", "calls", "programs", "tight", "gateway"}
  /\ Init
  /\ Opening!Init /\ (part # "setup" => setup_admits)
  /\ CASE part = "fetch" -> Fetch!Init
       [] part = "compute" -> Compute!Init
       [] part = "calls" -> Calls!ExecInit /\ Undelivered
       [] part = "programs" -> Programs!ExecInit /\ Undelivered
       [] part = "tight" -> Tight!ExecInit /\ Undelivered
       [] OTHER -> /\ run_limits = <<>> /\ run_facts = <<>> /\ run_exec = <<>>
                   /\ run_progress = <<>> /\ run_job = <<>> /\ Undelivered
  /\ Gateway!Init

PurchaseStep ==
  part = "purchase" /\ Next /\ UNCHANGED <<part, setup_vars, run_vars, work_vars>>

SetupStep ==
  part = "setup" /\ Opening!Next /\ UNCHANGED <<part, vars, run_vars, work_vars>>

AnchorStep ==
  part = "anchor" /\ Anchoring!Next /\ UNCHANGED <<part, vars, run_vars, work_vars>>

FetchStep ==
  part = "fetch" /\ Fetch!Next /\ UNCHANGED <<part, vars, setup_vars, work_vars>>

ComputeStep ==
  part = "compute" /\ Compute!Next /\ UNCHANGED <<part, vars, setup_vars, work_vars>>

CallsStep ==
  /\ part = "calls"
  /\ Calls!ExecNext
  /\ UNCHANGED <<run_view, run_server, run_net, run_client, run_shown, run_faults>>
  /\ UNCHANGED <<part, vars, setup_vars, work_vars>>

ProgramsStep ==
  /\ part = "programs"
  /\ Programs!ExecNext
  /\ UNCHANGED <<run_view, run_server, run_net, run_client, run_shown, run_faults>>
  /\ UNCHANGED <<part, vars, setup_vars, work_vars>>

TightStep ==
  /\ part = "tight"
  /\ Tight!ExecNext
  /\ UNCHANGED <<run_view, run_server, run_net, run_client, run_shown, run_faults>>
  /\ UNCHANGED <<part, vars, setup_vars, work_vars>>

GatewayStep ==
  part = "gateway" /\ Gateway!Next /\ UNCHANGED <<part, vars, setup_vars, run_vars>>

MCNext ==
  \/ PurchaseStep
  \/ SetupStep
  \/ AnchorStep
  \/ FetchStep
  \/ ComputeStep
  \/ CallsStep
  \/ ProgramsStep
  \/ TightStep
  \/ GatewayStep

MCSpec == MCInit /\ [][MCNext]_<<part, vars, setup_vars, run_vars, work_vars>>

---------------------------------------------------------------------------
\* Opening a channel commits nobody by accident: an aborted setup holds no stake, an
\* outcome is what the chain shows, what was submitted or sent is in the journal
\* first, every checkpoint opens again, and both ends share one history.
SetupsAreSound ==
  part \in {"setup", "anchor"} =>
    /\ Opening!AbortsHoldNoStake /\ Opening!OutcomesAreTrue
    /\ Opening!SubmissionsAreRemembered /\ Opening!ExportsAreJournaled
    /\ Opening!CheckpointsReopen /\ Opening!ChannelsShareHistory

\* The user sees one transcript, once and in order, that verifies and was released
\* first, over lost connections, retries and a restart of the provider.
OneTranscriptIsShown ==
  /\ part = "fetch" => /\ Fetch!StreamTypeOK /\ Fetch!ShownOnce
                       /\ Fetch!HonestStreamVerifies /\ Fetch!ReleasedFirst
  /\ part = "compute" => /\ Compute!StreamTypeOK /\ Compute!ShownOnce
                         /\ Compute!HonestStreamVerifies /\ Compute!ReleasedFirst

\* Whatever runs out, accepted work gets a signed ending: what was published stays in
\* the transcript, publication never refuses what the executor signed within its
\* bounds, the result can be recorded, and the failure itself always fits.
WorkIsSignedOff ==
  /\ part = "calls" =>
       Calls!PublishedStays /\ Calls!PublishNeverRefused /\ Calls!ResultIsRecorded
  /\ part = "programs" =>
       Programs!PublishedStays /\ Programs!PublishNeverRefused /\ Programs!ResultIsRecorded
  /\ part = "tight" => Tight!FailureAlwaysFits

\* Once a drain has seen the tasks end none runs or starts again, and a drain that
\* reports success followed no task that panicked, whoever reaped it.
DrainsAreFinal ==
  part = "gateway" => Gateway!DrainedIsQuiet /\ Gateway!PanicIsReported
=============================================================================
