----------------------------- MODULE MCGateway ------------------------------
(*************************************************************************)
(* The buyer's side of a request: the pool that routes it to a provider  *)
(* or the purchase that is made directly; and the projector that turns   *)
(* an upstream response into signed events.  part says which of the five *)
(* a behaviour is about; the other variables stay as they began.         *)
(*   responses  ResponsesProjector, an upstream that says anything or    *)
(*              follows a plan                                           *)
(*   request    ResponsesProjector, every request it may be asked to     *)
(*              adapt                                                    *)
(*   pool       PaidGateway, one request and two providers               *)
(*   channel    PaidGateway, two requests and one provider               *)
(*   purchase   Purchase, one file for all purchases over one channel    *)
(*************************************************************************)
EXTENDS ResponsesProjector

VARIABLE part

VARIABLES
  paid_pc, paid_cand, paid_gone, paid_out, paid_start, paid_lock, paid_session,
  paid_needs, paid_down, paid_pending, paid_jobs, paid_setup, paid_draining,
  paid_restarts

paid_vars ==
  <<paid_pc, paid_cand, paid_gone, paid_out, paid_start, paid_lock, paid_session,
  paid_needs, paid_down, paid_pending, paid_jobs, paid_setup, paid_draining,
  paid_restarts>>

VARIABLES
  buy_file, buy_latest, buy_side, buy_jobs, buy_closing, buy_cursor, buy_pc, buy_at,
  buy_rec, buy_again, buy_sess, buy_work, buy_bought, buy_shown

buy_vars ==
  <<buy_file, buy_latest, buy_side, buy_jobs, buy_closing, buy_cursor, buy_pc, buy_at,
  buy_rec, buy_again, buy_sess, buy_work, buy_bought, buy_shown>>

---------------------------------------------------------------------------
Text1 == <<"a">>
Text2 == <<"a", "a">>

\* Requests that vary one field at a time from one that is accepted.
Plain ==
    [model |-> "m", stream |-> "absent", store |-> "absent", input |-> <<>>, tools |-> <<>>,
     choice |-> "absent", max |-> 7, temperature |-> 1, top_p |-> 1, logprobs |-> 0,
     schema |-> TRUE, obfuscate |-> "absent", large |-> "no"]

Message(role, parts) == [kind |-> "message", role |-> role, parts |-> parts, call |-> "", name |-> ""]
Call(kind, call, name) == [kind |-> kind, role |-> "", parts |-> "", call |-> call, name |-> name]
Function(name, parameters, strict) == [name |-> name, parameters |-> parameters, strict |-> strict]

OneRequest == {Plain}

SomeRequests ==
    {Plain, [Plain EXCEPT !.model = ""], [Plain EXCEPT !.stream = "true", !.store = "false"],
     [Plain EXCEPT !.stream = "false"], [Plain EXCEPT !.store = "true"], [Plain EXCEPT !.max = 0],
     [Plain EXCEPT !.temperature = 3], [Plain EXCEPT !.top_p = 2], [Plain EXCEPT !.logprobs = 1],
     [Plain EXCEPT !.schema = FALSE], [Plain EXCEPT !.obfuscate = "true"], [Plain EXCEPT !.obfuscate = "false"],
     [Plain EXCEPT !.max = Absent, !.temperature = Absent, !.top_p = Absent, !.logprobs = Absent]}
    \cup {[Plain EXCEPT !.large = l] : l \in {"signed", "rebuilt"}}
    \cup {[Plain EXCEPT !.input = <<Message(r, q)>>] :
            r \in {"user", "assistant", "tool"}, q \in {"none", "input", "output"}}
    \cup {[Plain EXCEPT !.input = <<Call(k, c, n)>>] :
            k \in {"call", "output"}, c \in {"", "c"}, n \in {"", "f"}}
    \cup {[Plain EXCEPT !.tools = <<Function(n, q, b)>>, !.choice = "f"] :
            n \in {"", "f", "g"}, q \in {"object", "null", "array"}, b \in BOOLEAN}
    \cup {[Plain EXCEPT !.tools = <<Function("f", "object", TRUE), Function("f", "null", TRUE)>>]}

\* What an arbitrary upstream may say about at most two items.
Bodies ==
    {Snapshot("message", "i", st, "", "", t) : st \in {"in_progress", "completed", "incomplete"}, t \in {<<>>, Text1, Text2}}
    \cup {Snapshot("function", "j", st, "c", "f", t) : st \in {"in_progress", "completed"}, t \in {<<>>, Text1}}
    \cup {Snapshot("function", "j", "in_progress", "", "f", <<>>)}

Outputs ==
    {<<>>} \cup {<<b>> : b \in Bodies}
    \cup {<<Snapshot("message", "i", "completed", "", "", Text1), Snapshot("function", "j", "completed", "c", "f", Text1)>>}

AnyEvents ==
    {[Frame(t) EXCEPT !.response = Response("r", "m", "in_progress", <<>>)] : t \in {"created", "in_progress"}}
    \cup {[Frame(t) EXCEPT !.index = n, !.item = b] : t \in {"item_added", "item_done"}, n \in 1..2, b \in Bodies}
    \cup {[Frame(t) EXCEPT !.index = 1, !.id = "i", !.kind = "message", !.text = x] :
            t \in {"part_added", "part_done", "text_done"}, x \in {<<>>, Text1, Text2}}
    \cup {[Frame("text_delta") EXCEPT !.index = 1, !.id = "i", !.kind = "message", !.text = Text1],
          [Frame("arguments_delta") EXCEPT !.index = 2, !.id = "j", !.text = Text1]}
    \cup {[Frame(t) EXCEPT !.index = n, !.id = "j", !.text = x] :
            t \in {"arguments_done"}, n \in 1..2, x \in {<<>>, Text1}}
    \cup {[Frame("completed") EXCEPT !.response = Response("r", "m", "completed", o)] : o \in Outputs}
    \cup {[Frame("incomplete") EXCEPT !.response =
            [Response("r", "m", "incomplete", o) EXCEPT !.reason = x]] : o \in Outputs, x \in {"Cancelled", "other"}}
    \cup {[Frame("completed") EXCEPT !.response = Response("q", "m", "completed", <<>>)],
          [Frame("completed") EXCEPT !.response =
              [Response("r", "m", "completed", <<>>) EXCEPT !.usage = Usage(1, 1, 3)]],
          [Frame("completed") EXCEPT !.response =
              [Response("r", "m", "completed", <<>>) EXCEPT !.usage = Usage(1, 1, 2)]],
          [Frame("completed") EXCEPT !.response =
              [Response("r", "m", "completed", <<>>) EXCEPT !.usage = Usage(1, Absent, 3)]],
          [Frame("created") EXCEPT !.seq = FALSE], [Frame("created") EXCEPT !.form = FALSE], Frame("failed")}

FewEvents ==
    {[Frame(t) EXCEPT !.response = Response("r", "m", "in_progress", <<>>)] : t \in {"created", "in_progress"}}

NoPlan == {<<>>}

Item(kind, id, cuts, text) ==
    [kind |-> kind, id |-> id, call |-> IF kind = "function" THEN "c" ELSE "",
     name |-> IF kind = "function" THEN "f" ELSE "", cuts |-> cuts, text |-> text]

SomePlans ==
    {<<Item("reasoning", "i", <<Text1>>, <<>>), Item("message", "k", <<>>, Text2), Item("function", "j", <<Text1>>, <<>>)>>,
     <<Item("message", "i", <<Text1, Text1>>, <<>>), Item("function", "j", <<>>, <<>>)>>,
     <<Item("function", "j", <<>>, Text1), Item("message", "i", <<<<>>>>, <<>>)>>}

OneCaller == {"r1"}
TwoProviders == {"p1", "p2"}

AllPlans == NoPlan \cup SomePlans

TwoCallers == {"r1", "r2"}
OneProvider == {"p1"}

---------------------------------------------------------------------------
Request == INSTANCE ResponsesProjector WITH
  Requests <- SomeRequests, Events <- FewEvents, Plans <- NoPlan

Pool == INSTANCE PaidGateway WITH
  Requests <- OneCaller, Providers <- TwoProviders, Retained <- OneCaller,
  MaxPending <- 1, Free <- "free",
  MaxJobs <- 1, MaxRestarts <- 1, pc <- paid_pc, cand <- paid_cand, gone <- paid_gone,
  out <- paid_out, start <- paid_start, lock <- paid_lock, session <- paid_session,
  needs <- paid_needs, down <- paid_down, pending <- paid_pending, jobs <- paid_jobs,
  setup <- paid_setup, draining <- paid_draining, restarts <- paid_restarts

Chan == INSTANCE PaidGateway WITH
  Requests <- TwoCallers, Providers <- OneProvider, Retained <- OneCaller,
  MaxPending <- 2, Free <- "free",
  MaxJobs <- 2, MaxRestarts <- 1, pc <- paid_pc, cand <- paid_cand, gone <- paid_gone,
  out <- paid_out, start <- paid_start, lock <- paid_lock, session <- paid_session,
  needs <- paid_needs, down <- paid_down, pending <- paid_pending, jobs <- paid_jobs,
  setup <- paid_setup, draining <- paid_draining, restarts <- paid_restarts

Purchases == INSTANCE Purchase WITH
  Channels <- OneProvider, NoChannel <- "none", MaxNonce <- 2, MaxBuys <- 2,
  MaxHeight <- 3, AcceptBlocks <- 0, TerminalBlocks <- 1, PayBlocks <- 1,
  Retains <- FALSE, Tracked <- FALSE,
  file <- buy_file, latest <- buy_latest, side <- buy_side, jobs <- buy_jobs,
  closing <- buy_closing, cursor <- buy_cursor, pc <- buy_pc, at <- buy_at,
  rec <- buy_rec, again <- buy_again, sess <- buy_sess, work <- buy_work,
  bought <- buy_bought, shown <- buy_shown

ASSUME Pool!GatewayConstants /\ Chan!GatewayConstants

---------------------------------------------------------------------------
MCInit ==
  /\ part \in {"responses", "request", "pool", "channel", "purchase"}
  /\ IF part = "responses" THEN Init ELSE Request!Init
  /\ IF part = "channel" THEN Chan!Init ELSE Pool!Init
  /\ Purchases!Init

ResponsesStep ==
  part = "responses" /\ Next /\ UNCHANGED <<part, paid_vars, buy_vars>>

RequestStep ==
  part = "request" /\ Request!Next /\ UNCHANGED <<part, paid_vars, buy_vars>>

PoolStep ==
  part = "pool" /\ Pool!Next /\ UNCHANGED <<part, vars, buy_vars>>

ChannelStep ==
  part = "channel" /\ Chan!Next /\ UNCHANGED <<part, vars, buy_vars>>

PurchaseStep ==
  part = "purchase" /\ Purchases!Next /\ UNCHANGED <<part, vars, paid_vars>>

MCNext == ResponsesStep \/ RequestStep \/ PoolStep \/ ChannelStep \/ PurchaseStep

MCSpec == MCInit /\ [][MCNext]_<<part, vars, paid_vars, buy_vars>>

---------------------------------------------------------------------------

\* A request is bought at most once: proposed to one provider, whatever failed or was
\* left uncertain, with nothing left behind when it was not, and nothing proposed or
\* paid after a drain; accepted work stays armed for recovery; locks and counts
\* agree; and an untracked purchase is recorded before it leaves and charged once.
NothingIsBoughtTwice ==
  /\ [](part = "pool" => Pool!ProposedOnce /\ Pool!UnproposedLeavesNothing)
  /\ [](part = "channel" => Chan!TypeOK /\ Chan!RecoveryStaysArmed)
  /\ [](part = "purchase" => Purchases!ChargedOnce /\ Purchases!ProposalsAreRecorded)
  /\ [][part = "pool" /\ paid_draining = "drained" /\ paid_draining' = "drained" =>
          /\ Pool!Running' = {}
          /\ \A v \in TwoProviders : Len(paid_jobs'[v]) = Len(paid_jobs[v])]_<<part, paid_vars>>

\* A response says what was signed: one that finishes is whole, its texts, calls and
\* terminal agreeing and its calls numbered in order; an honest stream is accepted
\* wherever it was cut; and the request that went upstream is sealed, accepted again
\* unchanged by the same checks.
ResponsesAreWhole ==
  /\ TypeOK /\ FinishedIsWhole /\ CallsAreOrdered /\ HonestIsAccepted
  /\ part = "request" => Request!RequestIsSealed
=============================================================================
