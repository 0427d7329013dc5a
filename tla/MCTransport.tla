---------------------------- MODULE MCTransport -----------------------------
(*************************************************************************)
(* Calls and what they wait for: permits, credit, the channel of a       *)
(* provider.  part says which of the five a behaviour is about; the      *)
(* other variables stay as they began.                                   *)
(*   pool   PermitPool, three tasks and one permit                       *)
(*   call   RpcCall, one call of every kind                              *)
(*   route  RpcCall, two calls on a route of one permit and one worker   *)
(*   mux    Mux, a stream that waits for credit                          *)
(*   paid   PaidGateway, a request that waits for its providers          *)
(*************************************************************************)
EXTENDS PermitPool, Sequences

CONSTANT First   \* the task whose wait is followed; the tasks are alike

VARIABLE part

VARIABLES
  rpc_kind, rpc_cl, rpc_sv, rpc_up, rpc_down, rpc_broken, rpc_permits, rpc_workers

rpc_vars ==
  <<rpc_kind, rpc_cl, rpc_sv, rpc_up, rpc_down, rpc_broken, rpc_permits, rpc_workers>>

VARIABLES
  mux_side, mux_commands, mux_pipe, mux_handle, mux_up, mux_errors

mux_vars ==
  <<mux_side, mux_commands, mux_pipe, mux_handle, mux_up, mux_errors>>

VARIABLES
  paid_pc, paid_cand, paid_gone, paid_out, paid_start, paid_lock, paid_session,
  paid_needs, paid_down, paid_pending, paid_jobs, paid_setup, paid_draining,
  paid_restarts

paid_vars ==
  <<paid_pc, paid_cand, paid_gone, paid_out, paid_start, paid_lock, paid_session,
  paid_needs, paid_down, paid_pending, paid_jobs, paid_setup, paid_draining,
  paid_restarts>>

---------------------------------------------------------------------------
(* One call of every kind; and two calls that share a route of one permit *)
(* and one worker.                                                         *)

Body(v) == <<"body", v>>
End(code) == <<"end", code>>
Request(v) == <<Body(v), End("ok")>>

AllPlans ==
  {Request("v"), Request("big"), Request("bad"), <<Body("v"), Body("v"), End("ok")>>,
   <<Body("v")>>, <<End("ok")>>}

RoutePlans == {Request("v"), <<Body("v")>>}

AllOutcomes ==
  {[items |-> items, code |-> code] :
     items \in {<<>>, <<"a">>, <<"a", "b">>, <<"bad">>}, code \in {"ok", "app", "exhausted", "open"}}

RouteOutcomes == {[items |-> <<"a">>, code |-> "ok"]}

AllKinds == {"unary", "general", "work", "stream", "bidi"}
WorkOnly == {"work"}
OneCall == {"c1"}
TwoCalls == {"c1", "c2"}

---------------------------------------------------------------------------
(* A stream that sends two bodies over a window of one.                    *)

OneSlot == {0}
ServerOnly == {"server"}
TwoBodies == [g \in 1..1 |-> 2]

---------------------------------------------------------------------------
(* One paid request and two providers.                                     *)

OneCaller == {"r1"}
TwoProviders == {"p1", "p2"}

---------------------------------------------------------------------------
Call == INSTANCE RpcCall WITH
  Calls <- OneCall, Kinds <- AllKinds, Plans <- AllPlans, Outcomes <- AllOutcomes, Room <- 1,
  Permits <- 1, Workers <- 1, kind <- rpc_kind, cl <- rpc_cl, sv <- rpc_sv,
  up <- rpc_up, down <- rpc_down, broken <- rpc_broken, permits <- rpc_permits,
  workers <- rpc_workers

Route == INSTANCE RpcCall WITH
  Calls <- TwoCalls, Kinds <- WorkOnly, Plans <- RoutePlans, Outcomes <- RouteOutcomes, Room <- 1,
  Permits <- 1, Workers <- 1, kind <- rpc_kind, cl <- rpc_cl, sv <- rpc_sv,
  up <- rpc_up, down <- rpc_down, broken <- rpc_broken, permits <- rpc_permits,
  workers <- rpc_workers

Streams == INSTANCE Mux WITH
  Slots <- OneSlot, Client <- "client", Server <- "server", Window <- 1, Backlog <- 1,
  QueueCap <- 4, Senders <- ServerOnly, MaxGen <- 1, Bodies <- TwoBodies,
  MaxCommands <- 1, side <- mux_side, commands <- mux_commands, pipe <- mux_pipe,
  handle <- mux_handle, up <- mux_up, errors <- mux_errors

Paid == INSTANCE PaidGateway WITH
  Requests <- OneCaller, Providers <- TwoProviders, Retained <- OneCaller,
  MaxPending <- 1, Free <- "free",
  MaxJobs <- 1, MaxRestarts <- 0, pc <- paid_pc, cand <- paid_cand, gone <- paid_gone,
  out <- paid_out, start <- paid_start, lock <- paid_lock, session <- paid_session,
  needs <- paid_needs, down <- paid_down, pending <- paid_pending, jobs <- paid_jobs,
  setup <- paid_setup, draining <- paid_draining, restarts <- paid_restarts

---------------------------------------------------------------------------
MCInit ==
  /\ part \in {"pool", "call", "route", "mux", "paid"}
  /\ Init
  /\ IF part = "call" THEN Call!Init ELSE Route!Init
  /\ Streams!Init
  /\ Paid!Init

PoolStep ==
  part = "pool" /\ Next /\ UNCHANGED <<part, rpc_vars, mux_vars, paid_vars>>

CallStep ==
  part = "call" /\ Call!Next /\ UNCHANGED <<part, vars, mux_vars, paid_vars>>

RouteStep ==
  part = "route" /\ Route!Next /\ UNCHANGED <<part, vars, mux_vars, paid_vars>>

MuxStep ==
  part = "mux" /\ Streams!Next /\ UNCHANGED <<part, vars, rpc_vars, paid_vars>>

PaidStep ==
  part = "paid" /\ Paid!Next /\ UNCHANGED <<part, vars, rpc_vars, mux_vars>>

MCNext == PoolStep \/ CallStep \/ RouteStep \/ MuxStep \/ PaidStep

\* Every ready task is polled, every timer fires and every permit is returned.  In "route"
\* handlers answer.  In "mux" a driver is one task that select! polls fairly, and the
\* application accepts what arrives and reads what it has accepted: a read is not held up,
\* for the command channel of the code has no bound.
Fairness ==
  /\ \A t \in Tasks : WF_vars(part = "pool" /\ Step(t))
  /\ WF_rpc_vars(part = "call" /\ Call!Client("c1"))
  /\ WF_rpc_vars(part = "call" /\ Call!Dispatch("c1"))
  /\ \A c \in TwoCalls :
       /\ WF_rpc_vars(part = "route" /\ Route!Client(c))
       /\ WF_rpc_vars(part = "route" /\ (Route!Dispatch(c) \/ Route!Handle(c)))
  /\ \A s \in {"client", "server"} :
       /\ WF_mux_vars(part = "mux" /\ Streams!Serve(s))
       /\ WF_mux_vars(part = "mux" /\ Streams!HandleInbound(s))
       /\ WF_mux_vars(part = "mux" /\ Streams!AcceptStream(s))
       /\ SF_mux_vars(part = "mux" /\ Streams!ReadBody(s, 0, 1))
  /\ \A t \in OneCaller \cup TwoProviders : WF_paid_vars(part = "paid" /\ Paid!OwnStep(t))
  /\ WF_paid_vars(part = "paid" /\ Paid!Drained)

MCSpec == MCInit /\ [][MCNext]_<<part, vars, rpc_vars, mux_vars, paid_vars>> /\ Fairness

---------------------------------------------------------------------------
\* No waiter is forgotten.  A task that wants a permit gets one or gives up, while holders
\* return theirs; a gateway that closes admission is drained; a dispatch stops reading a
\* request whatever its client does.  With an application that accepts and reads, a send
\* that waits for credit resolves or the connection fails.  With handlers that answer and
\* clients that read, the permit of a call is returned.
WaitersAreServed ==
  \/ part = "pool" /\ pc[First] \in {"try", "asleep"}
  \/ part = "mux" /\ mux_side["server"].pending[0].gen # 0
  \/ part = "paid" /\ paid_draining = "closed"
  \/ part = "call" /\ rpc_sv["c1"].phase \in Call!Deadline
  \/ part = "route" /\ Route!HoldsPermit("c1")
  ~>
  \/ part = "pool" /\ pc[First] \in {"held", "idle"}
  \/ part = "mux" /\ (mux_side["server"].pending[0].gen = 0 \/ ~mux_up)
  \/ part = "paid" /\ paid_draining \in {"drained", "no"}
  \/ part = "call" /\ rpc_sv["c1"].phase \notin Call!Deadline
  \/ part = "route" /\ ~Route!HoldsPermit("c1")

\* A paid request is answered, whatever providers and callers do; a client is told when
\* its connection is gone, and asks only so long why a write failed.  A call that was
\* begun ends, if its handler answers and both ends read what arrives.
CallsEnd ==
  \/ part = "call" /\ Call!BoundedWait("c1")
  \/ part = "route" /\ rpc_cl["c1"].phase # "idle"
  \/ part = "paid" /\ paid_pc["r1"] = "queue"
  ~>
  \/ part \in {"call", "route"} /\ rpc_cl["c1"].phase = "done"
  \/ part = "paid" /\ paid_pc["r1"] = "done"

\* What a caller is told of a call is what happened: a success is the handler's whole
\* answer, a refused call never ran, and the span records an outcome of the client
\* only when the caller was told so.
CallsAreTruthful ==
  part = "call" => Call!SuccessIsReal /\ Call!RefusedNeverRan /\ Call!SpansAreTruthful

\* Nobody waits for ever.  Where the code has a deadline (reading a request, a failed
\* write, every wait of a paid request) nothing is asked of the other side; where it has
\* none (a response, credit, a permit) the wait ends if handlers answer, applications
\* read and holders return, which Fairness says part by part.
NobodyWaitsForever == WaitersAreServed /\ CallsEnd
=============================================================================
