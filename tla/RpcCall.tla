------------------------------ MODULE RpcCall ------------------------------
(***************************************************************************)
(* One RPC from both ends (crates/rpc/src/call.rs): the client's unary,    *)
(* server-streaming and bidirectional calls, and the dispatchers that      *)
(* serve them, two of them behind a bounded route.  A stream carries body  *)
(* frames and one terminal trailer each way; the connection may break at   *)
(* any time, a peer may stall, and every wait with a deadline may expire.  *)
(***************************************************************************)
EXTENDS Integers, Sequences, FiniteSets

CONSTANTS
  Calls,
  Kinds,            \* the kinds of call made
  Plans,            \* what a client may put on the request stream
  Outcomes,         \* what a handler may answer; code "open" is a subscription, which has no end
  Room,             \* the bodies a stream holds before its writer waits
  Permits, Workers  \* the bounded routes

VARIABLES
  kind, cl, sv, up, down,
  broken,           \* calls whose connection is gone
  permits, workers

vars == <<kind, cl, sv, up, down, broken, permits, workers>>

Body(v) == <<"body", v>>
End(code) == <<"end", code>>

Unary(c) == kind[c] \in {"unary", "general", "work"}
Bounded(c) == kind[c] \in {"general", "work"}

Init ==
  /\ kind \in [Calls -> Kinds]
  /\ cl = [c \in Calls |-> [phase |-> "idle", left |-> <<>>, got |-> <<>>, result |-> "", span |-> ""]]
  /\ sv = [c \in Calls |-> [phase |-> "idle", body |-> "", items |-> <<>>, code |-> "",
                            next |-> 1, end |-> "", span |-> ""]]
  /\ up = [c \in Calls |-> <<>>] /\ down = [c \in Calls |-> <<>>]
  /\ broken = {} /\ permits = Permits /\ workers = Workers

---------------------------------------------------------------------------
(* The connection *)

Break(c) ==
  /\ c \notin broken /\ cl[c].phase \notin {"idle", "done"}
  /\ broken' = broken \cup {c}
  /\ \E n \in 0..Len(up[c]) : up' = [up EXCEPT ![c] = SubSeq(@, 1, n)]
  /\ \E n \in 0..Len(down[c]) : down' = [down EXCEPT ![c] = SubSeq(@, 1, n)]
  /\ UNCHANGED <<kind, cl, sv, permits, workers>>

\* Nothing more will come up, and nothing more will come down
UpLost(c) == up[c] = <<>> /\ c \in broken
DownLost(c) == down[c] = <<>> /\ (c \in broken \/ sv[c].phase = "done")

\* Flow control: send_body waits for room, without a deadline; close_send does not
HasRoom(pipe, c, frame) == frame[1] = "end" \/ Len(pipe[c]) < Room

Send(pipe, c, frame) == [pipe EXCEPT ![c] = IF c \in broken THEN @ ELSE Append(@, frame)]

---------------------------------------------------------------------------
(* The client *)

\* CallSpan::finish: the first code stays
Note(span, code) == IF span = "" THEN code ELSE span

Ends(c, result) ==
  cl' = [cl EXCEPT ![c].phase = "done", ![c].result = result, ![c].left = <<>>,
                   ![c].span = Note(@, result)]

\* unary, server_streaming, bidi_streaming
Open(c) ==
  /\ cl[c].phase = "idle"
  /\ \/ Ends(c, "unavailable")
     \/ \E plan \in Plans :
          cl' = [cl EXCEPT ![c].phase = IF kind[c] = "bidi" THEN "items" ELSE "send",
                           ![c].left = plan]
  /\ UNCHANGED <<kind, sv, up, down, broken, permits, workers>>

\* send_request, StreamingSink::send and close
SendFrame(c) ==
  /\ cl[c].left # <<>> /\ cl[c].phase \in {"send", "items"} /\ c \notin broken
  /\ HasRoom(up, c, Head(cl[c].left))
  /\ up' = Send(up, c, Head(cl[c].left))
  /\ cl' = [cl EXCEPT ![c].left = Tail(@),
                      ![c].phase = IF @ = "items" THEN @
                                   ELSE IF Len(cl[c].left) > 1 THEN "send"
                                   ELSE IF Unary(c) THEN "body" ELSE "items"]
  /\ UNCHANGED <<kind, sv, down, broken, permits, workers>>

\* A write fails when the connection is gone or the peer stopped reading
SendFails(c) ==
  /\ cl[c].left # <<>> /\ cl[c].phase \in {"send", "items"}
  /\ c \in broken \/ sv[c].phase = "done"
  /\ cl' = [cl EXCEPT ![c].phase = IF @ = "send" THEN "recover" ELSE @, ![c].left = <<>>,
                      ![c].span = IF cl[c].phase = "items" THEN Note(@, "internal") ELSE @]
  /\ UNCHANGED <<kind, sv, up, down, broken, permits, workers>>

\* Only a terminal error explains a failed write
EarlyRefusal(c) == down[c] # <<>> /\ Head(down[c])[1] = "end" /\ Head(down[c])[2] # "ok"

\* send_request after a failed write; the deadline may expire first
Recover(c) ==
  /\ cl[c].phase = "recover"
  /\ \/ EarlyRefusal(c) /\ Ends(c, Head(down[c])[2])
     \/ Ends(c, "internal")
  /\ UNCHANGED <<kind, sv, up, down, broken, permits, workers>>

\* The bidirectional sink is dropped before it was closed
DropSink(c) ==
  /\ kind[c] = "bidi" /\ cl[c].phase = "items" /\ cl[c].left # <<>>
  /\ cl' = [cl EXCEPT ![c].left = <<>>, ![c].span = Note(@, "cancelled")]
  /\ up' = Send(up, c, End("cancelled"))
  /\ UNCHANGED <<kind, sv, down, broken, permits, workers>>

\* Mutant: the end of the stream is taken for its success
FinishedAny(frame) == "ok"

\* The trailer of a stream that ended
Finished(frame) == frame[2]

\* unary_with_trailer: exactly one body, then the end, and the body decodes
RecvUnary(c) ==
  /\ cl[c].phase = "body" /\ down[c] # <<>>
  /\ LET frame == Head(down[c]) IN
     IF frame[1] = "body"
     THEN IF cl[c].got = <<>> THEN cl' = [cl EXCEPT ![c].got = <<frame[2]>>]
          ELSE Ends(c, "internal")
     ELSE Ends(c, IF cl[c].got \in {<<>>, <<"bad">>} /\ frame[2] = "ok" THEN "internal"
                  ELSE Finished(frame))
  /\ down' = [down EXCEPT ![c] = Tail(@)]
  /\ UNCHANGED <<kind, sv, up, broken, permits, workers>>

\* StreamingCall: items until the end, then finish; what does not decode is an
\* error item, at which the caller may stop
RecvItem(c) ==
  /\ cl[c].phase = "items" /\ down[c] # <<>>
  /\ LET frame == Head(down[c]) IN
     IF frame[1] = "end" THEN Ends(c, Finished(frame))
     ELSE \/ cl' = [cl EXCEPT ![c].got = Append(@, frame[2]),
                              ![c].span = IF frame[2] = "bad" THEN Note(@, "internal") ELSE @]
          \/ frame[2] = "bad" /\ Ends(c, "internal")
  /\ down' = [down EXCEPT ![c] = Tail(@)]
  /\ UNCHANGED <<kind, sv, up, broken, permits, workers>>

\* No trailer is an error
RecvLost(c) ==
  /\ cl[c].phase \in {"body", "items"} /\ DownLost(c)
  /\ Ends(c, "internal")
  /\ UNCHANGED <<kind, sv, up, down, broken, permits, workers>>

\* The caller lets go of the call
DropCall(c) ==
  /\ cl[c].phase \in {"send", "recover", "body", "items"}
  /\ Ends(c, "cancelled")
  /\ up' = IF cl[c].left = <<>> THEN up ELSE Send(up, c, End("cancelled"))
  /\ UNCHANGED <<kind, sv, down, broken, permits, workers>>

Client(c) ==
  \/ Open(c) \/ SendFrame(c) \/ SendFails(c) \/ Recover(c)
  \/ RecvUnary(c) \/ RecvItem(c) \/ RecvLost(c)

---------------------------------------------------------------------------
(* The server *)

HoldsPermit(c) == Bounded(c) /\ sv[c].phase \notin {"idle", "done"}
HoldsWorker(c) == kind[c] = "work" /\ sv[c].phase \in {"handle", "write"}

\* The permits are dropped when the dispatch returns
Release(c) ==
  /\ permits' = permits + (IF HoldsPermit(c) THEN 1 ELSE 0)
  /\ workers' = workers + (IF HoldsWorker(c) THEN 1 ELSE 0)

\* A dispatch that returns an error writes no trailer
Abort(c, code) ==
  /\ sv' = [sv EXCEPT ![c].phase = "done", ![c].span = Note(@, code)]
  /\ Release(c)
  /\ UNCHANGED <<kind, cl, up, down, broken>>

\* write_trailer: recorded once it is written
Trailer(c, code) ==
  /\ sv' = [sv EXCEPT ![c].phase = "done", ![c].end = IF c \in broken THEN "" ELSE code,
                      ![c].span = Note(@, IF c \in broken THEN "internal" ELSE code)]
  /\ down' = Send(down, c, End(code))
  /\ Release(c)

Reads(c) == IF kind[c] = "bidi" THEN "handle" ELSE "read"

\* dispatch_*: a full route refuses before it reads
Accept(c) ==
  /\ sv[c].phase = "idle" /\ cl[c].phase # "idle" /\ cl[c].result # "unavailable"
  /\ IF Bounded(c) /\ permits = 0
     THEN Trailer(c, "exhausted") /\ UNCHANGED <<kind, cl, up, broken>>
     ELSE /\ sv' = [sv EXCEPT ![c].phase = Reads(c)]
          /\ permits' = permits - (IF Bounded(c) THEN 1 ELSE 0)
          /\ UNCHANGED <<kind, cl, up, down, broken, workers>>

\* The first body; raw_request_limit_status answers what is too large
ReadBody(c) ==
  /\ sv[c].phase = "read" /\ up[c] # <<>> /\ Head(up[c])[1] = "body"
  /\ IF Bounded(c) /\ Head(up[c])[2] = "big"
     THEN Trailer(c, "invalid") /\ UNCHANGED up
     ELSE /\ sv' = [sv EXCEPT ![c].phase = "end", ![c].body = Head(up[c])[2]]
          /\ up' = [up EXCEPT ![c] = Tail(@)]
          /\ UNCHANGED <<down, permits, workers>>
  /\ UNCHANGED <<kind, cl, broken>>

ReadNoBody(c) ==
  /\ sv[c].phase = "read"
  /\ UpLost(c) \/ (up[c] # <<>> /\ Head(up[c])[1] = "end")
  /\ Abort(c, "internal")

\* finish_unary_request: one body and an Ok end
Whole(c) == up[c] # <<>> /\ Head(up[c]) = End("ok")

ReadEnd(c) ==
  /\ sv[c].phase = "end" /\ Whole(c)
  /\ IF sv[c].body = "bad" /\ kind[c] # "work" THEN Abort(c, "internal")
     ELSE /\ sv' = [sv EXCEPT ![c].phase = IF kind[c] = "work" THEN "queue" ELSE "handle"]
          /\ up' = [up EXCEPT ![c] = Tail(@)]
          /\ UNCHANGED <<kind, cl, down, broken, permits, workers>>

ReadNoEnd(c) ==
  /\ sv[c].phase = "end"
  /\ UpLost(c) \/ (up[c] # <<>> /\ ~Whole(c))
  /\ Abort(c, "internal")

Deadline == {"read", "end"}

\* UNARY_RECEIVE_TIMEOUT
ReadTimeout(c) == sv[c].phase \in Deadline /\ Abort(c, "internal")

\* dispatch_work_response_bounded waits for a worker, then decodes
TakeWorker(c) ==
  /\ sv[c].phase = "queue" /\ workers > 0
  /\ IF sv[c].body = "bad" THEN Abort(c, "internal")
     ELSE /\ sv' = [sv EXCEPT ![c].phase = "handle"]
          /\ workers' = workers - 1
          /\ UNCHANGED <<kind, cl, up, down, broken, permits>>

\* RequestStream: what the handler of a bidirectional call reads
ReadRequest(c) ==
  /\ kind[c] = "bidi" /\ sv[c].phase \in {"handle", "write"} /\ sv[c].body # "end"
  /\ up[c] # <<>> \/ UpLost(c)
  /\ LET frame == IF up[c] = <<>> THEN End("internal") ELSE Head(up[c]) IN
     sv' = [sv EXCEPT ![c].body = IF frame[1] = "end" THEN "end" ELSE @,
                      ![c].span = IF frame \in {Body("bad")} THEN Note(@, "internal")
                                  ELSE IF frame[1] = "end" /\ frame[2] # "ok" THEN Note(@, frame[2])
                                  ELSE @]
  /\ up' = [up EXCEPT ![c] = IF @ = <<>> THEN @ ELSE Tail(@)]
  /\ UNCHANGED <<kind, cl, down, broken, permits, workers>>

\* The handler answers, with any code it likes, when it does
Handle(c) ==
  /\ sv[c].phase = "handle"
  /\ \E outcome \in Outcomes :
       /\ Unary(c) => /\ outcome.code # "open"
                      /\ Len(outcome.items) = (IF outcome.code = "ok" THEN 1 ELSE 0)
       /\ sv' = [sv EXCEPT ![c].phase = "write", ![c].items = outcome.items,
                           ![c].code = outcome.code]
  /\ UNCHANGED <<kind, cl, up, down, broken, permits, workers>>

\* write_unary_response and write_streaming_response
Write(c) ==
  /\ sv[c].phase = "write"
  /\ IF sv[c].next > Len(sv[c].items)
     THEN sv[c].code # "open" /\ Trailer(c, sv[c].code) /\ UNCHANGED <<kind, cl, up, broken>>
     ELSE LET frame == Body(sv[c].items[sv[c].next]) IN
          \/ (c \in broken \/ cl[c].phase = "done") /\ Abort(c, "internal")
          \/ /\ c \notin broken /\ HasRoom(down, c, frame)
             /\ down' = Send(down, c, frame)
             /\ sv' = [sv EXCEPT ![c].next = @ + 1]
             /\ UNCHANGED <<kind, cl, up, broken, permits, workers>>

\* The consumer of a response stream is gone; an authority refuses the write
WriteStopped(c) ==
  /\ sv[c].phase = "write"
  /\ \/ ~Unary(c) /\ (c \in broken \/ cl[c].phase = "done") /\ Abort(c, "cancelled")
     \/ sv[c].next = 1 /\ sv[c].items # <<>> /\ Abort(c, "internal")

Dispatch(c) ==
  \/ Accept(c) \/ ReadBody(c) \/ ReadNoBody(c) \/ ReadEnd(c) \/ ReadNoEnd(c) \/ ReadTimeout(c)
  \/ TakeWorker(c) \/ ReadRequest(c) \/ Write(c) \/ WriteStopped(c)

Next == \E c \in Calls : Client(c) \/ Dispatch(c) \/ Handle(c) \/ DropSink(c) \/ DropCall(c) \/ Break(c)

\* The executor polls every ready task and every timer fires.  No handler has to
\* answer, and nobody has to let go of a call
Fairness == \A c \in Calls : WF_vars(Client(c)) /\ WF_vars(Dispatch(c))

Spec == Init /\ [][Next]_vars /\ Fairness

---------------------------------------------------------------------------
(* Properties *)

\* The permits of a route are those its dispatches hold and those that are free
TypeOK ==
  /\ permits + Cardinality({c \in Calls : HoldsPermit(c)}) = Permits
  /\ workers + Cardinality({c \in Calls : HoldsWorker(c)}) = Workers
  /\ \A c \in Calls : cl[c].phase = "done" <=> cl[c].result # ""

Answer(c) == [items |-> sv[c].items, code |-> sv[c].code]

\* A call succeeds at its client only if its handler was given the whole
\* request and answered Ok, and then with exactly that answer (unary_with_trailer,
\* StreamingCall::finish, finish_unary_request)
SuccessIsReal ==
  \A c \in Calls : cl[c].result = "ok" =>
    /\ sv[c].end = "ok" /\ Answer(c) \in Outcomes /\ cl[c].got = sv[c].items
    /\ kind[c] # "bidi" => sv[c].body \notin {"", "bad"}
    /\ Unary(c) => cl[c].got # <<"bad">>

\* A call a route refuses, and one whose request is not whole, never reaches a
\* handler: a client that is told of a refusal may try again, unless it was the
\* handler that gave it (dispatch_*_bounded, finish_unary_request)
RefusedNeverRan ==
  \A c \in Calls :
    /\ cl[c].result \in {"exhausted", "invalid"} => sv[c].code \in {"", cl[c].result}
    /\ cl[c].phase = "send" => sv[c].code = ""

\* A span is recorded Ok at the server only when the Ok trailer was written, at
\* the client only when the caller was told so (write_trailer, CallSpan)
SpansAreTruthful ==
  \A c \in Calls : /\ sv[c].span = "ok" => sv[c].end = "ok"
                   /\ cl[c].span = "ok" => cl[c].result = "ok"

\* A client that waits for what must come: the connection is gone, or a deadline runs
BoundedWait(c) == cl[c].phase = "recover" \/ (c \in broken /\ cl[c].phase # "idle")

=============================================================================
