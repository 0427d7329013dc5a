-------------------------- MODULE ResponsesProjector --------------------------
(***************************************************************************)
(* The reseller's adaptor for the public Responses API                     *)
(* (reseller/src/responses_projector.rs).  It rebuilds the signed request  *)
(* it sends upstream, and projects the upstream event stream, frame by     *)
(* frame, into the output events that the provider signs.  The upstream is *)
(* not trusted: every event is checked against what was streamed before,   *)
(* and the terminal is withheld until the stream ends.                     *)
(*                                                                         *)
(* Text and call arguments are sequences of letters.  An upstream event    *)
(* is a record of the fields the projector reads: `seq' says whether its   *)
(* sequence_number is the expected one and `form' whether its fields have  *)
(* the required shape.  Frames come from SseDecoder; here a push is a      *)
(* number of frames and whether bytes of another one are left.             *)
(***************************************************************************)
EXTENDS Integers, Sequences, FiniteSets, SequencesExt

CONSTANTS
    Requests,   \* signed requests to adapt
    Events,     \* what an arbitrary upstream may send
    Plans,      \* what an honest upstream may answer
    MaxItems,   \* bound: output items of a response
    MaxText     \* bound: letters of an item

VARIABLES
    req,        \* the adaptation of the request
    p,          \* the projector
    push,       \* the push under way: open, and what it has projected
    out,        \* the output events handed to the executor
    up,         \* an honest upstream: its plan and how far each item is
    claim       \* the terminal's own account of the output

vars == <<req, p, push, out, up, claim>>

-----------------------------------------------------------------------------
(* The request: prepare_streaming_request. *)

\* A number that the request or the usage leaves out.
Absent == -1

\* A past item of the input: a message, a call, or the output of a call.
InputItemOk(item) ==
    CASE item.kind = "message" ->
            /\ item.role \in {"developer", "system", "user", "assistant"}
            /\ item.parts # "none"
            /\ item.role = "assistant" \/ item.parts # "output"
      [] item.kind = "call" -> item.call # "" /\ item.name # ""
      [] OTHER -> item.call # ""

validate_request_input(input) == \A i \in DOMAIN input : InputItemOk(input[i])

ToolOk(tool) == tool.name # "" /\ tool.parameters \in {"object", "null"} /\ tool.strict

ToolNames(r) == {r.tools[i].name : i \in DOMAIN r.tools}

ToolsOk(r) ==
    /\ \A i \in DOMAIN r.tools : ToolOk(r.tools[i])
    /\ Cardinality(ToolNames(r)) = Len(r.tools)
    /\ r.choice \in {"absent", "auto", "none", "required"} \cup ToolNames(r)

\* validate_number_range
InRange(value, low, high) == value = Absent \/ value \in low..high

OptionsOk(r) ==
    /\ r.max # 0
    /\ InRange(r.temperature, 0, 2)
    /\ InRange(r.top_p, 0, 1)
    /\ r.logprobs \in {0, Absent}
    /\ r.schema
    /\ r.obfuscate # "true"

RequestOk(r) ==
    /\ r.model # ""
    /\ r.stream # "false"
    /\ r.store # "true"
    /\ validate_request_input(r.input)
    /\ ToolsOk(r)
    /\ OptionsOk(r)

Forced(r) == [r EXCEPT !.stream = "true", !.store = "false", !.obfuscate = "false"]

\* The signed body and the rebuilt one are both bounded.
Prepared(r) ==
    IF r.large = "signed" \/ ~RequestOk(r) \/ r.large = "rebuilt"
    THEN [ok |-> FALSE, body |-> r, units |-> Absent]
    ELSE [ok |-> TRUE, body |-> Forced(r), units |-> r.max]

-----------------------------------------------------------------------------
(* Upstream items and output events. *)

Snapshot(kind, id, status, call, name, text) ==
    [kind |-> kind, id |-> id, status |-> status, call |-> call, name |-> name, text |-> text]

NoSnapshot == Snapshot("", "", "", "", "", <<>>)

Usage(input, output, total) == [input |-> input, output |-> output, total |-> total]
NoUsage == Usage(Absent, Absent, Absent)

\* parse_usage: three counts that are all given must add up.
parse_usage(u) ==
    (u.input # Absent /\ u.output # Absent /\ u.total # Absent) => u.input + u.output = u.total

Response(id, model, status, output) ==
    [id |-> id, model |-> model, status |-> status, output |-> output,
     reason |-> "", usage |-> NoUsage, error |-> FALSE]

NoResponse == Response("", "", "", <<>>)

Frame(type) ==
    [type |-> type, seq |-> TRUE, form |-> TRUE, index |-> 0, id |-> "", kind |-> "",
     text |-> <<>>, name |-> "", item |-> NoSnapshot, response |-> NoResponse]

Delta(index, channel, text) ==
    [kind |-> "Delta", index |-> index, channel |-> channel, text |-> text, call |-> "", name |-> "", usage |-> NoUsage]

CallStart(tool, call, name) ==
    [kind |-> "CallStart", index |-> tool, channel |-> "", text |-> <<>>, call |-> call, name |-> name, usage |-> NoUsage]

CallArguments(tool, text) ==
    [kind |-> "CallArguments", index |-> tool, channel |-> "", text |-> text, call |-> "", name |-> "", usage |-> NoUsage]

CallEnd(tool, text) ==
    [kind |-> "CallEnd", index |-> tool, channel |-> "", text |-> text, call |-> "", name |-> "", usage |-> NoUsage]

Finished(reason, usage) ==
    [kind |-> "Finished", index |-> 0, channel |-> reason, text |-> <<>>, call |-> "", name |-> "", usage |-> usage]

-----------------------------------------------------------------------------
(* The projector's state and its failures. *)

NewProjector ==
    [id |-> "", model |-> "", created |-> FALSE, in_progress |-> FALSE, items |-> <<>>,
     tools |-> 0, terminal |-> "", usage |-> NoUsage, finished |-> FALSE, failed |-> FALSE]

\* What a step of the projector gives: its state and the events it emits.
Ok(s, events) == [s |-> s, events |-> events]
Fail(s) == Ok([s EXCEPT !.failed = TRUE], <<>>)
Require(ok, s, result) == IF ok THEN result ELSE Fail(s)

NewItem(snap, tool) ==
    [kind |-> snap.kind, id |-> snap.id, call |-> snap.call, name |-> snap.name, text |-> <<>>,
     saw_delta |-> FALSE, phase |-> IF snap.kind = "function" THEN "Open" ELSE "AwaitingPart",
     status |-> "", tool |-> tool]

\* item_mut: the item that an event names, still open.
Named(s, e) ==
    /\ e.index \in DOMAIN s.items
    /\ s.items[e.index].id = e.id
    /\ s.items[e.index].status = ""

Typed(s, e) == Named(s, e) /\ s.items[e.index].kind = e.kind

-----------------------------------------------------------------------------
(* The handlers of decode_frame. *)

SameResponse(s, r) == s.id = r.id /\ s.model = r.model
Identity(r, status) == r.id # "" /\ r.model # "" /\ r.status = status

lifecycle(s, e) ==
    Require(Identity(e.response, "in_progress") /\ e.response.output = <<>>, s,
        IF e.type = "in_progress"
        THEN Require(s.created /\ ~s.in_progress /\ SameResponse(s, e.response), s,
                     Ok([s EXCEPT !.in_progress = TRUE], <<>>))
        ELSE Require(~s.created, s,
                     Ok([s EXCEPT !.created = TRUE, !.id = e.response.id,
                                  !.model = e.response.model], <<>>)))

AddedOk(s, e) ==
    /\ s.created
    /\ e.index = Len(s.items) + 1
    /\ e.item.id # ""
    /\ e.item.status = "in_progress"
    /\ \A i \in DOMAIN s.items : s.items[i].id # e.item.id
    /\ e.item.text = <<>>
    /\ e.item.kind = "function" => e.item.call # "" /\ e.item.name # ""

item_added(s, e) ==
    Require(AddedOk(s, e), s,
        IF e.item.kind = "function"
        THEN Ok([s EXCEPT !.items = Append(@, NewItem(e.item, s.tools)), !.tools = @ + 1],
                <<CallStart(s.tools, e.item.call, e.item.name)>>)
        ELSE Ok([s EXCEPT !.items = Append(@, NewItem(e.item, 0))], <<>>))

text_part(s, e) ==
    Require(Typed(s, e), s,
        IF e.type = "part_done"
        THEN Require(s.items[e.index].phase = "TextDone" /\ s.items[e.index].text = e.text, s,
                     Ok([s EXCEPT !.items[e.index].phase = "PartDone"], <<>>))
        ELSE Require(s.items[e.index].phase = "AwaitingPart" /\ e.text = <<>>, s,
                     Ok([s EXCEPT !.items[e.index].phase = "Open"], <<>>)))

Grown(s, e) ==
    [s EXCEPT !.items[e.index].text = @ \o e.text, !.items[e.index].saw_delta = TRUE]

text_delta(s, e) ==
    Require(Typed(s, e) /\ s.items[e.index].phase = "Open", s,
        Ok(Grown(s, e), <<Delta(e.index, e.kind, e.text)>>))

\* The done form of a text: it must repeat the deltas, or is the only one.
Closed(s, e, phase) ==
    [s EXCEPT !.items[e.index].phase = phase,
              !.items[e.index].text = IF s.items[e.index].saw_delta THEN @ ELSE @ \o e.text]

Late(s, e, event) ==
    IF s.items[e.index].saw_delta \/ e.text = <<>> THEN <<>> ELSE <<event>>

\* Mutant: the done form must have been streamed.
AgreesAlways(s, e) == s.items[e.index].text = e.text

Agrees(s, e) == s.items[e.index].saw_delta => s.items[e.index].text = e.text

text_done(s, e) ==
    Require(Typed(s, e) /\ s.items[e.index].phase = "Open" /\ Agrees(s, e), s,
        Ok(Closed(s, e, "TextDone"), Late(s, e, Delta(e.index, e.kind, e.text))))

CallOpen(s, e) ==
    /\ Named(s, e)
    /\ s.items[e.index].kind = "function"
    /\ s.items[e.index].phase = "Open"

arguments_delta(s, e) ==
    Require(CallOpen(s, e), s,
        Ok(Grown(s, e), <<CallArguments(s.items[e.index].tool, e.text)>>))

arguments_done(s, e) ==
    Require(CallOpen(s, e) /\ e.name \in {"", s.items[e.index].name} /\ Agrees(s, e), s,
        Ok(Closed(s, e, "ArgumentsDone"),
           Late(s, e, CallArguments(s.items[e.index].tool, e.text))))

Streamed(item, snap) ==
    /\ item.kind = snap.kind
    /\ item.phase = IF item.kind = "function" THEN "ArgumentsDone" ELSE "PartDone"
    /\ item.text = snap.text
    /\ item.kind = "function" => item.call = snap.call /\ item.name = snap.name

\* Mutant: an item may be done a second time.
DoneOkAgain(s, e) ==
    /\ e.index \in DOMAIN s.items
    /\ e.item.status \in {"completed", "incomplete"}
    /\ s.items[e.index].id = e.item.id
    /\ Streamed(s.items[e.index], e.item)

DoneOk(s, e) ==
    /\ e.index \in DOMAIN s.items
    /\ e.item.status \in {"completed", "incomplete"}
    /\ s.items[e.index].id = e.item.id
    /\ s.items[e.index].status = ""
    /\ Streamed(s.items[e.index], e.item)

item_done(s, e) ==
    Require(DoneOk(s, e), s,
        Ok([s EXCEPT !.items[e.index].status = e.item.status],
           IF e.item.kind = "function"
           THEN <<CallEnd(s.items[e.index].tool, s.items[e.index].text)>> ELSE <<>>))

compare_terminal(item, snap) ==
    item.id = snap.id /\ item.status = snap.status /\ snap.status # "" /\ Streamed(item, snap)

Compared(s, r) ==
    /\ Len(r.output) = Len(s.items)
    /\ \A i \in DOMAIN r.output : compare_terminal(s.items[i], r.output[i])

StopReason(s, e) ==
    IF e.type = "incomplete" THEN e.response.reason
    ELSE IF \E i \in DOMAIN s.items : s.items[i].kind = "function" THEN "ToolCall" ELSE "EndOfText"

terminal(s, e) ==
    Require(/\ s.created
            /\ Identity(e.response, e.type)
            /\ SameResponse(s, e.response)
            /\ ~e.response.error
            /\ Compared(s, e.response)
            /\ parse_usage(e.response.usage)
            /\ e.type = "incomplete" => e.response.reason \in {"MaxOutputTokens", "Cancelled"},
            s, Ok([s EXCEPT !.terminal = StopReason(s, e), !.usage = e.response.usage], <<>>))

\* decode_frame after the frame, sequence and field checks.
Handled(s, e) ==
    CASE e.type \in {"created", "in_progress"} -> lifecycle(s, e)
      [] e.type = "item_added" -> item_added(s, e)
      [] e.type \in {"part_added", "part_done"} -> text_part(s, e)
      [] e.type = "text_delta" -> text_delta(s, e)
      [] e.type = "text_done" -> text_done(s, e)
      [] e.type = "arguments_delta" -> arguments_delta(s, e)
      [] e.type = "arguments_done" -> arguments_done(s, e)
      [] e.type = "item_done" -> item_done(s, e)
      [] e.type \in {"completed", "incomplete"} -> terminal(s, e)
      [] OTHER -> Fail(s)

decode_frame(s, e) ==
    IF s.terminal # "" \/ ~e.seq \/ ~e.form THEN Fail(s) ELSE Handled(s, e)

-----------------------------------------------------------------------------
(* The adaptor session. *)

NoPush == [open |-> FALSE, events |-> <<>>, pending |-> FALSE]

Init ==
    /\ req = [ok |-> FALSE, body |-> <<>>, units |-> Absent, state |-> "new"]
    /\ p = NewProjector
    /\ push = NoPush
    /\ out = <<>>
    /\ \E plan \in Plans : up = [plan |-> plan, at |-> [i \in DOMAIN plan |-> 0], sent |-> 0, honest |-> plan # <<>>]
    /\ claim = <<>>

\* create: the signed request is adapted.
Create(r) ==
    /\ req.state = "new"
    /\ req' = [ok |-> Prepared(r).ok, body |-> Prepared(r).body, units |-> Prepared(r).units,
               state |-> IF Prepared(r).ok THEN "sent" ELSE "refused"]
    /\ UNCHANGED <<p, push, out, up, claim>>

\* begin: the public API has no response head.
Begin(empty) ==
    /\ req.state = "sent"
    /\ up.honest => empty
    /\ req' = [req EXCEPT !.state = "begun"]
    /\ p' = [p EXCEPT !.failed = ~empty]
    /\ UNCHANGED <<push, out, up, claim>>

Open == req.state = "begun" /\ ~p.failed /\ ~p.finished

\* project is called with the next bytes: none may follow the terminal.
PushStarts ==
    /\ Open
    /\ ~push.open
    /\ up.honest => p.terminal = ""
    /\ IF p.terminal # ""
       THEN p' = [p EXCEPT !.failed = TRUE] /\ UNCHANGED push
       ELSE push' = [push EXCEPT !.open = TRUE, !.events = <<>>] /\ UNCHANGED p
    /\ UNCHANGED <<req, out, up, claim>>

\* A frame that the push completes; a failure drops what the push projected.
Decode(e) ==
    \E r \in {decode_frame(p, e)} :
        /\ p' = r.s
        /\ push' = [push EXCEPT !.events = IF r.s.failed THEN <<>> ELSE @ \o r.events,
                                !.open = ~r.s.failed]
        /\ claim' = IF r.s.terminal # "" /\ ~r.s.failed THEN e.response.output ELSE claim

ArbitraryFrame(e) ==
    /\ ~up.honest
    /\ Open
    /\ push.open
    /\ e.type \in {"text_delta", "arguments_delta"} /\ e.index \in DOMAIN p.items =>
          Len(p.items[e.index].text) < MaxText
    /\ Decode(e)
    /\ UNCHANGED <<req, out, up>>

\* The push returns: bytes of another frame may be left, but not after the
\* terminal.
PushEnds(pending) ==
    /\ Open
    /\ push.open
    /\ up.honest /\ p.terminal # "" => ~pending
    /\ IF p.terminal # "" /\ pending
       THEN p' = [p EXCEPT !.failed = TRUE] /\ UNCHANGED out
       ELSE out' = out \o push.events /\ UNCHANGED p
    /\ push' = [push EXCEPT !.open = FALSE, !.events = <<>>, !.pending = pending]
    /\ UNCHANGED <<req, up, claim>>

\* The upstream closes: finish.
Finish ==
    /\ Open
    /\ ~push.open
    /\ up.honest => p.terminal # ""
    /\ IF push.pending \/ p.terminal = ""
       THEN p' = [p EXCEPT !.failed = TRUE] /\ UNCHANGED out
       ELSE /\ p' = [p EXCEPT !.finished = TRUE, !.terminal = ""]
            /\ out' = Append(out, Finished(p.terminal, p.usage))
    /\ UNCHANGED <<req, push, up, claim>>

-----------------------------------------------------------------------------
(* An honest upstream: a plan of items, each streamed through its stages,   *)
(* stages of different items in any order.                                  *)

Stages(item) ==
    IF item.kind = "function"
    THEN <<"item_added">> \o [i \in DOMAIN item.cuts |-> "arguments_delta"]
         \o <<"arguments_done", "item_done">>
    ELSE <<"item_added", "part_added">> \o [i \in DOMAIN item.cuts |-> "text_delta"]
         \o <<"text_done", "part_done", "item_done">>

Whole(item) == IF item.cuts = <<>> THEN item.text ELSE FlattenSeq(item.cuts)

SnapshotOf(item, status, text) ==
    Snapshot(item.kind, item.id, status, item.call, item.name, text)

TextOf(item, at) ==
    LET stage == Stages(item)[at]
    IN  CASE stage \in {"text_delta", "arguments_delta"} ->
               item.cuts[at - IF item.kind = "function" THEN 1 ELSE 2]
          [] stage \in {"text_done", "part_done", "arguments_done"} -> Whole(item)
          [] OTHER -> <<>>

HonestFrame(i) ==
    LET item == up.plan[i]
        stage == Stages(item)[up.at[i] + 1]
    IN  [Frame(stage) EXCEPT !.index = i, !.id = item.id, !.kind = item.kind,
            !.text = TextOf(item, up.at[i] + 1),
            !.item = IF stage = "item_added" THEN SnapshotOf(item, "in_progress", <<>>)
                     ELSE IF stage = "item_done" THEN SnapshotOf(item, "completed", Whole(item))
                     ELSE NoSnapshot]

Upstream(frame) ==
    /\ up.honest
    /\ Open
    /\ push.open
    /\ Decode(frame)
    /\ UNCHANGED <<req, out>>

HonestStarts ==
    \E type \in {"created", "in_progress"} :
        /\ up.sent = IF type = "created" THEN 0 ELSE 1
        /\ Upstream([Frame(type) EXCEPT !.response = Response("r", "m", "in_progress", <<>>)])
        /\ up' = [up EXCEPT !.sent = @ + 1]

HonestItem(i) ==
    /\ up.honest
    /\ up.sent = 2
    /\ up.at[i] < Len(Stages(up.plan[i]))
    /\ up.at[i] = 0 /\ i > 1 => up.at[i - 1] > 0
    /\ Upstream(HonestFrame(i))
    /\ up' = [up EXCEPT !.at[i] = @ + 1]

HonestEnds ==
    /\ up.honest
    /\ up.sent = 2
    /\ \A i \in DOMAIN up.plan : up.at[i] = Len(Stages(up.plan[i]))
    /\ Upstream([Frame("completed") EXCEPT !.response =
                    Response("r", "m", "completed",
                        [i \in DOMAIN up.plan |-> SnapshotOf(up.plan[i], "completed", Whole(up.plan[i]))])])
    /\ up' = [up EXCEPT !.sent = 3]

HonestSends ==
    \/ HonestStarts
    \/ \E i \in 1..MaxItems : i \in DOMAIN up.plan /\ HonestItem(i)
    \/ HonestEnds

-----------------------------------------------------------------------------
Ended ==
    /\ req.state = "refused" \/ p.failed \/ p.finished
    /\ UNCHANGED vars

Next ==
    \/ \E r \in Requests : Create(r)
    \/ \E empty \in BOOLEAN : Begin(empty)
    \/ PushStarts
    \/ \E e \in Events : ArbitraryFrame(e)
    \/ \E pending \in BOOLEAN : PushEnds(pending)
    \/ Finish
    \/ HonestSends
    \/ Ended

Spec == Init /\ [][Next]_vars

-----------------------------------------------------------------------------
(* Properties. *)

\* The projector's items keep their identities: ids and call ordinals are
\* never shared, and an item is done only after its text or arguments are.
TypeOK ==
    /\ \A i, j \in DOMAIN p.items : i # j => p.items[i].id # p.items[j].id
    /\ p.tools = Cardinality({i \in DOMAIN p.items : p.items[i].kind = "function"})
    /\ \A i \in DOMAIN p.items :
          p.items[i].status # "" => p.items[i].phase \in {"PartDone", "ArgumentsDone"}
    /\ p.finished => p.terminal = "" /\ ~push.pending /\ ~push.open

Of(kind, index) == SelectSeq(out, LAMBDA e : e.kind = kind /\ e.index = index)
TextAt(kind, index) == FlattenSeq([n \in DOMAIN Of(kind, index) |-> Of(kind, index)[n].text])

Ordinal(i) == Cardinality({j \in 1..(i - 1) : claim[j].kind = "function"})

FunctionShown(i) ==
    /\ Of("CallStart", Ordinal(i)) = <<CallStart(Ordinal(i), claim[i].call, claim[i].name)>>
    /\ TextAt("CallArguments", Ordinal(i)) = claim[i].text
    /\ Of("CallEnd", Ordinal(i)) = <<CallEnd(Ordinal(i), claim[i].text)>>

TextShown(i) ==
    /\ TextAt("Delta", i) = claim[i].text
    /\ \A n \in DOMAIN Of("Delta", i) : Of("Delta", i)[n].channel = claim[i].kind

\* A finished projection says exactly what the upstream's terminal says: the
\* deltas of every item concatenate to its final text, every call is started
\* once, its arguments streamed and ended once, and nothing else was emitted.
\* So what the provider signs event by event is what it was finally told.
FinishedIsWhole ==
    p.finished =>
        /\ \A i \in DOMAIN claim :
              IF claim[i].kind = "function" THEN FunctionShown(i) ELSE TextShown(i)
        /\ \A n \in DOMAIN out :
              \/ out[n].kind = "Finished" /\ n = Len(out)
              \/ out[n].kind = "Delta" /\ out[n].index \in DOMAIN claim
                    /\ claim[out[n].index].kind # "function"
              \/ out[n].kind \in {"CallStart", "CallArguments", "CallEnd"}
                    /\ out[n].index < Cardinality({j \in DOMAIN claim : claim[j].kind = "function"})

\* The events of a call come in order, a start, arguments and one end, in
\* every prefix handed to the executor and not only in a finished one.
CallsAreOrdered ==
    \A n \in DOMAIN out :
        /\ out[n].kind \in {"CallArguments", "CallEnd"} =>
              \E m \in 1..(n - 1) : out[m].kind = "CallStart" /\ out[m].index = out[n].index
        /\ out[n].kind \in {"CallStart", "CallArguments", "CallEnd"} =>
              \A m \in 1..(n - 1) : ~(out[m].kind = "CallEnd" /\ out[m].index = out[n].index)

\* What goes upstream is sealed: streamed, not stored, and accepted again
\* unchanged by the same checks, so the rebuilt body says what was signed.
RequestIsSealed ==
    req.state \in {"sent", "begun"} =>
        /\ req.body.stream = "true" /\ req.body.store = "false" /\ req.body.obfuscate = "false"
        /\ Prepared(req.body).ok /\ Prepared(req.body).body = req.body
        /\ req.units = req.body.max

\* No honest stream is refused, however its items interleave and however the
\* network cuts it.
HonestIsAccepted == up.honest => ~p.failed

=============================================================================
