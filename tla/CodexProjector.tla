--------------------------- MODULE CodexProjector ---------------------------
(***************************************************************************)
(* The sealed Codex adaptor (crates/providers/src/codex_responses.rs): a   *)
(* request is admitted and reduced to what the provider may answer, and    *)
(* the provider's event stream is projected onto output events.  Any event *)
(* may arrive at any time; the first contradiction fails the stream.       *)
(* Texts are sequences of letters, "" is an absent name and -1 an absent   *)
(* index.                                                                  *)
(***************************************************************************)
EXTENDS Integers, Sequences, FiniteSets, SequencesExt

CONSTANTS
  Requests,          \* the requests put to create_session
  Events,            \* the events a provider may send
  Json,              \* the texts that parse as JSON
  Heads,             \* the models a response head may name
  MaxEvents

VARIABLES
  req, contract,
  p,                 \* the projector
  shown,             \* history: the deltas accepted so far, by target
  added, done,       \* history: items announced and items completed
  events

vars == <<req, contract, p, shown, added, done, events>>

---------------------------------------------------------------------------
(* Requests *)

Tool(kind, name, deferred) == [kind |-> kind, name |-> name, deferred |-> deferred]

\* An item of the history: a message, a call, or the output of one
Past(kind, call, name, tools) == [kind |-> kind, call |-> call, name |-> name, tools |-> tools]

Request(tools, choice, parallel, reasoning, input) ==
  [tools |-> tools, choice |-> choice, parallel |-> parallel, reasoning |-> reasoning,
   input |-> input]

CallKinds == {"function", "custom", "search"}

Refused == [ok |-> FALSE]

\* Tool declarations: one per name, at most one client tool search, no search
\* the provider would run ("web"; a disabled one is dropped)
DeclaredOnce(tools) ==
  /\ \A i, j \in DOMAIN tools :
       i # j /\ tools[i].kind # "search" /\ tools[j].kind # "search" => tools[i].name # tools[j].name
  /\ Cardinality({i \in DOMAIN tools : tools[i].kind = "search"}) <= 1
  /\ \A i \in DOMAIN tools : tools[i].kind # "web"

Named(tools, kind, deferred) ==
  {tools[i].name : i \in {j \in DOMAIN tools : tools[j].kind = kind /\ tools[j].deferred = deferred}}

\* ProjectionContract before the history
Declared(r) ==
  [ok |-> TRUE,
   callable |-> [kind \in {"function", "custom"} |-> Named(r.tools, kind, FALSE)],
   deferred |-> [kind \in {"function", "custom"} |-> Named(r.tools, kind, TRUE)],
   search |-> \E i \in DOMAIN r.tools : r.tools[i].kind = "search",
   choice |-> r.choice, parallel |-> r.parallel, reasoning |-> r.reasoning,
   calls |-> {}, outputs |-> {}]

Prior(c) == {past.call : past \in c.calls}

\* insert_history_call
HistoryCall(c, past) ==
  IF past.call = "" \/ past.call \in Prior(c) THEN Refused ELSE [c EXCEPT !.calls = @ \cup {past}]

\* A tool search makes deferred tools callable, each once
Discover(c, tool) ==
  IF ~c.ok \/ tool.name \notin c.deferred[tool.kind] THEN Refused
  ELSE [c EXCEPT !.deferred[tool.kind] = @ \ {tool.name},
                 !.callable[tool.kind] = @ \cup {tool.name}]

\* validate_history_output: of a call before it, of its kind, once
HistoryOutput(c, past, kind) ==
  IF /\ \E call \in c.calls : /\ call.call = past.call /\ call.kind = kind
                              /\ past.name = "" \/ past.name = call.name
     /\ past.call \notin c.outputs
  THEN FoldLeft(Discover, [c EXCEPT !.outputs = @ \cup {past.call}], past.tools)
  ELSE Refused

\* validate_input_history
HistoryItem(c, past) ==
  IF ~c.ok \/ past.kind = "message" THEN c
  ELSE IF past.kind \in CallKinds THEN HistoryCall(c, past)
  ELSE HistoryOutput(c, past, CASE past.kind = "function_output" -> "function"
                                [] past.kind = "custom_output" -> "custom"
                                [] past.kind = "search_output" -> "search")

SomeTool(c) == c.callable["function"] # {} \/ c.callable["custom"] # {} \/ c.search

RequiredHasTool(c) == IF c.ok /\ c.choice = "required" /\ ~SomeTool(c) THEN Refused ELSE c

\* validate_and_rebuild
Contract(r) ==
  IF ~DeclaredOnce(r.tools) THEN Refused
  ELSE RequiredHasTool(FoldLeft(HistoryItem, Declared(r), r.input))

---------------------------------------------------------------------------
(* Events *)

\* An output item: its parts are a message's contents, a reasoning's summary
\* (its content is kept and checked the same way), or the one text of a call
Item(kind, id, call, name, parts) ==
  [kind |-> kind, id |-> id, call |-> call, name |-> name, status |-> "", parts |-> parts]

NoItem == Item("", "", "", "", <<>>)

Blank == [type |-> "", sequence |-> -1, item |-> NoItem, index |-> -1, part |-> 0,
          id |-> "", call |-> "", name |-> "", text |-> <<>>, response |-> "", model |-> ""]

Lifecycle(type, response, model) ==
  [Blank EXCEPT !.type = type, !.response = response, !.model = model]

ItemEvent(type, item, index) == [Blank EXCEPT !.type = type, !.item = item, !.index = index]

TextEvent(type, id, index, part, text) ==
  [Blank EXCEPT !.type = type, !.id = id, !.index = index, !.part = part, !.text = text]

CallEvent(type, id, call, text) ==
  [Blank EXCEPT !.type = type, !.id = id, !.call = call, !.text = text]

---------------------------------------------------------------------------
(* The projector *)

Fresh(c) ==
  [phase |-> "open", mode |-> "", next |-> 0, created |-> FALSE, response |-> "", model |-> "",
   pending |-> <<>>, done_ids |-> {}, seen_calls |-> Prior(c), calls |-> 0,
   deltas |-> [t \in {} |-> <<>>], stop |-> ""]

Fail == [Fresh([calls |-> {}]) EXCEPT !.phase = "failed"]

\* validate_sequence: numbered throughout or not at all, and in order
Sequenced(s, e) ==
  IF s.mode \notin {"", IF e.sequence = -1 THEN "off" ELSE "on"} THEN Fail
  ELSE IF e.sequence \notin {-1, s.next} THEN Fail
  ELSE [s EXCEPT !.mode = IF e.sequence = -1 THEN "off" ELSE "on",
                 !.next = IF e.sequence = -1 THEN @ ELSE @ + 1]

\* observe_server_model
Observed(s, model) ==
  IF s.phase = "failed" \/ (model # "" /\ s.model \notin {"", model}) THEN Fail
  ELSE [s EXCEPT !.model = IF model = "" THEN @ ELSE model]

\* validate_lifecycle_identity
SameResponse(s, e) == s.response = "" \/ e.response \in {"", s.response}

Created(s, e) ==
  IF s.created THEN Fail
  ELSE Observed([s EXCEPT !.created = TRUE, !.response = e.response], e.model)

InProgress(s, e) ==
  IF ~SameResponse(s, e) THEN Fail
  ELSE Observed([s EXCEPT !.response = IF @ = "" THEN e.response ELSE @], e.model)

IsCall(item) == item.kind \in CallKinds

\* permits_call_kind
Permits(kind) ==
  /\ contract.choice # "none"
  /\ IF kind = "search" THEN contract.search ELSE contract.callable[kind] # {}

\* validate_declared_call
DeclaredCall(item) ==
  /\ Permits(item.kind)
  /\ item.kind # "search" => item.name \in contract.callable[item.kind]

\* into_protocol
WellFormed(item) ==
  /\ IsCall(item) => item.call # ""
  /\ item.kind = "function" => item.name # "" /\ item.parts[1] \in Json
  /\ item.kind = "custom" => item.name # ""

HasCall(s, call) == \E i \in DOMAIN s.pending : s.pending[i].item.call = call

\* authorize_item
Authorized(item) ==
  /\ WellFormed(item)
  /\ item.kind = "reasoning" => contract.reasoning
  /\ IsCall(item) => DeclaredCall(item)

\* authorize_call_id when the call is done
CallDone(s, item) ==
  IF ~IsCall(item) THEN s
  ELSE IF item.call \in s.seen_calls \/ (~contract.parallel /\ s.calls > 0) THEN Fail
  ELSE [s EXCEPT !.seen_calls = @ \cup {item.call}, !.calls = @ + 1]

\* PendingItem::matches and shares_identity
Matches(pending, item) ==
  /\ pending.item.kind = item.kind
  /\ item.id \in {"", pending.item.id}
  /\ item.call \in {"", pending.item.call}

\* validate_paired_item
Paired(pending, item) ==
  /\ IsCall(item) => item.name = pending.item.name
  /\ item.kind = "search" => item.parts = pending.item.parts

\* The targets of one item's deltas
Targets(s, pending) ==
  {t \in DOMAIN s.deltas :
     /\ t.id = pending.item.id /\ t.kind = pending.item.kind
     /\ IsCall(pending.item) \/ t.index = pending.index}

\* Mutant: deltas are dropped without a look at the finished item
AgreesAlways(s, targets, item) == TRUE

\* cross_check_done: what was streamed is what the finished item says
Agrees(s, targets, item) ==
  \A t \in targets : t.part + 1 \in DOMAIN item.parts /\ item.parts[t.part + 1] = s.deltas[t]

Forget(s, targets) ==
  [s EXCEPT !.deltas = [t \in DOMAIN s.deltas \ targets |-> s.deltas[t]]]

Settled(s, item) ==
  IF \E i \in DOMAIN s.pending :
       s.pending[i].item.kind = item.kind /\ (item.id # "" \/ item.call # "")
  THEN Fail ELSE [s EXCEPT !.done_ids = @ \cup ({item.id} \ {""})]

\* The pending item it ends
Ends(s, item, index, i) ==
  LET pending == s.pending[i] IN
  IF \/ index # -1 /\ index # pending.index
     \/ ~Paired(pending, item) \/ ~Agrees(s, Targets(s, pending), item)
  THEN Fail
  ELSE [Forget(s, Targets(s, pending)) EXCEPT !.pending = RemoveAt(@, i),
                                              !.done_ids = @ \cup ({item.id} \ {""})]

\* output_item with done
ItemDone(s, item, index, matching) ==
  IF s.phase = "failed" \/ ~Authorized(item) \/ item.status \notin {"", "completed"} THEN Fail
  ELSE IF (item.id # "" /\ item.id \in s.done_ids) \/ Cardinality(matching) > 1 THEN Fail
  ELSE IF matching = {} THEN Settled(s, item)
  ELSE Ends(s, item, index, CHOOSE i \in matching : TRUE)

\* output_item without done
ItemAdded(s, item, index) ==
  IF \/ ~Authorized(item) \/ item.status \notin {"", "in_progress"}
     \/ IsCall(item) /\ (item.call \in s.seen_calls \/ HasCall(s, item.call))
     \/ item.id = "" /\ item.call = ""
     \/ \E i \in DOMAIN s.pending : item.id # "" /\ s.pending[i].item.id = item.id
  THEN Fail ELSE [s EXCEPT !.pending = Append(@, [item |-> item, index |-> index])]

\* pending_message, pending_reasoning, pending_call and pending_call_by_item
Pending(s, kind, e) ==
  \E i \in DOMAIN s.pending :
    LET pending == s.pending[i] IN
    /\ pending.item.kind = kind /\ e.id # "" /\ pending.item.id = e.id
    /\ kind = "message" => pending.index = e.index /\ e.index # -1
    /\ kind = "reasoning" => e.index \in {-1, pending.index}
    /\ kind = "custom" /\ e.call # "" => pending.item.call = e.call
    /\ kind = "function" => e.name \in {"", pending.item.name}

Target(kind, e) ==
  [kind |-> kind, id |-> e.id, part |-> e.part,
   index |-> IF kind \in {"message", "reasoning"} THEN e.index ELSE -1]

Text(s, t) == IF t \in DOMAIN s.deltas THEN s.deltas[t] ELSE <<>>

\* output_text_delta, custom_input_delta, function_arguments_delta, reasoning_*_delta
Delta(s, kind, e) ==
  IF \/ kind \in CallKinds /\ ~Permits(kind)
     \/ kind = "custom" /\ e.call = ""
     \/ kind = "reasoning" /\ (~contract.reasoning \/ e.index = -1)
     \/ ~Pending(s, kind, e)
  THEN Fail
  ELSE [s EXCEPT !.deltas = [t \in DOMAIN @ \cup {Target(kind, e)} |->
                               IF t = Target(kind, e) THEN Text(s, t) \o e.text ELSE @[t]]]

\* output_text_done and content_part: the deltas must be there and agree;
\* the others are compared when there were any
DeltaDone(s, kind, e) ==
  IF \/ kind \in CallKinds /\ ~Permits(kind)
     \/ kind = "reasoning" /\ ~contract.reasoning
     \/ ~Pending(s, kind, e)
     \/ kind = "function" /\ e.text \notin Json
     \/ kind = "message" /\ Target(kind, e) \notin DOMAIN s.deltas
     \/ kind = "reasoning" /\ e.index = -1
          /\ \E t \in DOMAIN s.deltas : t.kind = kind /\ t.id = e.id /\ t.part = e.part
     \/ Target(kind, e) \in DOMAIN s.deltas /\ s.deltas[Target(kind, e)] # e.text
  THEN Fail ELSE s

\* content_part, reasoning_part_added, redundant_reasoning_part and an ended
\* input without a value say nothing new, but must fit
PartOf(s, kind, e) ==
  IF \/ kind = "reasoning" /\ ~contract.reasoning
     \/ kind = "custom" /\ ~Permits(kind)
     \/ (kind # "reasoning" \/ (e.id # "" /\ e.index # -1)) /\ ~Pending(s, kind, e)
  THEN Fail ELSE s

Unfinished(s) == s.pending # <<>> \/ DOMAIN s.deltas # {}

\* completed
Completed(s, e) ==
  IF \/ Unfinished(s) \/ (contract.choice = "required" /\ s.calls = 0)
     \/ e.response = "" \/ ~SameResponse(s, e)
  THEN Fail
  ELSE Observed([s EXCEPT !.phase = "terminal",
                          !.stop = IF s.calls = 0 THEN "EndOfText" ELSE "ToolCall"], e.model)

Matching(s, item) == {i \in DOMAIN s.pending : Matches(s.pending[i], item)}

\* decode_frame: failed, incomplete, error and unknown events fail the stream
Decoded(s, e) ==
  IF s.phase # "open" THEN Fail
  ELSE IF e.type = "created" THEN Created(s, e)
  ELSE IF ~s.created THEN Fail
  ELSE CASE e.type = "in_progress" -> InProgress(s, e)
         [] e.type = "item_added" -> ItemAdded(s, e.item, e.index)
         [] e.type = "item_done" ->
              ItemDone(CallDone(s, e.item), e.item, e.index, Matching(s, e.item))
         [] e.type = "text_delta" -> Delta(s, "message", e)
         [] e.type \in {"text_done", "part_done"} -> DeltaDone(s, "message", e)
         [] e.type = "function_delta" -> Delta(s, "function", e)
         [] e.type = "function_done" -> DeltaDone(s, "function", e)
         [] e.type = "custom_delta" -> Delta(s, "custom", e)
         [] e.type = "custom_done" -> DeltaDone(s, "custom", e)
         [] e.type = "summary_delta" -> Delta(s, "reasoning", e)
         [] e.type = "summary_done" -> DeltaDone(s, "reasoning", e)
         [] e.type = "part_added" -> PartOf(s, "message", e)
         [] e.type = "summary_part" -> PartOf(s, "reasoning", e)
         [] e.type = "custom_ended" -> PartOf(s, "custom", e)
         [] e.type = "completed" -> Completed(s, e)
         [] OTHER -> Fail

---------------------------------------------------------------------------

Init ==
  /\ req \in Requests
  /\ contract = Contract(req)
  /\ \E head \in Heads : p = IF contract.ok THEN Observed(Fresh(contract), head) ELSE Fail
  /\ shown = [t \in {} |-> <<>>] /\ added = {} /\ done = <<>> /\ events = 0

DeltaKind(type) ==
  CASE type = "text_delta" -> "message" [] type = "function_delta" -> "function"
    [] type = "custom_delta" -> "custom" [] type = "summary_delta" -> "reasoning"
    [] OTHER -> ""

\* What the accepted delta puts out (of a function call it is held back).  The
\* text of a summary_done is put out as well; the code compares it with the
\* deltas before it and, where there were none, with nothing.
Show(e) ==
  shown' = IF DeltaKind(e.type) = "" THEN shown
           ELSE [t \in DOMAIN shown \cup {Target(DeltaKind(e.type), e)} |->
                   IF t \notin DOMAIN shown THEN e.text
                   ELSE IF t = Target(DeltaKind(e.type), e) THEN shown[t] \o e.text ELSE shown[t]]

\* project: one frame of the stream
Project(e) ==
  /\ p.phase \in {"open", "terminal"} /\ events < MaxEvents
  /\ p' = Decoded(Sequenced(p, e), e)
  /\ events' = events + 1
  /\ IF p'.phase = "failed" THEN shown' = [t \in {} |-> <<>>] /\ added' = {} /\ done' = <<>>
     ELSE /\ Show(e)
          /\ added' = IF e.type = "item_added" THEN added \cup {e.item} ELSE added
          /\ done' = IF e.type = "item_done" THEN Append(done, e.item) ELSE done
  /\ UNCHANGED <<req, contract>>

\* finish: the end of the stream
Finish ==
  /\ p.phase \in {"open", "terminal"}
  /\ p' = IF p.phase = "terminal" THEN [p EXCEPT !.phase = "finished"] ELSE Fail
  /\ UNCHANGED <<req, contract, shown, added, done, events>>

Next == (\E e \in Events : Project(e)) \/ Finish

Spec == Init /\ [][Next]_vars

---------------------------------------------------------------------------
(* Properties *)

TypeOK ==
  /\ p.phase \in {"open", "terminal", "finished", "failed"}
  /\ p.phase \in {"terminal", "finished"} => p.stop # "" /\ p.created
  /\ events \in 0..MaxEvents
  /\ \A t \in DOMAIN p.deltas :
       \E i \in DOMAIN p.pending : p.pending[i].item.kind = t.kind /\ p.pending[i].item.id = t.id

Complete == p.phase \in {"terminal", "finished"}

\* In a completed answer every text that was streamed in deltas is a part of
\* exactly the finished item it was streamed for (cross_check_done and the
\* checks of completed); nothing is said of the text of a summary_done
ShownIsFinal ==
  Complete =>
    \A t \in DOMAIN shown :
      \E i \in DOMAIN done :
        /\ done[i].kind = t.kind
        /\ \E a \in added : a.id = t.id /\ a.kind = t.kind /\ done[i].id \in {"", a.id}
                            /\ done[i].call \in {"", a.call}
        /\ t.part + 1 \in DOMAIN done[i].parts /\ done[i].parts[t.part + 1] = shown[t]

\* The tools a request makes callable: those declared outright, and those its
\* history discovered
Callable(kind) ==
  Named(req.tools, kind, FALSE)
    \cup (Named(req.tools, kind, TRUE)
            \cap UNION {{tool.name : tool \in Range(req.input[i].tools)} :
                          i \in {j \in DOMAIN req.input : req.input[j].kind = "search_output"}})

Calls == {i \in DOMAIN done : IsCall(done[i])}

\* No stream, completed or not yet, hands the client a call it did not allow:
\* of a tool the request makes callable, under an id no earlier call has, and
\* one only when calls are not parallel (authorize_item, authorize_call_id)
CallsAreAllowed ==
  p.phase # "failed" =>
    /\ \A i \in Calls :
         /\ req.choice # "none"
         /\ done[i].kind # "search" => done[i].name \in Callable(done[i].kind)
         /\ done[i].call \notin {req.input[j].call : j \in DOMAIN req.input}
         /\ \A j \in Calls : i # j => done[i].call # done[j].call
    /\ ~req.parallel => Cardinality(Calls) <= 1

\* A completed answer finishes every item it announced, once, and stops for a
\* tool call exactly when it made one (output_item, completed)
AnnouncedIsFinished ==
  Complete =>
    /\ \A a \in added :
         Cardinality({i \in DOMAIN done : /\ done[i].kind = a.kind /\ done[i].name = a.name
                                          /\ done[i].id \in {"", a.id}
                                          /\ done[i].call \in {"", a.call}}) >= 1
    /\ \A i, j \in DOMAIN done : i # j /\ done[i].id # "" => done[i].id # done[j].id
    /\ (p.stop = "ToolCall") = (Calls # {})

---------------------------------------------------------------------------
\* What a client was streamed stays true whatever events follow: the deltas of an item
\* are what it ends with, an announced item is finished before the response is, and
\* each call is one the request allowed, once.
ShownStaysTrue ==
  TypeOK /\ ShownIsFinal /\ AnnouncedIsFinished /\ CallsAreAllowed
=============================================================================
