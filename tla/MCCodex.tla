------------------------------ MODULE MCCodex -------------------------------
(*************************************************************************)
(* What a provider's answer goes through on its way to the client.  hop  *)
(* says which of the five a behaviour is about; the other variables stay *)
(* as they began.                                                        *)
(*   text    CodexProjector over texts and reasoning                     *)
(*   calls   CodexProjector over tool calls                              *)
(*   cuts    SseDecoder over every cut of a response                     *)
(*   strict  SseDecoder over named events, for what push_sse accepts     *)
(*   mux     Mux: a slot and the two streams that use it                 *)
(*************************************************************************)
EXTENDS CodexProjector

VARIABLE hop

VARIABLES
  sse_dec, sse_out, sse_text, sse_done, sse_strict

sse_vars ==
  <<sse_dec, sse_out, sse_text, sse_done, sse_strict>>

VARIABLES
  mux_side, mux_commands, mux_pipe, mux_handle, mux_up, mux_errors

mux_vars ==
  <<mux_side, mux_commands, mux_pipe, mux_handle, mux_up, mux_errors>>

---------------------------------------------------------------------------
(* Provider events: texts and reasoning, and tool calls.                    *)

Plain == Request(<<>>, "auto", TRUE, TRUE, <<>>)

MCJson == {<<"a">>, <<"a", "b">>}

Message(parts) == Item("message", "m", "", "", parts)
Other == Item("message", "n", "", "", <<<<"a">>>>)
Thought == Item("reasoning", "r", "", "", <<<<"a">>>>)

TextRequests == {Plain, [Plain EXCEPT !.reasoning = FALSE]}

TextEvents ==
  {Lifecycle("created", "", "x"), Lifecycle("created", "q", "y"), Lifecycle("in_progress", "q", ""), Lifecycle("completed", "q", "x"),
   Lifecycle("failed", "", ""), [Lifecycle("completed", "q", "") EXCEPT !.sequence = 0]}
    \cup {ItemEvent("item_added", item, 0) : item \in {Message(<<>>), Thought}}
    \cup {ItemEvent("item_added", Other, 1), ItemEvent("item_done", Other, -1)}
    \cup {ItemEvent("item_done", item, 0) :
            item \in {Message(<<<<"a">>>>), Message(<<<<"a", "b">>, <<"b">>>>), Thought}}
    \cup {TextEvent("text_delta", "m", 0, part, <<letter>>) : part \in {0, 1}, letter \in {"a", "b"}}
    \cup {TextEvent("text_done", "m", 0, 0, <<"a">>), TextEvent("summary_delta", "r", 0, 0, <<"a">>),
          TextEvent("summary_done", "r", 0, 0, <<"a">>), TextEvent("summary_done", "r", -1, 0, <<"b">>),
          TextEvent("part_done", "m", 0, 1, <<"b">>), TextEvent("part_added", "m", 0, 0, <<>>),
          TextEvent("summary_part", "", -1, 0, <<>>)}

Unwanted == Request(<<>>, "required", TRUE, FALSE, <<>>)

Search == Tool("search", "", FALSE)
Open == Tool("function", "f", FALSE)
Hidden == Tool("function", "g", TRUE)
Scripted == Tool("custom", "u", FALSE)

CallRequests ==
  {Request(<<Open, Hidden, Scripted, Search>>, choice, parallel, FALSE, input) :
     choice \in {"auto", "required", "none"}, parallel \in BOOLEAN,
     input \in {<<>>, <<Past("search", "c1", "", <<>>), Past("search_output", "c1", "", <<Hidden>>)>>,
                <<Past("search", "c1", "", <<>>), Past("search_output", "c1", "", <<Open>>)>>,
                <<Past("function", "c2", "f", <<>>), Past("function_output", "c2", "f", <<>>)>>}}
    \cup {Request(<<>>, "required", TRUE, FALSE, <<>>), Request(<<Open, Open>>, "auto", TRUE, FALSE, <<>>)}

Function(id, call, name, text) == Item("function", id, call, name, <<text>>)
Custom(text) == Item("custom", "i", "c2", "u", <<text>>)

CallEvents ==
  {Lifecycle("created", "q", ""), Lifecycle("completed", "q", "")}
    \cup {ItemEvent(type, item, 0) : type \in {"item_added", "item_done"},
            item \in {Function("f1", "c2", "f", <<"a">>), Function("", "c2", "f", <<"a">>),
                      Function("f2", "c3", "g", <<"a", "b">>), Custom(<<"b">>),
                      Item("search", "", "c1", "", <<<<"a">>>>)}}
    \cup {CallEvent("function_delta", "f2", "", <<"a">>), CallEvent("function_delta", "f2", "", <<"b">>),
          CallEvent("function_done", "f2", "", <<"a">>),
          [CallEvent("function_done", "f2", "", <<"a">>) EXCEPT !.name = "f"], CallEvent("custom_delta", "i", "c2", <<"b">>),
          CallEvent("custom_done", "i", "", <<"b">>), CallEvent("custom_ended", "i", "c2", <<>>)}

---------------------------------------------------------------------------
(* The first stream of a slot sends two bodies over a window of one, the    *)
(* stream that takes the slot over none of its own.                        *)

MuxBodies == [g \in 1..2 |-> IF g = 1 THEN 2 ELSE 0]

---------------------------------------------------------------------------
ToolCalls == INSTANCE CodexProjector WITH
  Requests <- CallRequests, Events <- CallEvents, Heads <- {""}

Cuts == INSTANCE SseDecoder WITH
  Cells <- {"LF", "CR", "D"}, MaxResponse <- 8, MaxEvents <- 1, MaxPush <- 3,
  dec <- sse_dec, out <- sse_out, text <- sse_text, done <- sse_done,
  strict <- sse_strict

Strict == INSTANCE SseDecoder WITH
  Cells <- {"LF", "D", "E"}, MaxResponse <- 8, MaxEvents <- 2, MaxPush <- 3,
  dec <- sse_dec, out <- sse_out, text <- sse_text, done <- sse_done,
  strict <- sse_strict

Streams == INSTANCE Mux WITH
  Slots <- {0}, Client <- "client", Server <- "server", Window <- 1, Backlog <- 1,
  QueueCap <- 4, Senders <- {"server"}, MaxGen <- 2, Bodies <- MuxBodies,
  MaxCommands <- 1, side <- mux_side, commands <- mux_commands, pipe <- mux_pipe,
  handle <- mux_handle, up <- mux_up, errors <- mux_errors

---------------------------------------------------------------------------
MCInit ==
  /\ hop \in {"text", "calls", "cuts", "strict", "mux"}
  /\ \/ hop = "text" /\ Init
     \/ hop = "calls" /\ ToolCalls!Init
     \/ hop \notin {"text", "calls"} /\ ToolCalls!Init /\ req = Unwanted
  /\ Cuts!Init
  /\ Streams!Init

TextStep ==
  hop = "text" /\ Next /\ UNCHANGED <<hop, sse_vars, mux_vars>>

CallsStep ==
  hop = "calls" /\ ToolCalls!Next /\ UNCHANGED <<hop, sse_vars, mux_vars>>

CutsStep ==
  hop = "cuts" /\ Cuts!Next /\ UNCHANGED <<hop, vars, mux_vars>>

StrictStep ==
  hop = "strict" /\ Strict!Next /\ UNCHANGED <<hop, vars, mux_vars>>

MuxStep ==
  hop = "mux" /\ Streams!Next /\ UNCHANGED <<hop, vars, sse_vars>>

MCNext == TextStep \/ CallsStep \/ CutsStep \/ StrictStep \/ MuxStep

MCSpec == MCInit /\ [][MCNext]_<<hop, vars, sse_vars, mux_vars>>

---------------------------------------------------------------------------

\* However the network cuts a response, the same events come out, it is refused only
\* for what passes a limit, and what the strict decoder lets through is canonical.
CutsAreInvisible ==
  /\ hop = "cuts" => Cuts!ChunkingIsInvisible /\ Cuts!RefusedForALimit
  /\ hop = "strict" => Strict!StrictIsCanonical

\* Streams that share a connection stay apart: no credit is lost or made, two drivers
\* never refuse each other's frames, a stream reads what its own peer sent however
\* often its slot was recycled, and a slot is reclaimed exactly when it is free.
StreamsStayApart ==
  hop = "mux" =>
    /\ Streams!CreditConserved /\ Streams!PeersAgree
    /\ Streams!StreamsDoNotMix /\ Streams!SlotsReclaimed
=============================================================================
