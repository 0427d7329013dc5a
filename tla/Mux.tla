---------------------------------- MODULE Mux ----------------------------------
(****************************************************************************)
(* The stream multiplexer of the wire crate: two peers, each a Multiplexer  *)
(* (wire/src/mux/state.rs, slot.rs) behind its driver (transport.rs), the   *)
(* halves the application holds (stream.rs), and one ordered pipe each way. *)
(*                                                                          *)
(* The driver serves one command, message or revocation and then flushes    *)
(* everything it staged.  A flush awaits the pipe between frames, but the   *)
(* other peer sees nothing of it but the frames, in order, and the pipe may *)
(* hold them for any time: handler and flush are one step.  A body is one   *)
(* unit of credit.  It carries the stream it was sent on and its number     *)
(* there, which no code reads: the properties tell bodies apart by them.    *)
(* Generations are counted to MaxGen; the code's wrap at 2^16, and the pipe *)
(* never holds frames of that many generations of one slot.                 *)
(****************************************************************************)
EXTENDS Integers, Sequences, FiniteSets, SequencesExt

CONSTANTS
  Slots,
  Client, Server,         \* the two ends
  Window,                 \* stream_window, in bodies
  Backlog,                \* places in the queue of accepted streams
  QueueCap,               \* SLOT_QUEUE_CAP
  Senders,                \* the ends that send bodies
  MaxGen, MaxCommands,
  Bodies                  \* generation -> how many bodies its senders send

VARIABLES
  side,       \* end -> the driver and its multiplexer; every sender writes under an authority
  commands,   \* end -> commands the application has written
  pipe,       \* end -> messages on their way to it
  handle,     \* end -> slot -> generation -> the stream's halves
  up,         \* the connection stands
  errors      \* history: errors recv answered, and overruns

vars == <<side, commands, pipe, handle, up, errors>>

Sides == {Client, Server}
Gens == 1..MaxGen
Peer(p) == IF p = Client THEN Server ELSE Client
\* Role::owns_slot
OwnsSlot(p, s) == (s % 2 = 0) = (p = Client)

Frame(kind, n, from) == [kind |-> kind, n |-> n, from |-> from]
NoPending == [gen |-> 0, n |-> 0]

(****************************************************************************)
(* One slot of the multiplexer.                                             *)
(****************************************************************************)
StreamSlot(g) ==
  [generation |-> g, peerCredit |-> Window, localCredit |-> Window, queue |-> <<>>,
   localTerminal |-> FALSE, peerTerminal |-> FALSE]
IsClosed(m) == m.localTerminal /\ m.peerTerminal

LowestFree(sd) == CHOOSE s \in sd.free : \A t \in sd.free : s =< t

\* maybe_free_slot: both ends have closed and nothing is left to send.
Freeable(m) == IsClosed(m) /\ m.queue = <<>>

DrainPendingTerminalFree(p, sd) ==
  LET done == {s \in sd.terminalFree : Freeable(sd.mux[s])}
  IN [sd EXCEPT !.free = @ \cup {s \in done : OwnsSlot(p, s)}, !.terminalFree = @ \ done]

\* reset: takes the place of everything queued, unless both ends are closed.
Reset(sd, s) ==
  IF IsClosed(sd.mux[s]) THEN sd
  ELSE [sd EXCEPT !.mux[s].localTerminal = TRUE, !.mux[s].peerTerminal = TRUE,
                  !.mux[s].queue = <<Frame("reset", 0, 0)>>]

\* try_send_body: accepted, blocked, or an error; one body is staged at a time.
TrySendBody(sd, s, g, n) ==
  LET m == sd.mux[s]
      staged == \E i \in DOMAIN m.queue : m.queue[i].kind = "body"
  IN IF m.localTerminal THEN [outcome |-> "error", sd |-> sd]
     ELSE IF m.peerCredit < 1 \/ staged THEN [outcome |-> "blocked", sd |-> sd]
     ELSE IF Len(m.queue) >= QueueCap THEN [outcome |-> "error", sd |-> sd]
     ELSE [outcome |-> "accepted",
           sd |-> [sd EXCEPT !.mux[s].peerCredit = @ - 1,
                             !.mux[s].queue = Append(@, Frame("body", n, g))]]

CloseSend(sd, s) ==
  IF sd.mux[s].localTerminal \/ Len(sd.mux[s].queue) >= QueueCap THEN sd
  ELSE [sd EXCEPT !.mux[s].localTerminal = TRUE, !.mux[s].queue = Append(@, Frame("end", 0, 0))]

\* consume: credit goes back when the application takes a body, ahead of the rest
\* of the queue and merged with a credit that is still there.
Consume(sd, s) ==
  LET m == sd.mux[s]
      merged == {i \in DOMAIN m.queue : m.queue[i].kind = "credit"}
  IN IF m.peerTerminal \/ m.localCredit = Window THEN sd
     ELSE [sd EXCEPT !.mux[s].localCredit = @ + 1,
                     !.mux[s].queue = IF merged # {}
                                      THEN [i \in DOMAIN @ |-> IF i \in merged
                                              THEN [@[i] EXCEPT !.n = @ + 1] ELSE @[i]]
                                      ELSE <<Frame("credit", 1, 0)>> \o @]

\* clean_up_after_remote_free
CleanUp(sd, s) == [sd EXCEPT !.terminalFree = @ \ {s}]
MaybeFree(p, sd, s) ==
  IF Freeable(sd.mux[s])
  THEN [sd EXCEPT !.free = IF OwnsSlot(p, s) THEN @ \cup {s} ELSE @] ELSE sd

(****************************************************************************)
(* The driver's tables.                                                     *)
(****************************************************************************)
FailPendingSend(sd, s) == [sd EXCEPT !.pending[s] = NoPending]
DropChannels(sd, s) == [sd EXCEPT !.channel[s] = 0]

\* A reset event: the stream's send fails and its receiver is told.
ResetStream(sd, s) == [DropChannels(FailPendingSend(sd, s), s) EXCEPT !.authority[s] = FALSE]

\* Mutant: a command acts on whatever occupies its slot.
LiveAnyGeneration(sd, c) == sd.mux[c.slot].generation # 0

\* live: a command acts on the stream it names or on none.
Live(sd, c) == sd.mux[c.slot].generation = c.gen

RegisterStream(sd, s) == [sd EXCEPT !.channel[s] = sd.mux[s].generation]

\* The command brings the authority, kept until the stream's end is written.
StartSend(sd, c) ==
  LET armed == [sd EXCEPT !.authority[c.slot] = TRUE]
      sent == TrySendBody(armed, c.slot, c.gen, c.n)
  IN IF sd.pending[c.slot] # NoPending THEN armed
     ELSE IF sent.outcome = "blocked" THEN [armed EXCEPT !.pending[c.slot] = [gen |-> c.gen, n |-> c.n]]
     ELSE sent.sd

RetryPendingSend(sd, s) ==
  LET sent == TrySendBody(sd, s, sd.pending[s].gen, sd.pending[s].n)
  IN IF sd.pending[s] = NoPending \/ sent.outcome = "blocked" THEN sd
     ELSE [sent.sd EXCEPT !.pending[s] = NoPending]

(****************************************************************************)
(* flush_outbound: next_outbound until nothing is left, then the sends that *)
(* waited for the staging place; a second round ships what these staged.    *)
(****************************************************************************)
Shipped(out, s) ==
  LET m == out.sd.mux[s]
      ends == \E i \in DOMAIN m.queue : m.queue[i].kind \in {"end", "reset"}
      popped == [out.sd EXCEPT !.mux[s].queue = <<>>, !.authority[s] = @ /\ ~ ends]
      defer == ends \/ (m.queue # <<>> /\ IsClosed(m))
  IN [sd |-> IF defer THEN [popped EXCEPT !.terminalFree = @ \cup {s}] ELSE popped,
      sent |-> out.sent \o [i \in DOMAIN m.queue |->
                 [slot |-> s, gen |-> m.generation, frame |-> m.queue[i]]]]

Ship(p, sd) ==
  LET out == FoldSet(LAMBDA s, o : Shipped(o, s), [sd |-> sd, sent |-> <<>>], Slots)
  IN [out EXCEPT !.sd = DrainPendingTerminalFree(p, @)]
RetryPendingSends(sd) == FoldSet(LAMBDA s, t : RetryPendingSend(t, s), sd, Slots)

Flush(p, handled, rest) ==
  \E first \in {Ship(p, handled)} :
  \E second \in {Ship(p, RetryPendingSends(first.sd))} :
    /\ side' = [side EXCEPT ![p] = second.sd]
    /\ pipe' = [rest EXCEPT ![Peer(p)] = @ \o first.sent \o second.sent]

(****************************************************************************)
(* Commands.                                                                *)
(****************************************************************************)
NoHandle == [held |-> FALSE, receiving |-> FALSE, closed |-> FALSE, unread |-> 0, sent |-> 0, got |-> 0]

Open(p) ==
  LET drained == DrainPendingTerminalFree(p, side[p])
      s == LowestFree(drained)
      g == drained.mux[s].generation + 1
      seated == [drained EXCEPT !.mux[s] = [StreamSlot(g) EXCEPT !.queue = <<Frame("open", 0, 0)>>],
                                !.free = @ \ {s}]
  IN /\ up /\ drained.free # {} /\ g =< MaxGen
     /\ Flush(p, RegisterStream(seated, s), pipe)
     /\ handle' = [handle EXCEPT ![p][s][g] = [NoHandle EXCEPT !.held = TRUE, !.receiving = TRUE]]
     /\ UNCHANGED <<commands, up, errors>>

HandleCommand(sd, c) ==
  CASE ~ Live(sd, c) -> sd
    [] c.kind = "send" -> StartSend(sd, c)
    [] c.kind = "close" -> CloseSend(sd, c.slot)
    [] c.kind = "reset" -> Reset([FailPendingSend(sd, c.slot) EXCEPT !.authority[c.slot] = FALSE], c.slot)
    [] c.kind = "consumed" -> Consume(sd, c.slot)

Serve(p) ==
  /\ up /\ commands[p] # <<>>
  /\ \E handled \in {HandleCommand(side[p], Head(commands[p]))} : Flush(p, handled, pipe)
  /\ commands' = [commands EXCEPT ![p] = Tail(@)]
  /\ UNCHANGED <<handle, up, errors>>

\* The authority a stream writes under is gone; its peer may have ended before.
Revoke(p, s) ==
  /\ up /\ side[p].authority[s]
  /\ Flush(p, Reset(ResetStream(side[p], s), s), pipe)
  /\ UNCHANGED <<commands, handle, up, errors>>

(****************************************************************************)
(* Messages.                                                                *)
(****************************************************************************)
\* An accepted stream waits for the application, or is refused when none can.
Receive(p, sd, message) ==
  LET s == message.slot
      m == sd.mux[s]
      f == message.frame
      opened == [sd EXCEPT !.mux[s] = StreamSlot(message.gen)]
      seated == RegisterStream(CleanUp(opened, s), s)
      key == [slot |-> s, gen |-> message.gen]
  IN CASE f.kind = "open" /\ (OwnsSlot(p, s) \/ (m.generation # 0 /\ (~ IsClosed(m) \/ m.generation = message.gen)))
            -> [sd |-> sd, event |-> "error"]
       [] f.kind = "open" /\ ~ (OwnsSlot(p, s) \/ (m.generation # 0 /\ (~ IsClosed(m) \/ m.generation = message.gen)))
            -> IF Len(sd.backlog) < Backlog
               THEN [sd |-> [seated EXCEPT !.backlog = Append(@, key)], event |-> "stream"]
               ELSE [sd |-> ResetStream(Reset(seated, s), s), event |-> "none"]
       [] f.kind # "open" /\ (m.generation # message.gen \/ IsClosed(m)
                              \/ (m.peerTerminal /\ f.kind \notin {"credit", "reset"}))
            -> [sd |-> sd, event |-> "none"]
       [] OTHER ->
            CASE f.kind = "body" /\ m.localCredit < 1 -> [sd |-> ResetStream(Reset(sd, s), s), event |-> "error"]
              [] f.kind = "body" /\ m.localCredit >= 1 ->
                   LET taken == [sd EXCEPT !.mux[s].localCredit = @ - 1]
                   IN IF sd.channel[s] # 0 /\ handle[p][s][sd.channel[s]].receiving
                      THEN [sd |-> taken, event |-> "body"]
                      ELSE [sd |-> Reset(ResetStream(taken, s), s), event |-> "none"]
              [] f.kind = "end" ->
                   LET ended == [sd EXCEPT !.mux[s].peerTerminal = TRUE]
                   IN [sd |-> DropChannels(IF Freeable(ended.mux[s]) THEN CleanUp(MaybeFree(p, ended, s), s) ELSE ended, s),
                       event |-> "end"]
              [] f.kind = "reset" ->
                   LET cut == [sd EXCEPT !.mux[s].peerTerminal = TRUE, !.mux[s].localTerminal = TRUE,
                                         !.mux[s].queue = <<>>]
                   IN [sd |-> ResetStream(CleanUp(MaybeFree(p, cut, s), s), s), event |-> "none"]
              [] f.kind = "credit" ->
                   [sd |-> RetryPendingSend([sd EXCEPT !.mux[s].peerCredit = @ + f.n], s), event |-> "none"]

HandleInbound(p) ==
  /\ up /\ pipe[p] # <<>>
  /\ \E message \in {Head(pipe[p])} : \E r \in {Receive(p, side[p], message)} :
     LET s == message.slot
         g == side[p].channel[s]
     IN
     /\ Flush(p, r.sd, [pipe EXCEPT ![p] = Tail(@)])
     /\ errors' = IF r.event = "error" THEN errors + 1 ELSE errors
     /\ handle' =
          CASE r.event = "stream" ->
                 [handle EXCEPT ![p][s][message.gen] = [NoHandle EXCEPT !.receiving = TRUE]]
            [] r.event = "body" ->
                 [handle EXCEPT ![p][s][g].unread = @ + 1,
                                ![p][s][g].got = IF message.frame.from = g /\ message.frame.n = @ + 1
                                                 THEN @ + 1 ELSE -1]
            [] OTHER -> handle
  /\ UNCHANGED <<commands, up>>

(****************************************************************************)
(* The application.                                                         *)
(****************************************************************************)
Write(p, kind, s, g, n) ==
  /\ Len(commands[p]) < MaxCommands
  /\ commands' = [commands EXCEPT ![p] = Append(@, [kind |-> kind, slot |-> s, gen |-> g, n |-> n])]

AcceptStream(p) ==
  /\ up /\ side[p].backlog # <<>>
  /\ LET key == Head(side[p].backlog)
     IN handle' = [handle EXCEPT ![p][key.slot][key.gen].held = TRUE]
  /\ side' = [side EXCEPT ![p].backlog = Tail(@)]
  /\ UNCHANGED <<commands, pipe, up, errors>>

\* A second send may be written while the first waits: its future was dropped.
SendBody(p, s, g) ==
  LET h == handle[p][s][g]
  IN /\ up /\ p \in Senders /\ h.held /\ ~ h.closed /\ h.sent < Bodies[g]
     /\ Write(p, "send", s, g, h.sent + 1)
     /\ handle' = [handle EXCEPT ![p][s][g].sent = @ + 1]
     /\ UNCHANGED <<side, pipe, up, errors>>

FinishSending(p, s, g) ==
  /\ up /\ handle[p][s][g].held /\ ~ handle[p][s][g].closed
  /\ Write(p, "close", s, g, 0)
  /\ handle' = [handle EXCEPT ![p][s][g].closed = TRUE]
  /\ UNCHANGED <<side, pipe, up, errors>>

\* Drop for MuxRecvHalf: the receive half goes, alone, and resets the stream unless
\* it has read the end.
DropReceive(p, s, g) ==
  LET atEnd == side[p].channel[s] # g /\ handle[p][s][g].unread = 0
  IN /\ up /\ handle[p][s][g].held /\ handle[p][s][g].receiving
     /\ Write(p, "reset", s, g, 0) \/ (atEnd /\ UNCHANGED commands)
     /\ handle' = [handle EXCEPT ![p][s][g].receiving = FALSE, ![p][s][g].unread = 0]
     /\ UNCHANGED <<side, pipe, up, errors>>

ReadBody(p, s, g) ==
  /\ up /\ handle[p][s][g].held /\ handle[p][s][g].unread > 0
  /\ handle' = [handle EXCEPT ![p][s][g].unread = @ - 1]
  /\ Write(p, "consumed", s, g, 0)
  /\ UNCHANGED <<side, pipe, up, errors>>

\* Multiplexer::new and spawn_with
FreshSides ==
  [p \in Sides |->
     [mux |-> [s \in Slots |-> StreamSlot(0)], free |-> {s \in Slots : OwnsSlot(p, s)},
      terminalFree |-> {}, pending |-> [s \in Slots |-> NoPending],
      channel |-> [s \in Slots |-> 0], authority |-> [s \in Slots |-> FALSE],
      backlog |-> <<>>]]
NoHandles == [p \in Sides |-> [s \in Slots |-> [g \in Gens |-> NoHandle]]]
Silent == [p \in Sides |-> <<>>]

Init ==
  /\ side = FreshSides /\ handle = NoHandles
  /\ commands = Silent /\ pipe = Silent
  /\ up = TRUE /\ errors = 0

\* A write fails, or the carrier ends: both drivers leave their loops and drop
\* what they hold.
ConnectionEnds ==
  /\ up /\ up' = FALSE
  /\ side' = FreshSides /\ handle' = NoHandles
  /\ commands' = Silent /\ pipe' = Silent
  /\ UNCHANGED errors

Next ==
  \/ \E p \in Sides : Serve(p) \/ HandleInbound(p) \/ Open(p) \/ AcceptStream(p)
  \/ \E p \in Sides, s \in Slots : Revoke(p, s)
  \/ \E p \in Sides, s \in Slots, g \in Gens :
       SendBody(p, s, g) \/ FinishSending(p, s, g) \/ DropReceive(p, s, g) \/ ReadBody(p, s, g)
  \/ ConnectionEnds

Spec == Init /\ [][Next]_vars

--------------------------------------------------------------------------------
\* The types of the state; the queue of a slot keeps within its capacity.
TypeOK ==
  /\ errors \in Nat
  /\ \A p \in Sides :
       /\ side[p].free \cup side[p].terminalFree \subseteq Slots
       /\ \A s \in Slots :
            /\ side[p].mux[s].generation \in 0..MaxGen
            /\ side[p].mux[s].peerCredit \in 0..Window
            /\ side[p].mux[s].localCredit \in 0..Window
            /\ Len(side[p].mux[s].queue) =< QueueCap

InFlight(p, s, g, kind) ==
  LET queued == IF side[p].mux[s].generation = g THEN side[p].mux[s].queue ELSE <<>>
      sent == SelectSeq(pipe[Peer(p)], LAMBDA x : x.slot = s /\ x.gen = g)
      frames == queued \o [i \in DOMAIN sent |-> sent[i].frame]
      weight(f) == IF f.kind # kind THEN 0 ELSE IF kind = "credit" THEN f.n ELSE 1
  IN FoldSeq(LAMBDA f, sum : sum + weight(f), 0, frames)

\* While a stream is open at both ends no credit is lost or made: what the
\* sender may still send, with the bodies and the credits on their way, is what
\* the receiver allows, and the rest of the window is unread or being returned.
CreditConserved ==
  \A p \in Sides, s \in Slots :
    LET mine == side[p].mux[s]
        theirs == side[Peer(p)].mux[s]
        g == mine.generation
        returning == Len(SelectSeq(commands[Peer(p)], LAMBDA c : c.kind = "consumed" /\ c.slot = s /\ c.gen = g))
    IN g # 0 /\ g = theirs.generation /\ ~ IsClosed(mine) /\ ~ IsClosed(theirs) /\ ~ theirs.peerTerminal =>
         /\ mine.peerCredit + InFlight(p, s, g, "body") + InFlight(Peer(p), s, g, "credit") = theirs.localCredit
         /\ handle[Peer(p)][s][g].receiving =>
              theirs.localCredit + handle[Peer(p)][s][g].unread + returning = Window

\* Two drivers of this code never refuse each other's frames: no slot is opened
\* while the peer holds it, no generation repeats, no window is overrun.
PeersAgree == errors = 0

\* A stream reads exactly what its own peer stream sent, in order, however
\* often its slot was recycled and however late a command or a body is served.
StreamsDoNotMix ==
  \A p \in Sides, s \in Slots, g \in Gens :
    handle[p][s][g].got \in 0..handle[Peer(p)][s][g].sent

\* After its flush an own slot is free exactly when it holds no stream that
\* is open at either end: none is lost, none is given out twice.
SlotsReclaimed ==
  \A p \in Sides :
    side[p].free = {s \in Slots : OwnsSlot(p, s)
                       /\ (side[p].mux[s].generation = 0 \/ Freeable(side[p].mux[s]))}

==============================================================================
