------------------------------ MODULE SseDecoder ------------------------------
(***************************************************************************)
(* The incremental decoder of server-sent events (adaptors/src/wire.rs)    *)
(* that every provider stream passes through.  The network cuts the        *)
(* response anywhere; the decoder keeps the unfinished frame and how far   *)
(* it has looked for a delimiter in it.                                    *)
(*                                                                         *)
(* A cell is a line feed, a carriage return, or stands for the start of a  *)
(* line: "E" for `event:', "D" for `data:', "C" for `:', "U" for a line    *)
(* without a colon.  What follows the first cell of a line is its value.   *)
(***************************************************************************)
EXTENDS Integers, Sequences, SequencesExt

CONSTANTS
    Cells,          \* the cells a response is made of
    MaxResponse,    \* MAX_SSE_RESPONSE_BYTES
    MaxEvents,      \* MAX_SSE_EVENTS
    MaxPush         \* bound: cells the network delivers at once

VARIABLES
    dec,            \* the decoder
    out,            \* the events it has returned
    text,           \* everything pushed so far
    done,           \* finish was called
    strict          \* push_sse has accepted every push so far

vars == <<dec, out, text, done, strict>>

MaxDelimiter == 4                           \* MAX_SSE_DELIMITER_BYTES
MaxFrame == MaxResponse - MaxDelimiter      \* MAX_SSE_FRAME_BYTES

LF == "LF"
CR == "CR"

-----------------------------------------------------------------------------
(* One frame. *)

StripCR(line) ==
    IF line # <<>> /\ line[Len(line)] = CR THEN SubSeq(line, 1, Len(line) - 1) ELSE line

\* text.lines(): cut at line feeds, each with the carriage return before it; no empty
\* line after the last one, and a carriage return that ends the text stays.
Lines(frame) ==
    LET ends == {i \in DOMAIN frame : frame[i] = LF}
        last == IF frame # <<>> /\ frame[Len(frame)] # LF THEN {Len(frame) + 1} ELSE {}
        cuts == SetToSortSeq(ends \cup last, <)
        from(n) == IF n = 1 THEN 1 ELSE cuts[n - 1] + 1
        line(n) == SubSeq(frame, from(n), cuts[n] - 1)
    IN  [n \in DOMAIN cuts |-> IF cuts[n] \in ends THEN StripCR(line(n)) ELSE line(n)]

NoParse == [name |-> <<>>, named |-> FALSE, data |-> <<>>, ignored |-> 0, odd |-> 0]

\* One line of parse_sse_frame.
ParseLine(f, raw) ==
    LET line == StripCR(raw)
    IN  CASE line = <<>> -> [f EXCEPT !.odd = @ + 1]
          [] line # <<>> /\ line[1] = "E" /\ ~f.named ->
                [f EXCEPT !.name = Tail(line), !.named = TRUE,
                          !.odd = IF f.data # <<>> THEN @ + 1 ELSE @]
          [] line # <<>> /\ line[1] = "D" ->
                [f EXCEPT !.data = Append(@, Tail(line)),
                          !.odd = IF ~f.named \/ f.data # <<>> THEN @ + 1 ELSE @]
          [] OTHER -> [f EXCEPT !.ignored = @ + 1]

parse_sse_frame(frame) == FoldLeft(ParseLine, NoParse, Lines(frame))

Event(f) == [name |-> f.name, named |-> f.named, data |-> f.data]

-----------------------------------------------------------------------------
(* Delimiters. *)

StartsWith(buffer, i, mark) ==
    /\ i + Len(mark) - 1 <= Len(buffer)
    /\ SubSeq(buffer, i, i + Len(mark) - 1) = mark

Marks == {<<LF, LF>>, <<CR, LF, CR, LF>>}

\* find_sse_delimiter from an offset: where the frame ends, and how long its
\* delimiter is; <<0, 0>> for none.
find_sse_delimiter(buffer, from) ==
    LET hits == {i \in (from + 1)..Len(buffer) : \E m \in Marks : StartsWith(buffer, i, m)}
    IN  IF hits = {} THEN <<0, 0>>
        ELSE LET i == CHOOSE h \in hits : \A g \in hits : h <= g
             IN  <<i, Len(CHOOSE m \in Marks : StartsWith(buffer, i, m))>>

has_incomplete_delimiter_at_frame_limit(buffer) ==
    \E m \in Marks : \E n \in 1..(Len(m) - 1) :
        /\ Len(buffer) >= n
        /\ Len(buffer) - n <= MaxFrame
        /\ SubSeq(buffer, Len(buffer) - n + 1, Len(buffer)) = SubSeq(m, 1, n)

-----------------------------------------------------------------------------
(* The decoder. *)

New ==
    [buffer |-> <<>>, scanned |-> 0, received |-> 0, frames |-> 0, events |-> 0,
     ignored |-> 0, odd |-> 0, ok |-> TRUE]

\* A step of drain_complete_frames: d is the decoder, c what it has consumed.
RecordFrame(s, frame) ==
    LET f == parse_sse_frame(frame)
    IN  [s EXCEPT !.d.frames = @ + 1,
                  !.d.ignored = @ + f.ignored,
                  !.d.odd = @ + f.odd,
                  !.d.events = IF f.data = <<>> THEN @ ELSE @ + 1,
                  !.d.ok = @ /\ (f.data = <<>> \/ s.d.events < MaxEvents),
                  !.out = IF f.data = <<>> THEN @ ELSE Append(@, Event(f))]

DrainFrame(s, hit) ==
    IF hit[1] = 0 THEN [s EXCEPT !.more = FALSE]
    ELSE IF hit[1] - 1 - s.consumed > MaxFrame THEN [s EXCEPT !.d.ok = FALSE]
    ELSE [RecordFrame(s, SubSeq(s.d.buffer, s.consumed + 1, hit[1] - 1))
            EXCEPT !.consumed = hit[1] - 1 + hit[2], !.scan = hit[1] - 1 + hit[2]]

DrainStep(s, i) ==
    IF ~s.more \/ ~s.d.ok THEN s
    ELSE DrainFrame(s, find_sse_delimiter(s.d.buffer, s.scan))

MaxOf(a, b) == IF a > b THEN a ELSE b

\* Mutant: only the last byte is looked at again.
RescanLast(s) ==
    [s.d EXCEPT !.scanned = MaxOf(Len(s.d.buffer) - 1, s.consumed) - s.consumed,
                !.buffer = SubSeq(@, s.consumed + 1, Len(@))]

\* A delimiter may straddle the next push: its prefix is looked at again.
Rescan(s) ==
    [s.d EXCEPT !.scanned = MaxOf(Len(s.d.buffer) - (MaxDelimiter - 1), s.consumed) - s.consumed,
                !.buffer = SubSeq(@, s.consumed + 1, Len(@))]

drain_complete_frames(d) ==
    FoldLeft(DrainStep, [d |-> d, consumed |-> 0, scan |-> d.scanned, more |-> TRUE, out |-> <<>>],
             [i \in 1..(Len(d.buffer) + 1) |-> i])

ensure_pending_frame_within_limit(d) ==
    IF Len(d.buffer) <= MaxFrame \/ has_incomplete_delimiter_at_frame_limit(d.buffer)
    THEN d ELSE [d EXCEPT !.ok = FALSE]

Drained(s) ==
    IF ~s.d.ok THEN [d |-> s.d, out |-> s.out]
    ELSE [d |-> ensure_pending_frame_within_limit(Rescan(s)), out |-> s.out]

\* push: the response limit first, then the buffer takes what fits.
PushAll(d, bytes) == Drained(drain_complete_frames([d EXCEPT !.buffer = @ \o bytes]))

Push(d, bytes) ==
    IF d.received + Len(bytes) > MaxResponse
    THEN [d |-> [d EXCEPT !.ok = FALSE], out |-> <<>>]
    ELSE PushAll([d EXCEPT !.received = @ + Len(bytes)], bytes)

\* finish: what is left is a last frame, unless it is blank.
Blank(buffer) == \A i \in DOMAIN buffer : buffer[i] \in {LF, CR}

FinishFrame(d) ==
    LET s == RecordFrame([d |-> d, out |-> <<>>], d.buffer)
    IN  [d |-> [s.d EXCEPT !.buffer = <<>>], out |-> s.out]

FinishDecoder(d) ==
    IF Len(d.buffer) > MaxFrame THEN [d |-> [d EXCEPT !.ok = FALSE], out |-> <<>>]
    ELSE IF Blank(d.buffer) THEN [d |-> [d EXCEPT !.buffer = <<>>, !.scanned = 0], out |-> <<>>]
    ELSE FinishFrame([d EXCEPT !.scanned = 0])

-----------------------------------------------------------------------------
\* push_sse: refuses what the decoder would silently normalise.
push_sse(d, s) ==
    /\ s.d.ok
    /\ s.d.frames - d.frames = Len(s.out)
    /\ s.d.ignored = d.ignored
    /\ s.d.odd = d.odd

Init == dec = New /\ out = <<>> /\ text = <<>> /\ done = FALSE /\ strict = TRUE

Arrives(bytes) ==
    \E s \in {Push(dec, bytes)} :
        /\ dec.ok
        /\ ~done
        /\ dec' = s.d
        /\ out' = IF s.d.ok THEN out \o s.out ELSE out
        /\ Len(text) + Len(bytes) <= MaxResponse + 1
        /\ text' = text \o bytes
        /\ strict' = (strict /\ push_sse(dec, s))
        /\ UNCHANGED done

Ends ==
    \E s \in {FinishDecoder(dec)} :
        /\ dec.ok
        /\ ~done
        /\ dec' = s.d
        /\ out' = IF s.d.ok THEN out \o s.out ELSE out
        /\ done' = TRUE
        /\ UNCHANGED <<text, strict>>

Next == (\E n \in 1..MaxPush : \E bytes \in [1..n -> Cells] : Arrives(bytes)) \/ Ends

Spec == Init /\ [][Next]_vars

-----------------------------------------------------------------------------
(* Properties. *)

\* The reference: frames end at the first delimiter of what is left.
RECURSIVE FramesOf(_)
FramesOf(buffer) ==
    LET hit == find_sse_delimiter(buffer, 0)
    IN  IF hit[1] = 0 THEN <<buffer>>
        ELSE <<SubSeq(buffer, 1, hit[1] - 1)>>
             \o FramesOf(SubSeq(buffer, hit[1] + hit[2], Len(buffer)))

EventsOf(frames) ==
    LET parsed == [i \in DOMAIN frames |-> parse_sse_frame(frames[i])]
        full == SelectSeq(parsed, LAMBDA f : f.data # <<>>)
    IN  [i \in DOMAIN full |-> Event(full[i])]

TypeOK ==
    /\ dec.scanned <= Len(dec.buffer)
    /\ dec.ok => dec.received = Len(text)
    /\ dec.ok => dec.events = Len(out) /\ dec.events <= MaxEvents
    /\ dec.ok /\ ~done => find_sse_delimiter(dec.buffer, 0) = <<0, 0>>

\* However the network cuts a response, push returns the events of the whole
\* response's frames and keeps exactly its unfinished frame; finish adds that
\* frame.
ChunkingIsInvisible ==
    dec.ok =>
        \E frames \in {FramesOf(text)} :
            IF done
            THEN out = EventsOf(frames)
            ELSE /\ out = EventsOf(Front(frames))
                 /\ dec.buffer = frames[Len(frames)]

\* What push_sse lets through is canonical: every complete frame is one event
\* line followed by one data line, so nothing was dropped or joined on the
\* way to the projector.
StrictIsCanonical ==
    strict =>
        \E frames \in {FramesOf(text)} :
            \A i \in 1..(Len(frames) - 1) :
                \E lines \in {Lines(frames[i])} :
                    /\ Len(lines) = 2
                    /\ lines[1] # <<>> /\ lines[1][1] = "E"
                    /\ lines[2] # <<>> /\ lines[2][1] = "D"

\* A response is refused only for what it is, not for how it was cut: its
\* bytes or its events are over the limit, or some frame is, however the
\* delimiter that its last cells may have begun goes on.
Completions == {<<>>, <<LF>>, <<CR, LF>>, <<LF, CR, LF>>}

RefusedForALimit ==
    ~dec.ok =>
        \/ Len(text) > MaxResponse
        \/ Len(EventsOf(IF done THEN FramesOf(text) ELSE Front(FramesOf(text)))) > MaxEvents
        \/ \A tail \in IF done THEN {<<>>} ELSE Completions :
              \E frames \in {FramesOf(text \o tail)} :
                  \E i \in DOMAIN frames : Len(frames[i]) > MaxFrame
==============================================================================
