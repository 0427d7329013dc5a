------------------------------- MODULE Codec -------------------------------
(***************************************************************************)
(* Canonical encodings (kernel/src/canonical.rs).  A type is described by  *)
(* a layout: the fields its encoder writes, in order, and, separately, the *)
(* fields its decoder reads.  Enc and Dec interpret a layout.  A buffer is *)
(* a sequence of cells; a scalar of any width is one cell, tags, presence  *)
(* bytes and lengths keep their numbers, and every bound is scaled down.   *)
(*                                                                         *)
(* The machine takes the encoding of a sample value and damages it: a cell *)
(* overwritten, the buffer cut short, a cell appended.                     *)
(***************************************************************************)
EXTENDS Integers, Sequences, SequencesExt, FiniteSets, TLC

CONSTANTS
  Layouts,       \* name of a type |-> its layout
  Named,         \* the layouts other layouts refer to by name
  Accepts(_, _), \* the checks a decoder makes on a whole value, by name
  Byte,          \* every value of a cell
  Stored,        \* the types stored or read one after the other
  Checkpoints,   \* the types a checkpoint is written in
  Hashed,        \* the preimages, which are hashed and never read
  StoredAlphabet, Alphabet, \* the cells damage writes into the stored types, the others
  StoredFaults, Faults      \* how many cells of them are damaged

VARIABLES kind, sent, buf, faults,
          read            \* what the decoder returned

vars == <<kind, sent, buf, faults, read>>

----------------------------------------------------------------------------
(* Layouts.  `ok` is what a cell may hold when read, `gen` the samples.    *)

Cell(ok, gen) == [k |-> "cell", ok |-> ok, gen |-> gen]
Word(a, b)    == Cell(Byte, <<a, b>>)
Const(c)      == Cell({c}, <<c>>)
Opt(l)        == [k |-> "opt", of |-> l]
ListOf(l, n)  == [k |-> "list", of |-> l, min |-> 0, max |-> n]
Some(l, n)    == [k |-> "list", of |-> l, min |-> 1, max |-> n]
MapOf(l, n, key) == [k |-> "map", of |-> l, min |-> 0, max |-> n, key |-> key]
Array(l, n)   == [k |-> "array", of |-> l, max |-> n]
Rest          == [k |-> "rest"]
Struct(w, r)  == [k |-> "struct", w |-> w, r |-> r]
Choice(f)     == [k |-> "choice", of |-> f]
Peek(f)       == [k |-> "peek", of |-> f]
Checked(n, l, s) == [k |-> "checked", name |-> n, of |-> l, samples |-> s]
Sealed(l, m)  == [k |-> "sealed", of |-> l, max |-> m]
Framed(l)     == [k |-> "framed", of |-> l]             \* behind its length
Fixed(n, l)   == [k |-> "fixed", size |-> n, of |-> l]  \* exactly n cells
AtEnd(l)      == [k |-> "at_end", of |-> l]               \* absent: nothing follows
Ref(n)        == [k |-> "ref", to |-> n]   \* the layout named n

\* What a hash function is fed: its domain, then fields and no separator.
Preimage(domain, fields) == Struct(<< <<"domain", Cell({domain}, <<domain>>)>> >> \o fields, <<>>)

FORMAT_VERSION == 1
ENVELOPE_SIZE == 2
U64 == Word(3, 4)
Sig == Word(5, 6)
Party == Cell({0, 1}, <<0, 1>>)

MaxTag == 41   \* variant and envelope tags are below it
Absent == 0
Present == 1

\* The key a map's entry is held under; a set's entry is its own.
KeyOf(l, v) == IF l.key = "" THEN v ELSE v[l.key]

\* What one sample looks like with every field at its first value.
RECURSIVE Base(_)
Base(l) ==
  CASE l.k = "cell" -> l.gen[1]
    [] l.k \in {"opt", "at_end"} -> <<>>
    [] l.k \in {"list", "map"} -> [i \in 1..l.min |-> Base(l.of)]
    [] l.k = "array" -> [i \in 1..l.max |-> Base(l.of)]
    [] l.k = "rest" -> <<>>
    [] l.k = "struct" ->
         [n \in {l.w[i][1] : i \in DOMAIN l.w} |->
            Base(l.w[CHOOSE i \in DOMAIN l.w : l.w[i][1] = n][2])]
    [] l.k \in {"choice", "peek"} ->
         LET t == CHOOSE t \in DOMAIN l.of : \A u \in DOMAIN l.of : t <= u
         IN [tag |-> t, body |-> Base(l.of[t])]
    [] l.k = "ref" -> Base(Named[l.to])
    [] OTHER -> Base(l.of)

\* Samples: one field at a time leaves its first value; every variant, the
\* empty, singleton, two-element and longest list.
RECURSIVE Samples(_)
Samples(l) ==
  CASE l.k = "cell" -> l.gen
    [] l.k \in {"opt", "at_end"} ->
         LET inner == Samples(l.of)
         IN <<(<<>>)>> \o [i \in DOMAIN inner |-> <<inner[i]>>]
    [] l.k = "list" ->
         LET inner == Samples(l.of)
             full  == [i \in 1..l.max |-> inner[1]]
         IN SelectSeq(<<(<<>>)>> \o [i \in DOMAIN inner |-> <<inner[i]>>]
                      \o <<(<<inner[Len(inner)], inner[1]>>), full>>,
                      LAMBDA s : Len(s) \in l.min..l.max)
    [] l.k = "map" ->
         LET inner == Samples(l.of)
             later == SelectSeq(inner, LAMBDA v : KeyOf(l, inner[1]) < KeyOf(l, v))
         IN <<(<<>>)>> \o [i \in DOMAIN inner |-> <<inner[i]>>]
            \o (IF later = <<>> THEN <<>> ELSE << <<inner[1], later[1]>> >>)
    [] l.k = "array" ->
         LET inner == Samples(l.of)
             base  == [i \in 1..l.max |-> inner[1]]
         IN [i \in 1..(Len(inner) * l.max) |->
               [base EXCEPT ![(i % l.max) + 1] = inner[((i - 1) \div l.max) + 1]]]
    [] l.k = "rest" -> << <<>>, <<1>>, <<0, 2>> >>
    [] l.k = "struct" ->
         LET base == Base(l)
             Vary(i) == LET inner == Samples(l.w[i][2])
                        IN [j \in DOMAIN inner |->
                              [base EXCEPT ![l.w[i][1]] = inner[j]]]
         IN IF l.w = <<>> THEN <<base>>
            ELSE FlattenSeq([i \in DOMAIN l.w |-> Vary(i)])
    [] l.k \in {"choice", "peek"} ->
         LET tags == SelectSeq([i \in 1..MaxTag |-> i - 1], LAMBDA t : t \in DOMAIN l.of)
             Body(t) == LET inner == Samples(l.of[t])
                        IN [j \in DOMAIN inner |-> [tag |-> t, body |-> inner[j]]]
         IN FlattenSeq([i \in DOMAIN tags |-> Body(tags[i])])
    [] l.k = "checked" -> l.samples
    [] l.k = "ref" -> Samples(Named[l.to])
    [] OTHER -> Samples(l.of)

----------------------------------------------------------------------------
(* Encoding.                                                               *)

RECURSIVE Enc(_, _)
\* List: the live length, then each entry.
EncList(l, v) == <<Len(v)>> \o FlattenSeq([i \in DOMAIN v |-> Enc(l.of, v[i])])

\* Option: one presence byte, then the value only when it is there.
EncOption(l, v) == IF v = <<>> THEN <<Absent>> ELSE <<Present>> \o Enc(l.of, v[1])

EncFrame(e) == <<Len(e)>> \o e
EncFramed(l, v) == EncFrame(Enc(l.of, v))

\* Every field in the order the encoder writes it.
EncFields(l, v) == FlattenSeq([i \in DOMAIN l.w |-> Enc(l.w[i][2], v[l.w[i][1]])])

Enc(l, v) ==
  CASE l.k = "cell" -> <<v>>
    [] l.k = "opt" -> EncOption(l, v)
    [] l.k \in {"list", "map"} -> EncList(l, v)
    [] l.k = "array" -> FlattenSeq([i \in DOMAIN v |-> Enc(l.of, v[i])])
    [] l.k = "rest" -> v
    [] l.k = "framed" -> EncFramed(l, v)
    [] l.k = "at_end" -> IF v = <<>> THEN <<>> ELSE EncOption(l, v)
    [] l.k = "struct" -> EncFields(l, v)
    [] l.k = "choice" -> <<v.tag>> \o Enc(l.of[v.tag], v.body)
    [] l.k = "peek" -> Enc(l.of[v.tag], v.body)
    [] l.k = "ref" -> Enc(Named[l.to], v)
    [] OTHER -> Enc(l.of, v)

\* The value of the longest encoding: every option present, every list full,
\* the longest variant.
RECURSIVE Widest(_)
Widest(l) ==
  CASE l.k = "cell" -> l.gen[1]
    [] l.k \in {"opt", "at_end"} -> <<Widest(l.of)>>
    [] l.k = "map" -> <<Widest(l.of)>>
    [] l.k \in {"list", "array"} ->
         LET inner == Widest(l.of) IN [i \in 1..l.max |-> inner]
    [] l.k = "rest" -> <<0, 2>>
    [] l.k = "struct" ->
         [n \in {l.w[i][1] : i \in DOMAIN l.w} |->
            Widest(l.w[CHOOSE i \in DOMAIN l.w : l.w[i][1] = n][2])]
    [] l.k \in {"choice", "peek"} ->
         LET wide == [t \in DOMAIN l.of |-> Widest(l.of[t])]
             size == [t \in DOMAIN l.of |-> Len(Enc(l.of[t], wide[t]))]
             t == CHOOSE t \in DOMAIN l.of : \A u \in DOMAIN l.of : size[u] <= size[t]
         IN [tag |-> t, body |-> wide[t]]
    [] l.k = "checked" -> l.samples[1]
    [] l.k = "ref" -> Widest(Named[l.to])
    [] OTHER -> Widest(l.of)

----------------------------------------------------------------------------
(* Decoding: the value and how many cells it took, or a refusal.           *)

Fail == [ok |-> FALSE, v |-> <<>>, n |-> 0]
Got(v, n) == [ok |-> TRUE, v |-> v, n |-> n]
After(b, n) == SubSeq(b, n + 1, Len(b))

RECURSIVE Dec(_, _), DecRun(_, _, _), DecFields(_, _, _, _)
DecCell(l, b) == IF b = <<>> THEN Fail
                 ELSE IF Head(b) \in l.ok THEN Got(Head(b), 1) ELSE Fail

DecThen(d, v, n) == IF d.ok THEN Got(v, n) ELSE Fail

DecOption(l, b) ==
  IF b = <<>> THEN Fail
  ELSE IF Head(b) = Absent THEN Got(<<>>, 1)
  ELSE IF Head(b) # Present THEN Fail
  ELSE LET d == Dec(l.of, Tail(b)) IN DecThen(d, <<d.v>>, d.n + 1)

\* count entries, one after the other
DecRun(l, count, b) ==
  IF count = 0 THEN Got(<<>>, 0)
  ELSE LET d == Dec(l, b)
           rest == IF d.ok THEN DecRun(l, count - 1, After(b, d.n)) ELSE Fail
       IN DecThen(rest, <<d.v>> \o rest.v, d.n + rest.n)

DecList(l, b) ==
  IF b = <<>> \/ Head(b) \notin l.min..l.max THEN Fail
  ELSE LET d == DecRun(l.of, Head(b), Tail(b)) IN DecThen(d, d.v, d.n + 1)

\* A map read entry by entry: a second entry under one key is refused, and
\* the map keeps its keys in order.
DecMap(l, b) ==
  LET d == DecList(l, b)
      keys == {KeyOf(l, d.v[i]) : i \in DOMAIN d.v}
  IN IF d.ok /\ Cardinality(keys) = Len(d.v)
     THEN Got(SortSeq(d.v, LAMBDA x, y : KeyOf(l, x) < KeyOf(l, y)), d.n) ELSE Fail

\* decode_field: every field read where the last one stopped
DecFields(fields, b, v, n) ==
  IF fields = <<>> THEN Got(v, n)
  ELSE LET d == Dec(fields[1][2], b)
       IN IF d.ok
          THEN DecFields(Tail(fields), After(b, d.n),
                         [m \in DOMAIN v \cup {fields[1][1]} |->
                            IF m = fields[1][1] THEN d.v ELSE v[m]], n + d.n)
          ELSE Fail

\* A variant byte, then the body it names.
DecChoice(l, b) ==
  IF b = <<>> \/ Head(b) \notin DOMAIN l.of THEN Fail
  ELSE LET d == Dec(l.of[Head(b)], Tail(b))
       IN DecThen(d, [tag |-> Head(b), body |-> d.v], d.n + 1)

\* peek_envelope_tag: the envelope's tag chooses the decoder.
DecPeek(l, b) ==
  IF Len(b) < 2 \/ b[2] \notin DOMAIN l.of THEN Fail
  ELSE LET d == Dec(l.of[b[2]], b)
       IN DecThen(d, [tag |-> b[2], body |-> d.v], d.n)

DecChecked(l, b) ==
  LET d == Dec(l.of, b)
  IN IF d.ok /\ Accepts(l.name, d.v) THEN d ELSE Fail

\* The n cells after the first `from`, all of them one value.
DecTaken(l, from, n, b) ==
  IF Len(b) < from + n THEN Fail
  ELSE LET d == Dec(l, SubSeq(b, from + 1, from + n))
       IN IF d.ok /\ d.n = n THEN Got(d.v, from + n) ELSE Fail

DecFramed(l, b) == IF b = <<>> THEN Fail ELSE DecTaken(l.of, 1, Head(b), b)

DecAtEnd(l, b) == IF b = <<>> THEN Got(<<>>, 0)
                 ELSE IF Head(b) = Absent THEN Fail ELSE DecOption(l, b)

Dec(l, b) ==
  CASE l.k = "cell" -> DecCell(l, b)
    [] l.k = "opt" -> DecOption(l, b)
    [] l.k = "list" -> DecList(l, b)
    [] l.k = "map" -> DecMap(l, b)
    [] l.k = "array" -> DecRun(l.of, l.max, b)
    [] l.k = "rest" -> Got(b, Len(b))
    [] l.k = "framed" -> DecFramed(l, b)
    [] l.k = "fixed" -> DecTaken(l.of, 0, l.size, b)
    [] l.k = "at_end" -> DecAtEnd(l, b)
    [] l.k = "struct" -> DecFields(l.r, b, <<>>, 0)
    [] l.k = "choice" -> DecChoice(l, b)
    [] l.k = "peek" -> DecPeek(l, b)
    [] l.k = "checked" -> DecChecked(l, b)
    [] l.k = "ref" -> Dec(Named[l.to], b)
    [] OTHER -> Dec(l.of, b)

\* decode_exact: the value takes the whole buffer.
DecExact(l, b) ==
  LET d == Dec(l, b) IN IF d.ok /\ d.n = Len(b) THEN d ELSE Fail

----------------------------------------------------------------------------
(* The machine.                                                            *)

Unread == [ok |-> FALSE, n |-> -1, v |-> <<>>]

Init ==
  \E k \in DOMAIN Layouts :
  \E all \in {Append(Samples(Layouts[k]), Widest(Layouts[k]))} :
    \E i \in DOMAIN all :
      /\ kind = k
      /\ sent = all[i]
      /\ buf = Enc(Layouts[k], all[i])
      /\ faults = 0
      /\ read = Unread

MaxFaults == CASE kind \in Stored -> StoredFaults
               [] kind \in Hashed \cup Checkpoints -> 0
               [] OTHER -> Faults
Cells == IF kind \in Stored THEN StoredAlphabet ELSE Alphabet

Damage(b) == /\ read.n = -1
             /\ faults < MaxFaults
             /\ buf' = b
             /\ faults' = faults + 1
             /\ UNCHANGED <<kind, sent, read>>

Overwrite == kind \notin Hashed /\ \E i \in DOMAIN buf, c \in Cells :
               buf[i] # c /\ Damage([buf EXCEPT ![i] = c])
Truncate == buf # <<>> /\ Damage(SubSeq(buf, 1, Len(buf) - 1))
Extend == \E c \in Cells : Damage(Append(buf, c))
Receive == /\ read.n = -1
           /\ kind \notin Hashed
           /\ read' = DecExact(Layouts[kind], buf)
           /\ UNCHANGED <<kind, sent, buf, faults>>

Next == Overwrite \/ Truncate \/ Extend \/ Receive

Spec == Init /\ [][Next]_vars

----------------------------------------------------------------------------
(* Properties.                                                             *)

\* What an encoder writes, its decoder reads back to the same value: the two
\* bodies of Encode and Decode, written apart, list the same fields.
RoundTrip == read.n # -1 /\ faults = 0 => read.ok /\ read.v = sent

\* One value, one encoding: whatever buffer a decoder accepts, damaged ones
\* included, is the buffer its value encodes to (the promise the registry's
\* hashes and the state root rest on).
Canonical ==
  kind \notin Checkpoints /\ read.ok =>
    Enc(Layouts[kind], read.v) = buf

\* No accepted buffer continues another: decode stops at the same cell
\* whatever follows, which lets fields be read one after the other and
\* preimages be concatenated.
SelfDelimiting ==
  kind \in Stored /\ read.ok =>
    \A n \in 0..(Len(buf) - 1) : ~Dec(Layouts[kind], SubSeq(buf, 1, n)).ok

\* A buffer is accepted as at most one of the enveloped types: a record of
\* one type is never mistaken for one of another.
OneKind ==
  kind \in Stored /\ Layouts[kind].k = "sealed" /\ read.ok =>
    \A k \in Stored \ {kind} :
      Layouts[k].k = "sealed" => ~DecExact(Layouts[k], buf).ok

\* Every encoding fits the buffer its MAX_ENCODED_SIZE declares, where
\* write_to would panic.
FitsBuffer ==
  Layouts[kind].k = "sealed" /\ faults = 0 => Len(buf) <= Layouts[kind].max

\* Two different commitments never hash the same bytes: neither two calls of
\* one hashing function with different arguments (a coin moved from one
\* side's inputs to the other's, another network) nor calls of two different
\* ones.  An edge, coin or chunk identifier names one thing, and a signature
\* made for one purpose is none for another.
PreimagesDiffer(samples, cells) ==
  kind \in Hashed =>
    \A k \in Hashed : \A i \in DOMAIN cells[k] :
      cells[k][i] = buf => k = kind /\ samples[k][i] = sent
=============================================================================
