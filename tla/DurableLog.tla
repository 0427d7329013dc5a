----------------------------- MODULE DurableLog -----------------------------
(* What a durable store promises its owner, whatever it does with files, generations and
   checkpoints: a log of records that only grows at its end, and a prefix of it, `known`, that the
   owner has acted on.  Only a loss of power, on a store that does not flush each commit, takes
   records back, and then from the end. *)
EXTENDS Naturals, Sequences

CONSTANTS Fact, Flushes

VARIABLES log, known

vars == <<log, known>>

Init == log = <<>> /\ known = 0

\* A record becomes durable.  Nobody has been told yet.
Grow ==
  /\ \E r \in Fact : log' = Append(log, r)
  /\ UNCHANGED known

\* The owner learns that everything in the log is durable, and may export what it authorises.
Acknowledge ==
  /\ known' = Len(log)
  /\ UNCHANGED log

\* Power is lost before the operating system has written the last commits.
Lose ==
  /\ ~Flushes
  /\ \E n \in 0..Len(log) :
       /\ log' = SubSeq(log, 1, n)
       /\ known' = IF n < known THEN n ELSE known

Next == Grow \/ Acknowledge \/ Lose

Spec == Init /\ [][Next]_vars
=============================================================================
