----------------------------- MODULE MCChannel -----------------------------
(***************************************************************************)
(* Instances of Channel.  Nobody asks to close unless asked is TRUE: then  *)
(* both callers may, of a channel that serves a retained job, and the      *)
(* contest is the endpoints' own.                                          *)
(***************************************************************************)
EXTENDS Channel

CONSTANT Askings    \* the values asked may have: a subset of BOOLEAN

VARIABLE asked

Offer(acceptance, terminal, payment, price, retain) ==
  [acceptance |-> acceptance, terminal |-> terminal, payment |-> payment,
   price |-> price, retain |-> retain]

\* One job, with retained or ephemeral content
OneJob == <<{Offer(1, 2, 3, 1, TRUE)}>>
OneEphemeralJob == <<{Offer(1, 2, 3, 1, FALSE)}>>

\* A retained job and a dearer ephemeral one a block behind it
TwoJobs == <<{Offer(0, 1, 2, 1, TRUE)}, {Offer(1, 2, 3, 2, FALSE)}>>

BothRoles == Role

Asked == INSTANCE Channel WITH
  Offers <- OneJob, Closers <- Role, FreezePayouts <- {}, Omissions <- {}, MaxTxs <- 2

MCInit == asked \in Askings /\ Init

UnaskedStep == ~asked /\ Next /\ UNCHANGED asked

AskedStep == asked /\ Asked!Next /\ UNCHANGED asked

MCNext == UnaskedStep \/ AskedStep

MCSpec == MCInit /\ [][MCNext]_<<vars, asked>>
=============================================================================
