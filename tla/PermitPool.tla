----------------------------- MODULE PermitPool -----------------------------
(***************************************************************************)
(* The permit pool of the work response route (crates/rpc/src/call.rs),    *)
(* step by step: an atomic counter of available permits, and a mutex over  *)
(* the wakers of tasks that found it empty.  A permit is returned to the   *)
(* counter first; the wakers are taken and woken after it.                 *)
(***************************************************************************)
EXTENDS Integers, FiniteSets, FiniteSetTheorems, TLAPS

CONSTANTS
  Tasks,
  Size,              \* permits of the pool
  MaxRounds          \* acquisitions per task

ASSUME PoolAssumption == Size \in Nat \ {0} /\ IsFiniteSet(Tasks) /\ "free" \notin Tasks

VARIABLES
  available, waiters, lock,
  pc,                \* where each task is
  rounds

vars == <<available, waiters, lock, pc, rounds>>

Free == "free"

Init ==
  /\ available = Size /\ waiters = {} /\ lock = Free
  /\ pc = [t \in Tasks |-> "idle"]
  /\ rounds = [t \in Tasks |-> 0]

Go(t, at) == pc' = [pc EXCEPT ![t] = at]

\* acquire: a new future is polled
Acquire(t) ==
  /\ pc[t] = "idle" /\ rounds[t] < MaxRounds
  /\ Go(t, "try") /\ rounds' = [rounds EXCEPT ![t] = @ + 1]
  /\ UNCHANGED <<available, waiters, lock>>

\* AcquirePermit::poll, the first try_acquire
Try(t) ==
  /\ pc[t] = "try"
  /\ IF available > 0 THEN available' = available - 1 /\ Go(t, "held")
     ELSE UNCHANGED available /\ Go(t, "lock")
  /\ UNCHANGED <<waiters, lock, rounds>>

\* The mutex over the wakers
Lock(t) ==
  /\ pc[t] = "lock" /\ lock = Free
  /\ lock' = t /\ Go(t, "again")
  /\ UNCHANGED <<available, waiters, rounds>>

\* Mutant: the counter is not looked at again under the lock
AgainBlind(t) ==
  /\ pc[t] = "again" /\ Go(t, "push")
  /\ UNCHANGED <<available, waiters, lock, rounds>>

\* The second try_acquire, under the lock
Again(t) ==
  /\ pc[t] = "again"
  /\ IF available > 0 THEN available' = available - 1 /\ lock' = Free /\ Go(t, "held")
     ELSE UNCHANGED <<available, lock>> /\ Go(t, "push")
  /\ UNCHANGED <<waiters, rounds>>

\* The waker is registered and the future is pending
Push(t) ==
  /\ pc[t] = "push"
  /\ waiters' = waiters \cup {t} /\ lock' = Free /\ Go(t, "asleep")
  /\ UNCHANGED <<available, rounds>>

\* A future that is dropped leaves its waker behind
Cancel(t) ==
  /\ pc[t] \in {"try", "asleep"} /\ Go(t, "idle")
  /\ UNCHANGED <<available, waiters, lock, rounds>>

\* Drop for PoolPermit: the counter
Return(t) ==
  /\ pc[t] = "held"
  /\ available' = available + 1 /\ Go(t, "drop")
  /\ UNCHANGED <<waiters, lock, rounds>>

\* Mutant: one waiter is woken and every waker is forgotten
WakeOne(t) ==
  /\ pc[t] = "drop" /\ lock = Free /\ waiters' = {}
  /\ \E u \in waiters \cup {t} :
       pc' = [v \in Tasks |-> IF v = t THEN "idle"
                              ELSE IF v = u /\ pc[v] = "asleep" THEN "try" ELSE pc[v]]
  /\ UNCHANGED <<available, lock, rounds>>

\* Drop for PoolPermit: every waker is taken, and woken
Wake(t) ==
  /\ pc[t] = "drop" /\ lock = Free /\ waiters' = {}
  /\ pc' = [v \in Tasks |-> IF v = t THEN "idle"
                            ELSE IF v \in waiters /\ pc[v] = "asleep" THEN "try" ELSE pc[v]]
  /\ UNCHANGED <<available, lock, rounds>>

Step(t) ==
  Try(t) \/ Lock(t) \/ Again(t) \/ Push(t) \/ Return(t) \/ Wake(t)

Next == \E t \in Tasks : Step(t) \/ Acquire(t) \/ Cancel(t)

\* Every ready task is polled and every permit is returned
Spec == Init /\ [][Next]_vars /\ \A t \in Tasks : WF_vars(Step(t))

---------------------------------------------------------------------------

Places == {"idle", "try", "lock", "again", "push", "asleep", "held", "drop"}

TypeOK ==
  /\ available \in Nat
  /\ waiters \subseteq Tasks
  /\ lock \in Tasks \cup {Free}
  /\ pc \in [Tasks -> Places]

\* Who is under the mutex
Inside(t) == pc[t] \in {"again", "push"}

\* The mutex admits one task
MutualExclusion == \A t \in Tasks : Inside(t) <=> lock = t

\* No wake-up is lost: a task that sleeps has its waker in the pool, and while
\* a permit is available next to a sleeping task, the permit's owner has yet to
\* take the wakers (AcquirePermit::poll, Drop for PoolPermit)
NoLostWakeup ==
  /\ \A t \in Tasks : pc[t] = "asleep" => t \in waiters
  /\ available > 0 /\ (\E t \in Tasks : pc[t] \in {"asleep", "push"})
       => \E u \in Tasks : pc[u] = "drop"

\* Every permit is available or held
PermitsConserved == available + Cardinality({t \in Tasks : pc[t] = "held"}) = Size

---------------------------------------------------------------------------
\* The pool forgets nobody and mints nothing: a sleeping task has its waker registered
\* and sees no permit lie idle, and permits free and held add up to the pool.
PermitsAreKept ==
  TypeOK /\ NoLostWakeup /\ PermitsConserved

---------------------------------------------------------------------------
(* For any number of tasks and permits: the pool loses no wake-up and no   *)
(* permit.                                                                 *)

Inv == TypeOK /\ MutualExclusion /\ NoLostWakeup

Holders == {t \in Tasks : pc[t] = "held"}

\* Initially nobody waits
LEMMA InitInv == Init => Inv
BY PoolAssumption
   DEF Init, Inv, TypeOK, MutualExclusion, NoLostWakeup, Inside, Free, Places

\* Every step of every task keeps the mutex and the waker rule.  The case that
\* matters is Wake: it runs with the mutex free, so nobody is about to register
\* a waker that it would miss
LEMMA NextInv == Inv /\ [Next]_vars => Inv'
<1> SUFFICES ASSUME Inv, [Next]_vars PROVE Inv'
  OBVIOUS
<1> USE DEF Inv, TypeOK, MutualExclusion, NoLostWakeup, Inside, Places, Go
<1>1. CASE UNCHANGED vars
  BY <1>1 DEF vars
<1>2. ASSUME NEW t \in Tasks, Acquire(t) PROVE Inv'
  BY <1>2 DEF Acquire
<1>3. ASSUME NEW t \in Tasks, Try(t) PROVE Inv'
  <2>1. CASE available > 0
    BY <1>3, <2>1 DEF Try
  <2>2. CASE ~(available > 0)
    BY <1>3, <2>2 DEF Try
  <2> QED BY <2>1, <2>2
<1>4. ASSUME NEW t \in Tasks, Lock(t) PROVE Inv'
  BY <1>4, PoolAssumption DEF Lock, Free
<1>5. ASSUME NEW t \in Tasks, Again(t) PROVE Inv'
  <2>1. CASE available > 0
    BY <1>5, <2>1, PoolAssumption DEF Again, Free
  <2>2. CASE ~(available > 0)
    BY <1>5, <2>2 DEF Again
  <2> QED BY <2>1, <2>2
<1>6. ASSUME NEW t \in Tasks, Push(t) PROVE Inv'
  BY <1>6, PoolAssumption DEF Push, Free
<1>7. ASSUME NEW t \in Tasks, Cancel(t) PROVE Inv'
  BY <1>7 DEF Cancel
<1>8. ASSUME NEW t \in Tasks, Return(t) PROVE Inv'
  BY <1>8 DEF Return
<1>9. ASSUME NEW t \in Tasks, Wake(t) PROVE Inv'
  BY <1>9, PoolAssumption DEF Wake, Free
<1> QED
  BY <1>1, <1>2, <1>3, <1>4, <1>5, <1>6, <1>7, <1>8, <1>9 DEF Next, Step

\* A task that finds the pool empty and goes to sleep is woken by the next
\* permit that is returned, for every number of tasks and permits
\* (AcquirePermit::poll against Drop for PoolPermit)
THEOREM WakeupsAreKept == Spec => []NoLostWakeup
<1>1. Inv => NoLostWakeup
  BY DEF Inv
<1> QED
  BY <1>1, InitInv, NextInv, PTL DEF Spec

\* A task that takes a permit is one holder more
LEMMA Takes ==
  ASSUME TypeOK, NEW t \in Tasks, pc[t] # "held", pc' = [pc EXCEPT ![t] = "held"]
  PROVE  Cardinality(Holders') = Cardinality(Holders) + 1
<1>1. Holders' = Holders \cup {t} /\ t \notin Holders
  BY DEF Holders, TypeOK
<1>2. IsFiniteSet(Holders)
  BY PoolAssumption, FS_Subset DEF Holders
<1> QED BY <1>1, <1>2, FS_AddElement, Zenon

\* A task that moves without one leaves the holders alone
LEMMA Moves ==
  ASSUME TypeOK, NEW t \in Tasks, NEW at, pc[t] # "held", at # "held",
         pc' = [pc EXCEPT ![t] = at]
  PROVE  Holders' = Holders
BY DEF Holders, TypeOK

LEMMA HoldersCount == Cardinality(Holders) \in Nat
BY PoolAssumption, FS_Subset, FS_CardinalityType DEF Holders

Count == TypeOK /\ available + Cardinality(Holders) = Size

\* Each step moves at most one permit between the counter and a task
LEMMA NextCount == Inv /\ Count /\ [Next]_vars => available' + Cardinality(Holders') = Size
<1> SUFFICES ASSUME Inv, Count, [Next]_vars PROVE available' + Cardinality(Holders') = Size
  OBVIOUS
<1> USE HoldersCount, PoolAssumption DEF Count
<1>t. TypeOK
  BY DEF Inv
<1>1. CASE UNCHANGED vars
  BY <1>1 DEF vars, Holders
<1>2. ASSUME NEW t \in Tasks, Acquire(t) PROVE available' + Cardinality(Holders') = Size
  BY <1>2, <1>t, Moves, Zenon DEF Acquire, Go
<1>3. ASSUME NEW t \in Tasks, Try(t) PROVE available' + Cardinality(Holders') = Size
  <2>1. CASE available > 0
    <3>1. available' = available - 1 /\ Cardinality(Holders') = Cardinality(Holders) + 1
      BY <1>3, <1>t, <2>1, Takes DEF Try, Go
    <3> QED BY <3>1, <1>t DEF TypeOK
  <2>2. CASE ~(available > 0)
    BY <1>3, <1>t, <2>2, Moves DEF Try, Go
  <2> QED BY <2>1, <2>2
<1>4. ASSUME NEW t \in Tasks, Lock(t) PROVE available' + Cardinality(Holders') = Size
  BY <1>4, <1>t, Moves, Zenon DEF Lock, Go
<1>5. ASSUME NEW t \in Tasks, Again(t) PROVE available' + Cardinality(Holders') = Size
  <2>1. CASE available > 0
    <3>1. available' = available - 1 /\ Cardinality(Holders') = Cardinality(Holders) + 1
      BY <1>5, <1>t, <2>1, Takes DEF Again, Go
    <3> QED BY <3>1, <1>t DEF TypeOK
  <2>2. CASE ~(available > 0)
    BY <1>5, <1>t, <2>2, Moves DEF Again, Go
  <2> QED BY <2>1, <2>2
<1>6. ASSUME NEW t \in Tasks, Push(t) PROVE available' + Cardinality(Holders') = Size
  BY <1>6, <1>t, Moves, Zenon DEF Push, Go
<1>7. ASSUME NEW t \in Tasks, Cancel(t) PROVE available' + Cardinality(Holders') = Size
  BY <1>7, <1>t, Moves, Zenon DEF Cancel, Go
<1>8. ASSUME NEW t \in Tasks, Return(t) PROVE available' + Cardinality(Holders') = Size
  <2>1. Holders' = Holders \ {t} /\ t \in Holders
    BY <1>8, <1>t DEF Return, Go, Holders, TypeOK
  <2>2. IsFiniteSet(Holders)
    BY FS_Subset DEF Holders
  <2>3. Cardinality(Holders') = Cardinality(Holders) - 1
    BY <2>1, <2>2, FS_RemoveElement, Zenon
  <2> QED BY <1>8, <2>3, <1>t DEF Return, TypeOK
<1>9. ASSUME NEW t \in Tasks, Wake(t) PROVE available' + Cardinality(Holders') = Size
  <2>1. Holders' = Holders
    BY <1>9, <1>t DEF Wake, Holders, TypeOK
  <2> QED BY <1>9, <2>1 DEF Wake
<1> QED
  BY <1>1, <1>2, <1>3, <1>4, <1>5, <1>6, <1>7, <1>8, <1>9 DEF Next, Step

\* No permit is lost or made up, whichever futures are dropped on the way
\* (try_acquire, Drop for PoolPermit)
THEOREM PermitsAreConserved == Spec => []PermitsConserved
<1> DEFINE Both == Inv /\ Count
<1>1. Init => Both
  <2> SUFFICES ASSUME Init PROVE Both
    OBVIOUS
  <2>1. Holders = {}
    BY DEF Init, Holders
  <2>2. available + Cardinality(Holders) = Size
    BY <2>1, FS_EmptySet, PoolAssumption DEF Init
  <2> QED BY <2>2, InitInv DEF Count, Inv
<1>2. Both /\ [Next]_vars => Both'
  <2> SUFFICES ASSUME Both, [Next]_vars PROVE Both'
    OBVIOUS
  <2>1. Inv'
    BY NextInv
  <2>2. (available + Cardinality(Holders) = Size)'
    BY NextCount
  <2> QED BY <2>1, <2>2 DEF Count, Inv
<1>3. Both => PermitsConserved
  BY DEF PermitsConserved, Holders, Count
<1> HIDE DEF Both
<1> QED
  BY <1>1, <1>2, <1>3, PTL DEF Spec

\* The pool forgets nobody and mints nothing, for every number of tasks and permits.
THEOREM PoolKeepsItsPermits == Spec => []PermitsAreKept
<1>1. Inv => TypeOK
  BY DEF Inv
<1>2. Spec => []TypeOK
  BY <1>1, InitInv, NextInv, PTL DEF Spec
<1> QED
  BY <1>2, WakeupsAreKept, PermitsAreConserved, PTL DEF PermitsAreKept
=============================================================================
