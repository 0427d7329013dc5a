------------------------------ MODULE GrantLedger ------------------------------
(****************************************************************************)
(* Ancestor accounting of a node's allowances: the value Ledger of          *)
(* authority/src/work_store/grant/ledger.rs and the operations on it.       *)
(*                                                                          *)
(* A ledger is a record: nodes maps each configured budget to its parent,   *)
(* revision, limits, concurrency and counters; held maps each open job to   *)
(* the path and the charge it reserved; high is the latest time seen.       *)
(* Every operation either answers a new ledger or is refused; the refusal   *)
(* is a predicate (Can...) and leaves the ledger alone.                     *)
(****************************************************************************)
EXTENDS Integers, FiniteSets, Sequences, FiniteSetsExt, Functions, TLC

CONSTANTS
  Machine, Accounts, Pools, Subjects,  \* BudgetNode
  NoParent,       \* parent: None
  PoolOf,         \* the pool in a subject's identity
  Meters,         \* Meter::ALL
  Windows,        \* a subset of {"hour", "day", "week", "total"}
  HourMillis, DayMillis,
  MaxPathLen,     \* MAX_BUDGET_PATH_LEN
  MaxNodes,       \* MAX_BUDGET_NODES
  MaxConcurrent,  \* MAX_CONCURRENT
  MaxCount        \* u64::MAX, at which a counter saturates

BudgetNodes == {Machine} \cup Accounts \cup Pools \cup Subjects
\* ISO weeks start on Monday and the epoch was a Thursday.
WindowId(w, time) ==
  CASE w = "hour"  -> time \div HourMillis
    [] w = "day"   -> time \div DayMillis
    [] w = "week"  -> (time \div DayMillis + 3) \div 7
    [] w = "total" -> 0

\* Two subjects of a pool are budgets of different principals.
ValidParent(n, p) ==
  \/ n \in Accounts /\ p = Machine
  \/ n \in Pools /\ p \in Accounts
  \/ n \in Subjects /\ p \in Pools /\ PoolOf[n] = p
  \/ n \in Subjects /\ p \in Subjects /\ PoolOf[n] = PoolOf[p] /\ n # p

EmptyLedger == [nodes |-> <<>>, held |-> <<>>, high |-> 0]

Exceeds(charge, bound) == \E m \in Meters : charge[m] > bound[m]
Saturated(n) == IF n > MaxCount THEN MaxCount ELSE n

(****************************************************************************)
(* Path(l, n) is the path from the machine to n, of at most MaxPathLen      *)
(* nodes; the empty sequence stands for LedgerError.                        *)
(****************************************************************************)
Path(l, n) ==
  LET chain[k \in 1..MaxPathLen] ==
        IF k = 1 THEN <<n>>
        ELSE LET c == chain[k - 1]
             IN IF Head(c) \in DOMAIN l.nodes /\ l.nodes[Head(c)].parent # NoParent
                THEN <<l.nodes[Head(c)].parent>> \o c ELSE c
      path == chain[MaxPathLen]
  IN IF /\ n \in DOMAIN l.nodes /\ path[1] = Machine /\ Range(path) \subseteq DOMAIN l.nodes
        /\ l.nodes[Machine].parent = NoParent /\ l.nodes[Machine].revision = 0
        /\ \A i \in 2..Len(path) :
             ValidParent(path[i], path[i - 1]) /\ l.nodes[path[i]].revision > 0
     THEN path ELSE <<>>

(****************************************************************************)
(* Counters and exposure.                                                   *)
(****************************************************************************)
\* Mutant: a new window keeps what the last one used.
CounterNeverReset(counter, w, time) ==
  IF WindowId(w, time) > counter.window
  THEN [counter EXCEPT !.window = WindowId(w, time)]
  ELSE counter

CounterAt(counter, w, time) ==
  IF WindowId(w, time) > counter.window
  THEN [window |-> WindowId(w, time), used |-> 0]
  ELSE counter

AdvanceNode(node, time) ==
  [node EXCEPT !.counters =
     [m \in Meters |-> [w \in Windows |-> CounterAt(node.counters[m][w], w, time)]]]

AdvanceBy(l, time) ==
  LET high == IF time > l.high THEN time ELSE l.high
  IN [l EXCEPT !.high = high,
               !.nodes = [n \in DOMAIN l.nodes |-> AdvanceNode(l.nodes[n], high)]]

On(l, n) == {j \in DOMAIN l.held : n \in Range(l.held[j].path)}
ActiveCount(l, n) == Cardinality(On(l, n))
Reserved(l, n, m) ==
  Saturated(MapThenSumSet(LAMBDA j : l.held[j].charge[m], On(l, n)))

RemainingAt(l, n, limit, time) ==
  LET at == IF time > l.high THEN time ELSE l.high
      used == CounterAt(l.nodes[n].counters[limit.meter][limit.window], limit.window, at).used
      left == limit.amount - used - Reserved(l, n, limit.meter)
  IN IF left < 0 THEN 0 ELSE left

(****************************************************************************)
(* Configuration: limits and concurrency change, counters never do.         *)
(****************************************************************************)
ValidLimits(limits, concurrent) ==
  /\ concurrent \in 1..MaxConcurrent
  /\ \A x, y \in limits : x.meter = y.meter /\ x.window = y.window => x = y

Configured(l, n, limits, concurrent) ==
  LET fresh == [parent |-> NoParent, revision |-> 0, limits |-> limits,
                concurrent |-> concurrent,
                counters |-> [m \in Meters |-> [w \in Windows |-> [window |-> 0, used |-> 0]]]]
  IN IF n \in DOMAIN l.nodes
     THEN [l EXCEPT !.nodes[n].limits = limits, !.nodes[n].concurrent = concurrent]
     ELSE [l EXCEPT !.nodes = @ @@ (n :> AdvanceNode(fresh, l.high))]

CanConfigureBudget(l, def) ==
  /\ ValidParent(def.node, def.parent)
  /\ Path(l, def.parent) # <<>>
  /\ Len(Path(l, def.parent)) < MaxPathLen
  /\ IF def.node \in DOMAIN l.nodes
     THEN /\ l.nodes[def.node].parent = def.parent
          /\ def.revision = l.nodes[def.node].revision + 1
     ELSE /\ def.revision = 1
          /\ Cardinality(DOMAIN l.nodes) < MaxNodes
  /\ ValidLimits(def.limits, def.concurrent)

ConfiguredBudget(l, def) ==
  [Configured(l, def.node, def.limits, def.concurrent) EXCEPT
     !.nodes[def.node].parent = def.parent, !.nodes[def.node].revision = def.revision]

(****************************************************************************)
(* A job's reservation: checked at every ancestor before it is held.        *)
(****************************************************************************)
Affords(l, n, charge) ==
  /\ ActiveCount(l, n) < l.nodes[n].concurrent
  /\ \A m \in Meters : Reserved(l, n, m) + charge[m] =< MaxCount
  /\ \A limit \in l.nodes[n].limits :
       l.nodes[n].counters[limit.meter][limit.window].used
         + Reserved(l, n, limit.meter) + charge[limit.meter] =< limit.amount

\* The counters the check reads are advanced to the time of the request first.
CanReserve(l, job, subject, charge, time) ==
  LET path == Path(l, subject)
      advanced == AdvanceBy(l, time)
  IN /\ job \notin DOMAIN l.held
     /\ subject \in Subjects
     /\ path # <<>>
     /\ \A n \in Range(path) : Affords(advanced, n, charge)

HoldFor(l, job, subject, charge, time) ==
  [AdvanceBy(l, time) EXCEPT
     !.held = @ @@ (job :> [path |-> Path(l, subject), charge |-> charge])]

WithoutHeld(l, job) == [l EXCEPT !.held = [j \in DOMAIN @ \ {job} |-> @[j]]]

\* Unknown usage is charged at the reserved bound, observed usage as it is,
\* on every window of every budget of the path that was reserved.
ChargedNode(node, actual) ==
  [node EXCEPT !.counters =
     [m \in Meters |-> [w \in Windows |->
        [@[m][w] EXCEPT !.used = Saturated(@ + actual[m])]]]]

SettledAt(l, job, actual, time) ==
  LET a == AdvanceBy(WithoutHeld(l, job), time)
  IN [a EXCEPT !.nodes =
        [n \in DOMAIN a.nodes |->
           IF n \in Range(l.held[job].path) THEN ChargedNode(a.nodes[n], actual) ELSE a.nodes[n]]]

Overrun(l, job, actual) == Exceeds(actual, l.held[job].charge)

Released(l, job) == WithoutHeld(l, job)

\* What a checkpoint must satisfy to be restored: the held reservations are
\* those of the open jobs, on the paths of their budgets, and every counter
\* stands in the window of the high-water time.
ValidReservations(l, subjectOf) ==
  /\ DOMAIN l.held = DOMAIN subjectOf
  /\ \A j \in DOMAIN l.held :
       /\ subjectOf[j] \in Subjects
       /\ Path(l, subjectOf[j]) # <<>>
       /\ l.held[j].path = Path(l, subjectOf[j])
  /\ Cardinality(DOMAIN l.nodes) =< MaxNodes
  /\ \A n \in DOMAIN l.nodes :
       /\ Path(l, n) # <<>>
       /\ ValidLimits(l.nodes[n].limits, l.nodes[n].concurrent)
       /\ \A m \in Meters, w \in Windows :
            l.nodes[n].counters[m][w].window = WindowId(w, l.high)
==============================================================================
