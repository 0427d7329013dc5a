------------------------------- MODULE LedgerBook ------------------------------
(****************************************************************************)
(* The grant ledger as a state machine: budgets are configured and          *)
(* reconfigured, time passes, jobs reserve, settle and are released.        *)
(*                                                                          *)
(* paid and excused are history variables.  paid records what each settled  *)
(* job was charged, on which path and when.  excused collects the budgets   *)
(* whose present exposure the ledger never agreed to: their terms changed   *)
(* under live exposure, or a backend overran its bound.                     *)
(****************************************************************************)
EXTENDS GrantLedger

CONSTANTS
  Jobs,
  TermsOf,      \* budget -> per revision, the [limits, concurrent] it may be given
  Parents,      \* budget -> the parent its definition names
  Charges,      \* the charges a job may reserve
  Usages,       \* the usage a backend may report
  Times

VARIABLES ledger, paid, excused
vars == <<ledger, paid, excused>>

Init ==
  /\ ledger = EmptyLedger
  /\ paid = <<>>
  /\ excused = {}

ConfigureMachine(t) ==
  /\ ValidLimits(t.limits, t.concurrent)
  /\ ledger' = Configured(ledger, Machine, t.limits, t.concurrent)
  /\ excused' = IF Machine \in DOMAIN ledger.nodes THEN excused \cup {Machine} ELSE excused
  /\ UNCHANGED paid

ConfigureBudget(n, t, revision) ==
  LET def == [node |-> n, parent |-> Parents[n], revision |-> revision,
              limits |-> t.limits, concurrent |-> t.concurrent]
  IN /\ CanConfigureBudget(ledger, def)
     /\ ledger' = ConfiguredBudget(ledger, def)
     /\ excused' = IF n \in DOMAIN ledger.nodes THEN excused \cup {n} ELSE excused
     /\ UNCHANGED paid

Advance(time) ==
  /\ time > ledger.high
  /\ ledger' = AdvanceBy(ledger, time)
  /\ UNCHANGED <<paid, excused>>

Reserve(j, s, charge, time) ==
  /\ j \notin DOMAIN paid
  /\ CanReserve(ledger, j, s, charge, time)
  /\ ledger' = HoldFor(ledger, j, s, charge, time)
  /\ UNCHANGED <<paid, excused>>

\* usage is a charge, or the held charge when it is unknown.
Settle(j, usage, time) ==
  /\ j \in DOMAIN ledger.held
  /\ ledger' = SettledAt(ledger, j, usage, time)
  /\ paid' = paid @@ (j :> [path |-> ledger.held[j].path, charge |-> usage, at |-> ledger'.high])
  /\ excused' = IF Overrun(ledger, j, usage)
                THEN excused \cup Range(ledger.held[j].path) ELSE excused

Release(j) ==
  /\ j \in DOMAIN ledger.held
  /\ ledger' = Released(ledger, j)
  /\ UNCHANGED <<paid, excused>>

\* NodeStore::time never hands the ledger a time before its high water.
Now == {t \in Times : t >= ledger.high}

Next ==
  \/ \E t \in TermsOf[Machine][1] : Machine \notin DOMAIN ledger.nodes /\ ConfigureMachine(t)
  \/ \E t \in TermsOf[Machine][2] : Machine \in DOMAIN ledger.nodes \ excused /\ ConfigureMachine(t)
  \/ \E n \in BudgetNodes \ {Machine} : \E r \in DOMAIN TermsOf[n] : \E t \in TermsOf[n][r] :
       ConfigureBudget(n, t, r)
  \/ \E time \in Times : Advance(time)
  \/ \E j \in Jobs, s \in Subjects, c \in Charges, time \in Now : Reserve(j, s, c, time)
  \/ \E j \in DOMAIN ledger.held, time \in Now :
       \/ \E u \in Usages : Settle(j, u, time)
       \/ Settle(j, ledger.held[j].charge, time)
  \/ \E j \in DOMAIN ledger.held : Release(j)

Spec == Init /\ [][Next]_vars

--------------------------------------------------------------------------------
TypeOK ==
  /\ DOMAIN ledger.nodes \subseteq BudgetNodes
  /\ \A n \in DOMAIN ledger.nodes :
       /\ ledger.nodes[n].revision \in 0..Len(TermsOf[n])
       /\ ledger.nodes[n].counters \in [Meters -> [Windows -> [window : Nat, used : 0..MaxCount]]]
  /\ DOMAIN ledger.held \subseteq Jobs /\ DOMAIN paid \subseteq Jobs
  /\ DOMAIN ledger.held \cap DOMAIN paid = {}
  /\ excused \subseteq BudgetNodes

\* Each counter of each budget is the sum of what the jobs that ran under it
\* were charged within the counter's present window: incremental counting over
\* rolling windows, revisions and late settlements loses and repeats nothing
\* (Ledger::settle, Node::counter_at, configure).
CountersAreExact ==
  \A n \in DOMAIN ledger.nodes, m \in Meters, w \in Windows :
    LET charged == {j \in DOMAIN paid :
                      /\ n \in Range(paid[j].path)
                      /\ WindowId(w, paid[j].at) = WindowId(w, ledger.high)}
    IN ledger.nodes[n].counters[m][w].used
         = Saturated(MapThenSumSet(LAMBDA j : paid[j].charge[m], charged))

\* A budget whose terms nobody changed and whose backends kept their bounds is
\* never oversubscribed: what was used in the window together with everything
\* still reserved stays within each limit, across the end of a window too
\* (the comment of Ledger::reserve: midnight never hides exposure).
NeverOversubscribed ==
  \A n \in DOMAIN ledger.nodes \ excused :
    /\ ActiveCount(ledger, n) =< ledger.nodes[n].concurrent
    /\ \A limit \in ledger.nodes[n].limits :
         ledger.nodes[n].counters[limit.meter][limit.window].used
           + Reserved(ledger, n, limit.meter) =< limit.amount

\* For a charge that uses every meter, the allowance shown to a caller (NodeStore::allowance with remaining_at) is
\* the one admission enforces (Ledger::reserve): a charge is admitted exactly
\* when it fits what remains under every limit of every ancestor and a place is
\* free at each, although one reads the windows at a time and the other
\* advances them first.
AllowanceIsHonest ==
  \A s \in {x \in Subjects : Path(ledger, x) # <<>>}, time \in Now :
    \A c \in {x \in Charges : \A m \in Meters : x[m] > 0} :
      LET fits == \A n \in Range(Path(ledger, s)) :
                    /\ ActiveCount(ledger, n) < ledger.nodes[n].concurrent
                    /\ \A limit \in ledger.nodes[n].limits :
                         c[limit.meter] =< RemainingAt(ledger, n, limit, time)
          j == CHOOSE x \in Jobs : x \notin DOMAIN ledger.held  \* the jobs are alike
      IN Jobs # DOMAIN ledger.held => (CanReserve(ledger, j, s, c, time) <=> fits)
==============================================================================
