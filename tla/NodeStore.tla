------------------------------- MODULE NodeStore -------------------------------
(****************************************************************************)
(* The node's durable grant state: authority/src/work_store/grant.          *)
(*                                                                          *)
(* One writer applies a frame to a copy of the state, appends it to the     *)
(* journal and installs the copy; Journal models the append, so a commit is *)
(* one step here and an interrupted one leaves the state alone.  Reopening  *)
(* replays the frames, which is the state the last commit installed, and    *)
(* then ends every job the dead process left open, one commit each.         *)
(*                                                                          *)
(* An authorization is its own work id: the digests are injective.  A       *)
(* policy is named by its resource and revision, which fixes its prices and *)
(* the meters it supports.  The authority is modelled by the time until     *)
(* which it lets a client execute, which administration may change freely;  *)
(* signatures are valid.                                                    *)
(****************************************************************************)
EXTENDS GrantLedger

CONSTANTS
  Grants, Clients, Resources,
  BudgetOf,       \* grant -> the subject it draws on
  AccountOf,      \* resource -> its account
  Supported,      \* resource -> per revision, the meters a policy supports
  StrictAccounting, \* resources whose missing usage is the backend's fault
  ChargeOf,       \* resource -> the charge one job reserves
  Usages,         \* what a backend may report
  Offers,         \* the deadlines a proposal may carry: [acceptance, terminal, delivery]
  Lifetimes,      \* until when the authority may let a client execute
  MaxJobMillis,   \* max_job_millis of every definition
  MachineTerms, SubjectTerms,   \* [limits, concurrent] offered by administration
  MaxChannels,    \* MAX_CHANNELS
  FirstLedger,    \* the ledger after the first configuration
  Ancestors,      \* grant -> the path of its budget: a budget keeps its parent, so it never changes
  MaxTime, MaxNonce, MaxRevision, MaxGeneration  \* bounds

VARIABLES
  store,     \* State
  status,    \* "up", "down" or "recovering"
  auth,      \* client -> the time until which the authority lets it execute
  seen,      \* resource -> the health an administrator last read
  accepted,  \* history: works ever accepted
  backend    \* history: dispatched invocations that have not answered

nodeVars == <<store, status, auth, seen, accepted, backend>>

Times == 0..MaxTime
Unknown == [m \in Meters |-> -1]
Authorizations ==
  [grant : Grants, revision : 1..MaxRevision, generation : 0..MaxGeneration, client : Clients,
   nonce : 1..MaxNonce, resource : Resources, policy : 1..MaxRevision, until : Offers]
ChannelOf(w) == [grant |-> w.grant, client |-> w.client, generation |-> w.generation]
EmptyBook == [jobs |-> <<>>, terminals |-> <<>>, nonce |-> 0]

--------------------------------------------------------------------------------
(* Reading the state. *)

Jobs(s) == UNION {DOMAIN s.channels[c].jobs : c \in DOMAIN s.channels}
Terminals(s) == UNION {DOMAIN s.channels[c].terminals : c \in DOMAIN s.channels}
PhaseOf(s, w) == s.channels[ChannelOf(w)].jobs[w]
TerminalOf(s, w) == s.channels[ChannelOf(w)].terminals[w]
High(s) == s.ledger.high

DefAt(s, g, revision) ==
  IF s.grants[g].revision = revision THEN s.grants[g] ELSE s.history[<<g, revision>>]

\* policy_for: the definition the job was accepted under still lists its policy.
HasPolicy(s, w) ==
  /\ s.grants[w.grant].revision = w.revision \/ <<w.grant, w.revision>> \in DOMAIN s.history
  /\ LET def == DefAt(s, w.grant, w.revision)
     IN w.resource \in DOMAIN def.policies /\ def.policies[w.resource] = w.policy

\* check_resource: the accepted policy is current in the catalogue and the grant.
ResourceCurrent(s, w) ==
  /\ HasPolicy(s, w)
  /\ s.catalogue[w.resource] = w.policy
  /\ w.resource \in DOMAIN s.grants[w.grant].policies
  /\ s.grants[w.grant].policies[w.resource] = w.policy

\* check_resources: a definition's policies against the catalogue.
ResourcesMatch(s, def, g, current) ==
  \A r \in DOMAIN def.policies :
    /\ r \in DOMAIN s.catalogue
    /\ s.ledger.nodes[PoolOf[BudgetOf[g]]].parent = AccountOf[r]
    /\ def.policies[r] =< s.catalogue[r]
    /\ current => def.policies[r] = s.catalogue[r]

Measures(limits, r, policy) == \A limit \in limits : limit.meter \in Supported[r][policy]

\* A lost invocation keeps its place until its enforceable lifetime ends.
RecoveryHolds(s, n, now) ==
  Cardinality({w \in Terminals(s) :
    /\ n \in Ancestors[w.grant]
    /\ TerminalOf(s, w).outcome = "indeterminate"
    /\ w.until.terminal > now})

\* check_budget_meters: configured terms and accepted work remain measurable.
BudgetMeasurable(s, n, limits) ==
  /\ \A g \in DOMAIN s.grants :
       n \in Ancestors[g] =>
         \A r \in DOMAIN s.grants[g].policies : Measures(limits, r, s.grants[g].policies[r])
  /\ \A w \in Jobs(s) :
       n \in Ancestors[w.grant] => Measures(limits, w.resource, w.policy)

\* check_terms
TermsHold(s, w, now) ==
  /\ w.grant \in DOMAIN s.grants
  /\ s.grants[w.grant].enabled
  /\ s.grants[w.grant].revision = w.revision
  /\ s.generations[w.grant] = w.generation
  /\ now =< w.until.acceptance
  /\ w.until.terminal - now =< MaxJobMillis
  /\ HasPolicy(s, w) /\ ResourceCurrent(s, w)
  /\ ~ s.health[w.resource].quarantined

--------------------------------------------------------------------------------
(* Applying a change.  Each operator answers the candidate state. *)

At(s, now) == [s EXCEPT !.ledger = AdvanceBy(@, now)]

KeptBook(s, c) ==
  LET t == s.channels[c].terminals
      live == {w \in DOMAIN t : w.until.delivery >= High(s)}
  IN [s.channels[c] EXCEPT !.terminals = [w \in live |-> t[w]]]

\* Mutant: a channel is dropped once nothing of it is left, and its nonce with it.
StaysWhileUsed(s, c) == KeptBook(s, c).jobs # <<>> \/ KeptBook(s, c).terminals # <<>>

Stays(s, c) ==
  \/ s.generations[c.grant] = c.generation
  \/ KeptBook(s, c).jobs # <<>> \/ KeptBook(s, c).terminals # <<>>

Pruned(s) ==
  LET channels == [c \in {x \in DOMAIN s.channels : Stays(s, x)} |-> KeptBook(s, c)]
      works == UNION {DOMAIN channels[c].jobs \cup DOMAIN channels[c].terminals : c \in DOMAIN channels}
  IN [s EXCEPT !.channels = channels,
               !.admissions = [w \in DOMAIN @ \cap works |-> @[w]],
               !.history = [k \in {<<w.grant, w.revision>> : w \in works} \cap DOMAIN @ |-> @[k]]]

CanEnd(s, w, outcome, usage) ==
  /\ w \in Jobs(s)
  /\ HasPolicy(s, w)
  /\ IF outcome = "released" THEN PhaseOf(s, w) = "accepted" /\ usage = Unknown
     ELSE PhaseOf(s, w) = "running"
  /\ outcome = "indeterminate" => usage = Unknown

\* Three faults in a row, or one overrun, quarantine the resource.
HealthAfter(h, strict, usage, fault, overrun) ==
  LET faults == IF strict /\ usage = Unknown /\ fault THEN h.faults + 1
                ELSE IF usage # Unknown THEN 0 ELSE h.faults
  IN [revision |-> h.revision + 1, faults |-> faults,
      quarantined |-> h.quarantined \/ overrun \/ faults >= 3]

\* State::end
Ended(s, w, outcome, usage, fault, now) ==
  LET actual == IF usage = Unknown THEN s.ledger.held[w].charge ELSE usage
      book == s.channels[ChannelOf(w)]
  IN [s EXCEPT
       !.ledger = IF outcome = "released" THEN Released(@, w) ELSE SettledAt(@, w, actual, now),
       !.health[w.resource] =
          IF outcome = "released" THEN @
          ELSE HealthAfter(@, w.resource \in StrictAccounting, usage, fault, Overrun(s.ledger, w, actual)),
       !.channels[ChannelOf(w)] =
          [book EXCEPT !.jobs = [x \in DOMAIN @ \ {w} |-> @[x]],
                       !.terminals = @ @@ (w :> [phase |-> book.jobs[w], outcome |-> outcome])]]

\* Ends the queued jobs of a set; the order does not matter.
ReleasedAll(s, works, now) ==
  LET release(w, t) == Ended(t, w, "released", Unknown, FALSE, now)
  IN FoldSet(release, s, works)

ResourceConfigured(s, r, now) ==
  LET t == [s EXCEPT !.catalogue[r] = @ + 1]
  IN ReleasedAll(t, {w \in Jobs(t) : PhaseOf(t, w) = "accepted" /\ w.resource = r}, now)

Defined(s, g, def, now) ==
  LET t == [s EXCEPT !.history = @ @@ (<<g, s.grants[g].revision>> :> s.grants[g]),
                     !.grants[g] = def]
  IN ReleasedAll(t, {w \in Jobs(t) : /\ w.grant = g /\ PhaseOf(t, w) = "accepted"
                                     /\ ~ def.enabled \/ ~ ResourceCurrent(t, w)}, now)

Mounted(s, c) ==
  IF c \in DOMAIN s.channels THEN s ELSE [s EXCEPT !.channels = @ @@ (c :> EmptyBook)]

CanMount(s, c) == c \in DOMAIN s.channels \/ Cardinality(DOMAIN s.channels) < MaxChannels

CanAdmit(s, w, now) ==
  /\ \A n \in Ancestors[w.grant] :
       ActiveCount(s.ledger, n) + RecoveryHolds(s, n, now) < s.ledger.nodes[n].concurrent
  /\ CanReserve(s.ledger, w, BudgetOf[w.grant], ChargeOf[w.resource], now)

\* propose and accept of the channel's book
CanPropose(s, w) == w.nonce > Mounted(s, ChannelOf(w)).channels[ChannelOf(w)].nonce

AcceptedBy(s, w, now) ==
  LET t == Mounted(s, ChannelOf(w))
  IN [t EXCEPT
       !.ledger = HoldFor(@, w, BudgetOf[w.grant], ChargeOf[w.resource], now),
       !.channels[ChannelOf(w)].jobs = @ @@ (w :> "accepted"),
       !.channels[ChannelOf(w)].nonce = w.nonce,
       !.admissions = @ @@ (w :> [at |-> now, dispatched |-> -1,
                                  reserved |-> ChargeOf[w.resource]])]

--------------------------------------------------------------------------------
(* The checks a checkpoint must pass to be restored (State::restore). *)

ValidTerminal(t) ==
  IF t.outcome = "released" THEN t.phase = "accepted" ELSE t.phase = "running"

ValidAdmission(s, w, dispatched) ==
  LET a == s.admissions[w]
  IN /\ a.at =< High(s) /\ a.at =< w.until.acceptance
     /\ HasPolicy(s, w) /\ a.reserved = ChargeOf[w.resource]
     /\ (a.dispatched # -1) = dispatched
     /\ dispatched => a.dispatched \in a.at..w.until.terminal

\* Distinct open and ended jobs of a channel carry distinct nonces, up to its mark.
ValidBook(s, c) ==
  LET book == s.channels[c]
      works == DOMAIN book.jobs \cup DOMAIN book.terminals
  IN /\ DOMAIN book.jobs \cap DOMAIN book.terminals = {}
     /\ c.generation =< s.generations[c.grant]
     /\ \A w \in works : ChannelOf(w) = c /\ w.nonce =< book.nonce
     /\ \A v, w \in works : v.nonce = w.nonce => v = w
     /\ \A w \in DOMAIN book.terminals : ValidTerminal(book.terminals[w])
     /\ works \subseteq DOMAIN s.admissions
     /\ \A w \in DOMAIN book.jobs :
          /\ ValidAdmission(s, w, book.jobs[w] # "accepted")
          /\ w \in DOMAIN s.ledger.held /\ s.ledger.held[w].charge = s.admissions[w].reserved
          /\ \A n \in Ancestors[w.grant] :
               Measures(s.ledger.nodes[n].limits, w.resource, w.policy)
     /\ \A w \in DOMAIN book.terminals : ValidAdmission(s, w, book.terminals[w].phase # "accepted")

\* The definitions: current and superseded, and the limits over the current ones.
ValidDefinitions(s) ==
  /\ \A g \in DOMAIN s.grants : ResourcesMatch(s, s.grants[g], g, FALSE)
  /\ \A k \in DOMAIN s.history :
       /\ k[2] =< s.grants[k[1]].revision
       /\ ResourcesMatch(s, s.history[k], k[1], FALSE)
  /\ \A g \in DOMAIN s.grants, n \in DOMAIN s.ledger.nodes :
       n \in Ancestors[g] =>
         \A r \in DOMAIN s.grants[g].policies :
           Measures(s.ledger.nodes[n].limits, r, s.grants[g].policies[r])

RestoreAccepts(s) ==
  /\ Cardinality(DOMAIN s.channels) =< MaxChannels
  /\ DOMAIN s.catalogue = DOMAIN s.health
  /\ ValidDefinitions(s)
  /\ \A c \in DOMAIN s.channels : ValidBook(s, c)
  /\ DOMAIN s.admissions = Jobs(s) \cup Terminals(s)
  /\ ValidReservations(s.ledger, [w \in Jobs(s) |-> BudgetOf[w.grant]])

--------------------------------------------------------------------------------
(* The writer.  commit_changes advances the clock before it applies a change, *)
(* so a commit at a later time is Tick followed by the commit; accept writes  *)
(* the two as two frames.                                                     *)

Healthy == [revision |-> 0, faults |-> 0, quarantined |-> FALSE]
Definition(revision, enabled, policies) ==
  [revision |-> revision, enabled |-> enabled, policies |-> policies]

Init ==
  /\ store = [grants |-> [g \in Grants |-> Definition(1, TRUE, [r \in Resources |-> 1])],
              generations |-> [g \in Grants |-> 0],
              channels |-> <<>>, admissions |-> <<>>, ledger |-> FirstLedger, history |-> <<>>,
              catalogue |-> [r \in Resources |-> 1], health |-> [r \in Resources |-> Healthy]]
  /\ status = "up"
  /\ auth = [c \in Clients |-> Max(Lifetimes)]
  /\ seen = [r \in Resources |-> Healthy]
  /\ accepted = {} /\ backend = {}

Commit(candidate) == store' = Pruned(candidate)

Tick ==
  /\ status = "up"
  /\ \E now \in High(store) + 1..MaxTime : Commit(At(store, now))
  /\ UNCHANGED <<status, auth, seen, accepted, backend>>

\* administer_authority: a grant is extended, shortened or revoked.
Administer(c) ==
  /\ status = "up"
  /\ \E until \in Lifetimes \ {auth[c]} : auth' = [auth EXCEPT ![c] = until]
  /\ UNCHANGED <<store, status, seen, accepted, backend>>

ConfigureMachine(terms) ==
  /\ status = "up"
  /\ store.ledger.nodes[Machine].limits # terms.limits
       \/ store.ledger.nodes[Machine].concurrent # terms.concurrent
  /\ BudgetMeasurable(store, Machine, terms.limits)
  /\ ValidLimits(terms.limits, terms.concurrent)
  /\ Commit([store EXCEPT !.ledger = Configured(@, Machine, terms.limits, terms.concurrent)])
  /\ UNCHANGED <<status, auth, seen, accepted, backend>>

ConfigureBudget(n, terms) ==
  LET old == store.ledger.nodes[n]
      def == [node |-> n, parent |-> old.parent, revision |-> old.revision + 1,
              limits |-> terms.limits, concurrent |-> terms.concurrent]
  IN /\ status = "up" /\ old.revision < MaxRevision
     /\ BudgetMeasurable(store, n, terms.limits)
     /\ CanConfigureBudget(store.ledger, def)
     /\ Commit([store EXCEPT !.ledger = ConfiguredBudget(@, def)])
     /\ UNCHANGED <<status, auth, seen, accepted, backend>>

ConfigureResource(r) ==
  /\ status = "up" /\ store.catalogue[r] < MaxRevision
  /\ Commit(ResourceConfigured(store, r, High(store)))
  /\ UNCHANGED <<status, auth, seen, accepted, backend>>

Define(g) ==
  /\ status = "up" /\ store.grants[g].revision < MaxRevision
  /\ \E enabled \in BOOLEAN, listed \in SUBSET Resources :
     \E policies \in [listed -> 1..MaxRevision] :
       LET def == Definition(store.grants[g].revision + 1, enabled, policies)
       IN /\ ResourcesMatch(store, def, g, enabled)
          /\ \A n \in Ancestors[g] : \A r \in listed :
               Measures(store.ledger.nodes[n].limits, r, policies[r])
          /\ Commit(Defined(store, g, def, High(store)))
  /\ UNCHANGED <<status, auth, seen, accepted, backend>>

ResetGeneration(g) ==
  /\ status = "up" /\ store.generations[g] < MaxGeneration
  /\ Commit([store EXCEPT !.generations[g] = @ + 1])
  /\ UNCHANGED <<status, auth, seen, accepted, backend>>

\* An administrator reads a resource's health, and repairs what they read.
Inspect(r) ==
  /\ status = "up" /\ seen[r] # store.health[r]
  /\ seen' = [seen EXCEPT ![r] = store.health[r]]
  /\ UNCHANGED <<store, status, auth, accepted, backend>>

Repair(r) ==
  /\ status = "up"
  /\ store.health[r].revision = seen[r].revision
  /\ store.health[r] # [Healthy EXCEPT !.revision = seen[r].revision]
  /\ Commit([store EXCEPT !.health[r] = [Healthy EXCEPT !.revision = seen[r].revision + 1]])
  /\ UNCHANGED <<status, auth, seen, accepted, backend>>

\* A retry of known work answers the first signature and changes nothing.
Accept(w) ==
  /\ status = "up"
  /\ w \notin Jobs(store) \cup Terminals(store)
  /\ auth[w.client] > High(store)
  /\ TermsHold(store, w, High(store))
  /\ CanMount(store, ChannelOf(w))
  /\ CanAdmit(store, w, High(store))
  /\ CanPropose(store, w)
  /\ Commit(AcceptedBy(store, w, High(store)))
  /\ accepted' = accepted \cup {w}
  /\ UNCHANGED <<status, auth, seen, backend>>

Dispatch(w) ==
  /\ status = "up"
  /\ w \in Jobs(store) /\ PhaseOf(store, w) = "accepted"
  /\ auth[w.client] > High(store)
  /\ ResourceCurrent(store, w) /\ store.grants[w.grant].enabled
  /\ High(store) =< w.until.terminal
  /\ Commit([store EXCEPT !.channels[ChannelOf(w)].jobs[w] = "running",
                          !.admissions[w].dispatched = High(store)])
  /\ backend' = backend \cup {w}
  /\ UNCHANGED <<status, auth, seen, accepted>>

\* A signed result needs a finished outcome; a failure may carry usage or not.
Finish(w) ==
  /\ status = "up"
  /\ \E outcome \in {"finished", "failed", "indeterminate"}, usage \in Usages \cup {Unknown},
        fault \in BOOLEAN :
       /\ usage # Unknown => ~ fault
       /\ CanEnd(store, w, outcome, usage)
       /\ Commit(Ended(store, w, outcome, usage, fault, High(store)))
  /\ backend' = backend \ {w}
  /\ UNCHANGED <<status, auth, seen, accepted>>

Release(w) ==
  /\ status = "up"
  /\ CanEnd(store, w, "released", Unknown)
  /\ Commit(Ended(store, w, "released", Unknown, FALSE, High(store)))
  /\ UNCHANGED <<status, auth, seen, accepted, backend>>

--------------------------------------------------------------------------------
(* The process stops at any moment; opening ends what it left, job by job. *)

Crash ==
  /\ status # "down"
  /\ status' = "down"
  /\ UNCHANGED <<store, auth, seen, accepted, backend>>

Open ==
  /\ status = "down" /\ RestoreAccepts(store)
  /\ status' = "recovering"
  /\ UNCHANGED <<store, auth, seen, accepted, backend>>

RecoverJob(w) ==
  /\ status = "recovering" /\ w \in Jobs(store)
  /\ LET outcome == IF PhaseOf(store, w) = "accepted" THEN "released" ELSE "indeterminate"
     IN Commit(Ended(store, w, outcome, Unknown, FALSE, High(store)))
  /\ UNCHANGED <<status, auth, seen, accepted, backend>>

\* open ends with a tick.
Recovered ==
  /\ status = "recovering" /\ Jobs(store) = {}
  /\ status' = "up"
  /\ \E now \in High(store)..MaxTime : Commit(At(store, now))
  /\ UNCHANGED <<auth, seen, accepted, backend>>

Next ==
  \/ Tick \/ Crash \/ Open \/ Recovered
  \/ \E c \in Clients : Administer(c)
  \/ \E terms \in MachineTerms : ConfigureMachine(terms)
  \/ \E n \in Subjects, terms \in SubjectTerms : ConfigureBudget(n, terms)
  \/ \E r \in Resources : ConfigureResource(r) \/ Inspect(r) \/ Repair(r)
  \/ \E g \in Grants : Define(g) \/ ResetGeneration(g)
  \/ \E w \in Authorizations : Accept(w)
  \/ \E w \in Jobs(store) : Dispatch(w) \/ Finish(w) \/ Release(w) \/ RecoverJob(w)

Spec == Init /\ [][Next]_nodeVars

--------------------------------------------------------------------------------
\* The types of the state; the ledger's shape is LedgerBook's.
TypeOK ==
  /\ status \in {"up", "down", "recovering"}
  /\ auth \in [Clients -> Lifetimes]
  /\ accepted \subseteq Authorizations /\ backend \subseteq accepted
  /\ DOMAIN store.admissions \subseteq accepted
  /\ \A c \in DOMAIN store.channels :
       /\ Range(store.channels[c].jobs) \subseteq {"accepted", "running"}
       /\ store.channels[c].nonce \in 1..MaxNonce
  /\ \A r \in Resources : store.health[r].faults \in Nat

\* Whatever was committed can be checkpointed and opened again: the state the
\* writer installs after any sequence of definitions, limit changes, resets,
\* acceptances and endings passes every check State::restore makes.
EveryStateReopens == RestoreAccepts(store)

\* Jobs waiting, invocations running, and invocations lost with their process
\* whose lifetime has not ended, under a budget.
Load(n) ==
  Cardinality({w \in accepted :
    /\ n \in Ancestors[w.grant]
    /\ \/ w \in Jobs(store)
       \/ w \in backend /\ w.until.terminal > High(store)})

\* The concurrency of every ancestor bounds what may really be running: no step
\* starts one more job under a budget that is full, counting invocations a crash
\* left running, although their jobs have ended and their quota is settled.
LostWorkKeepsItsPlace ==
  [][\A n \in DOMAIN store.ledger.nodes :
       Load(n)' > Load(n) => Load(n)' =< store.ledger.nodes[n].concurrent]_nodeVars

\* A proposal nonce is spent once in its channel: no job is accepted under a
\* nonce an earlier job of the channel used, after its terminal was pruned, its
\* generation superseded, or the process restarted.
NonceSpentOnce ==
  [][\A w \in Jobs(store') \ Jobs(store) : \A v \in accepted :
       ~ (ChannelOf(v) = ChannelOf(w) /\ v.nonce = w.nonce)]_nodeVars

\* A repair discards only the faults its administrator has read, and nothing
\* else lifts a quarantine: not time, a new policy, a new grant or a restart.
RepairIsInformed ==
  [][\A r \in Resources :
       store.health[r].quarantined /\ ~ store'.health[r].quarantined
         => seen[r] = store.health[r]]_nodeVars
==============================================================================
