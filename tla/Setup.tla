------------------------------- MODULE Setup -------------------------------
(***************************************************************************)
(* How a paid channel comes to be on the chain.  A provider and a client    *)
(* exchange three revisions of a signed bundle (the bond proposed, the      *)
(* payment proposed over it, the payment countersigned), each one journaled *)
(* before the signature it carries leaves; then each endpoint drives its    *)
(* own setup from finalized blocks and one finalized read, and the provider *)
(* posts the two Opens.  The driver holds the journal's lock only while it  *)
(* decides, so the exchange can change the journal while a read is out.     *)
(***************************************************************************)
EXTENDS Integers, Sequences, FiniteSets

CONSTANTS
  Drivers,     \* the endpoints that drive their setup
  Foreign,     \* what others do on the chain
  Lossy,       \* consensus may drop a submission
  Horizon,     \* timeout of the bond, and of the channel over it
  MaxHeight,   \* empty blocks are produced up to here
  Batch,       \* blocks one scan reads (256 in the code)
  MaxCrashes,
  MaxExchanges \* exchanges the client begins

SetupConstants ==
  /\ Drivers \subseteq {"provider", "client"}
  /\ Lossy \in BOOLEAN
  /\ Foreign \subseteq {"spendBond", "spendPayment", "closePayment"}
  /\ {Horizon, MaxHeight, Batch, MaxCrashes, MaxExchanges} \subseteq Nat /\ Batch > 0

VARIABLES
  blocks,      \* the finalized blocks, each the set of its transactions
  chain,       \* what the last finalized block left: edges, lease, coins
  pool,        \* transactions handed to consensus and not yet included
  admits,      \* whether the provider's policy admits the client's terms
  setup,       \* role -> the setup journal, SetupState
  driver,      \* role -> the step of advance_setup under way
  channel,     \* role -> the mounted channel journal
  exchange,    \* the client's exchange_setup call
  answered,    \* offered revision -> the revision first answered, or 0
  crashes, exchanges

vars == <<blocks, chain, pool, admits, setup, driver, channel, exchange, answered,
          crashes, exchanges>>
world == <<blocks, chain, pool>>

Roles == {"provider", "client"}
Ends == {"none", "complete", "expired", "paymentSpent", "reclaimed",
         "bondSpent", "leasedElsewhere", "unexplained"}
Aborts == {"expired", "paymentSpent", "reclaimed"}
Txs == {"openBond", "openPayment", "timeoutBond", "closePayment", "spendBond", "spendPayment"}
Coins == {"bond", "payment"}
Height == Len(blocks)

---------------------------------------------------------------------------
(* The chain, as the setup uses it *)

Includable(c, h, tx) ==
  CASE tx = "openBond"     -> c.bond = "none" /\ "bond" \in c.live /\ h < Horizon
    [] tx = "openPayment"  -> /\ c.bond = "open" /\ ~c.leased
                              /\ "payment" \in c.live /\ h < Horizon
    [] tx = "timeoutBond"  -> c.bond = "open" /\ (c.payment = "open" => h >= Horizon)
    [] tx = "closePayment" -> c.payment = "open"
    [] tx = "spendBond"    -> "bond" \in c.live
    [] tx = "spendPayment" -> "payment" \in c.live

Executed(c, tx) ==
  CASE tx = "openBond"     -> [c EXCEPT !.bond = "open", !.live = @ \ {"bond"}]
    [] tx = "openPayment"  -> [c EXCEPT !.payment = "open", !.leased = TRUE,
                                        !.live = @ \ {"payment"}]
    [] tx = "timeoutBond"  -> [c EXCEPT !.bond = "closed", !.leased = FALSE]
    [] tx = "closePayment" -> [c EXCEPT !.payment = "closed"]
    [] tx = "spendBond"    -> [c EXCEPT !.live = @ \ {"bond"}]
    [] tx = "spendPayment" -> [c EXCEPT !.live = @ \ {"payment"}]

\* Others may spend a coin or close the channel, and anyone may time out the bond
Offered == pool \cup Foreign \cup {"timeoutBond"}

\* Blocks before the offer are below every floor, so the chain starts with it
Finalize(txs, after) ==
  /\ setup["provider"].revision # 0
  /\ blocks' = Append(blocks, txs)
  /\ chain' = after
  /\ pool' = pool \ txs
  /\ UNCHANGED <<admits, setup, driver, channel, exchange, answered, crashes, exchanges>>

EmptyBlock == Height < MaxHeight /\ Finalize({}, chain)

Include(tx) ==
  Includable(chain, Height + 1, tx) /\ Finalize({tx}, Executed(chain, tx))

IncludeTwo(one, two) ==
  /\ Includable(chain, Height + 1, one)
  /\ Includable(Executed(chain, one), Height + 1, two)
  /\ Finalize({one, two}, Executed(Executed(chain, one), two))

Block ==
  \/ EmptyBlock
  \/ \E tx \in Offered : Include(tx)
  \/ \E one, two \in Offered : one # two /\ IncludeTwo(one, two)

\* A submission consensus never includes; the driver's next step repeats it
LoseSubmission ==
  /\ Lossy
  /\ \E tx \in pool : pool' = pool \ {tx}
  /\ UNCHANGED <<blocks, chain, admits, setup, driver, channel, exchange, answered,
                 crashes, exchanges>>

---------------------------------------------------------------------------
(* The setup journal: SetupState and the records that change it *)

NewSetup ==
  [revision |-> 0, floor |-> 0, cursor |-> 0, unresolved |-> {},
   bondFinalized |-> FALSE, paymentFinalized |-> FALSE,
   bondClosed |-> FALSE, paymentClosed |-> FALSE,
   timeoutSubmitted |-> FALSE, origin |-> 0, end |-> "none"]

Executable(j, r) == j.revision \in (IF r = "client" THEN {2, 3} ELSE {3})
HasPaymentEdge(j) == j.revision >= 2
HoldsPaymentOpen(j) == j.revision = 3
CloseOnlyRecovery(j) == j.origin # 0 /\ (j.bondClosed \/ j.paymentClosed)

\* What reopening a checkpoint, and every observation, requires
Revalidates(j, r) ==
  /\ Executable(j, r) \/ (r = "provider" /\ j.revision = 1) => j.floor # 0
  /\ IF j.floor = 0 THEN j.cursor = 0 /\ ~j.bondFinalized /\ ~j.paymentFinalized
     ELSE j.cursor >= j.floor
  /\ j.bondClosed => j.bondFinalized /\ r = "provider"
  /\ j.paymentClosed => j.paymentFinalized
  /\ j.paymentFinalized <=> j.origin # 0
  /\ r = "client" => j.unresolved = {} /\ ~j.timeoutSubmitted
  /\ j.origin # 0 =>
       /\ HasPaymentEdge(j) /\ j.origin > j.floor
       /\ j.end # "complete" => j.origin <= j.cursor

\* apply_bundle: the next revision, and one that needs no close descriptor
Takes(j, r, revision) ==
  /\ revision = j.revision + 1
  /\ revision # (IF r = "client" THEN 2 ELSE 3)
  /\ r = "provider" /\ revision = 1 => j.floor # 0
  /\ j.end = "none"

Redundant(j, revision) == j.revision = revision /\ j.end = "none"

\* apply_armed_bundle
Arms(j, r, revision) ==
  /\ revision = (IF r = "client" THEN 2 ELSE 3)
  /\ revision = j.revision + 1
  /\ j.floor # 0 /\ j.end = "none"

\* SetupState::observe over the blocks after the cursor
Seen(from, through) == UNION {blocks[h] : h \in (from + 1)..through}

OriginIn(from, through) ==
  CHOOSE h \in (from + 1)..through : "openPayment" \in blocks[h]

UnresolvedAfter(j, bondFinalized, paymentFinalized, through) ==
  {tx \in j.unresolved :
     /\ ~(IF tx = "openBond" THEN bondFinalized ELSE paymentFinalized)
     \* a revision below three has no payment Open and so no horizon for it
     /\ ~(through > Horizon /\ (tx = "openBond" \/ HoldsPaymentOpen(j)))}

BondClose(r, seen) == r = "provider" /\ "timeoutBond" \in seen

Observe(j, r, through) ==
  LET seen == Seen(j.cursor, through)
      opened == HasPaymentEdge(j) /\ "openPayment" \in seen
      bondClosed == j.bondClosed \/ BondClose(r, seen)
      bondFinalized == j.bondFinalized \/ "openBond" \in seen \/ bondClosed
      paymentFinalized == j.paymentFinalized \/ opened
  IN [j EXCEPT !.cursor = through,
               !.bondFinalized = bondFinalized,
               !.paymentFinalized = paymentFinalized,
               !.bondClosed = bondClosed,
               !.paymentClosed = @ \/ (HasPaymentEdge(j) /\ "closePayment" \in seen),
               !.origin = IF @ = 0 /\ opened THEN OriginIn(j.cursor, through) ELSE @,
               !.unresolved = UnresolvedAfter(j, bondFinalized, paymentFinalized, through)]

---------------------------------------------------------------------------
(* SetupState::decide, from one finalized read s *)

BondLive(s) == "bond" \in s.live
PaymentLive(s) == "payment" \in s.live

\* The bond is live and unleased: post the payment, or take the stake back
DecideUnleasedBond(j, r, s) ==
  CASE ~HoldsPaymentOpen(j) \/ r # "provider" -> "await"
    [] ~PaymentLive(s) \/ s.height >= Horizon -> "timeoutBond"
    [] OTHER -> "openPayment"

\* Neither edge exists: submit, abort, or reconcile
DecideAbsentBond(j, r, s) ==
  CASE ~HoldsPaymentOpen(j) \/ r # "provider" -> "await"
    [] ~BondLive(s) /\ j.bondClosed           -> "reclaimed"
    [] ~BondLive(s) /\ j.timeoutSubmitted     -> "await"
    [] ~BondLive(s)                           -> "bondSpent"
    [] s.height >= Horizon                    -> "expired"
    [] ~PaymentLive(s)                        -> "paymentSpent"
    [] OTHER                                  -> "openBond"

\* No payment has been proposed, so only the bond can be read for
DecideProposed(j, r, s) ==
  CASE s.bond /\ s.leased                     -> "leasedElsewhere"
    [] s.bond /\ r = "provider"               -> "timeoutBond"
    [] s.bond                                 -> "await"
    [] j.bondClosed                           -> "reclaimed"
    [] j.timeoutSubmitted                     -> "await"
    [] ~BondLive(s)                           -> "bondSpent"
    [] s.height >= Horizon                    -> "expired"
    [] OTHER                                  -> "await"

\* Both edges are live, so this channel's lease is
BothLive(j, s) == IF s.leased THEN "complete" ELSE "unexplained"

Decide(j, r, s) ==
  CASE ~HasPaymentEdge(j)                     -> DecideProposed(j, r, s)
    [] s.bond /\ s.payment                    -> BothLive(j, s)
    [] s.bond /\ ~s.payment                   -> IF s.leased THEN "unexplained"
                                                 ELSE DecideUnleasedBond(j, r, s)
    [] ~s.bond /\ s.payment                   -> "closeOnly"
    [] OTHER                                  -> DecideAbsentBond(j, r, s)

---------------------------------------------------------------------------
(* advance_setup *)

Idle == [pc |-> "idle", rereads |-> 0, asked |-> {}, read |-> [height |-> 0], tx |-> "none"]

\* query_of: the coins of every Open the journal retains
Query(j) == IF HasPaymentEdge(j) THEN Coins ELSE {"bond"}

\* FinalizedSetup: one coherent state, answering for the coins it was asked about
ReadFor(asked) ==
  [height |-> Height, bond |-> chain.bond = "open",
   payment |-> asked = Coins /\ chain.payment = "open",
   leased |-> chain.leased, live |-> chain.live \cap asked]

Through(j) == IF Height < j.cursor + Batch THEN Height ELSE j.cursor + Batch

\* scan_finalized: one batch of history, then the read if it reached the tip
Scan(r) ==
  LET j == setup[r]
  IN /\ driver[r].pc = "idle"
     /\ j.revision > 0 /\ j.cursor # 0 /\ j.end = "none"
     /\ j.cursor < Height
     /\ setup' = [setup EXCEPT ![r] = Observe(j, r, Through(j))]
     /\ driver' = [driver EXCEPT ![r] =
                     IF Through(j) < Height THEN Idle ELSE [Idle EXCEPT !.pc = "ask"]]
     /\ UNCHANGED <<world, admits, channel, exchange, answered, crashes, exchanges>>

\* SetupView::finalized_setup, taken without the journal's lock
Read(r) ==
  LET j == setup[r]
  IN /\ \/ driver[r].pc = "ask"
        \/ /\ driver[r].pc = "idle" /\ j.revision > 0 /\ j.cursor # 0
           /\ \/ j.end = "none" /\ j.cursor >= Height
              \/ j.end = "complete" /\ channel[r].cursor = 0
     /\ driver' = [driver EXCEPT ![r] =
                     [@ EXCEPT !.pc = "decide", !.asked = Query(j), !.read = ReadFor(Query(j))]]
     /\ UNCHANGED <<world, admits, setup, channel, exchange, answered, crashes, exchanges>>

StillAsked(r) == Query(setup[r]) = driver[r].asked

\* The question moved under its answer: read again, twice at most
Reread(r) ==
  /\ driver[r].pc = "decide" /\ ~StillAsked(r)
  /\ driver' = [driver EXCEPT ![r] =
                  IF @.rereads = 1 THEN Idle ELSE [Idle EXCEPT !.pc = "ask", !.rereads = 1]]
  /\ UNCHANGED <<world, admits, setup, channel, exchange, answered, crashes, exchanges>>

\* Mutant: a spent coin is believed before history explains it
TerminalOnAnyRead(j, s, decision) == TRUE

\* A terminal decision needs history up to the state it was read at
TerminalHasHistory(j, s, decision) == j.cursor >= s.height

MayEnd(j) == j.unresolved = {}

\* ChannelStore::open at the origin; finish_mount then replays to the cursor
Unopened == [origin |-> 0, cursor |-> 0, closed |-> FALSE]

Mount(r, j) ==
  /\ channel' = [channel EXCEPT ![r] =
                   IF @.origin = 0 THEN [Unopened EXCEPT !.origin = j.origin] ELSE @]
  /\ driver' = [driver EXCEPT ![r] = [Idle EXCEPT !.pc = "mount"]]

\* The marker is journaled here; the transaction leaves in a later step
Mark(r, j, tx) ==
  /\ setup' = [setup EXCEPT ![r] =
                 IF tx = "timeoutBond" THEN [j EXCEPT !.timeoutSubmitted = TRUE]
                 ELSE [j EXCEPT !.unresolved = @ \cup {tx}]]
  /\ driver' = [driver EXCEPT ![r] = [Idle EXCEPT !.pc = "submit", !.tx = tx]]

Conclude(r, j, decision) ==
  \/ /\ CloseOnlyRecovery(j) \/ decision = "closeOnly" \/ j.end = "complete"
     /\ IF j.origin # 0 THEN Mount(r, j)
        ELSE driver' = [driver EXCEPT ![r] = Idle] /\ channel' = channel
     /\ setup' = setup
  \/ /\ ~CloseOnlyRecovery(j) /\ j.end = "none" /\ decision = "complete"
     /\ IF j.origin # 0
        THEN Mount(r, j) /\ setup' = [setup EXCEPT ![r] = [j EXCEPT !.end = "complete"]]
        ELSE driver' = [driver EXCEPT ![r] = Idle] /\ UNCHANGED <<setup, channel>>
  \/ /\ ~CloseOnlyRecovery(j) /\ j.end = "none"
     /\ decision \in {"openBond", "openPayment", "timeoutBond"}
     /\ Mark(r, j, decision) /\ channel' = channel
  \/ /\ ~CloseOnlyRecovery(j) /\ j.end = "none"
     /\ decision \in (Ends \ {"none", "complete"}) \cup {"await"}
     /\ setup' = IF /\ decision # "await" /\ MayEnd(j)
                    /\ TerminalHasHistory(j, driver[r].read, decision)
                 THEN [setup EXCEPT ![r] = [j EXCEPT !.end = decision]] ELSE setup
     /\ driver' = [driver EXCEPT ![r] = Idle] /\ channel' = channel

\* Compare, decide and commit under one borrow of the journal
Step(r) ==
  /\ driver[r].pc = "decide" /\ StillAsked(r)
  /\ Conclude(r, setup[r], Decide(setup[r], r, driver[r].read))
  /\ UNCHANGED <<world, admits, exchange, answered, crashes, exchanges>>

Submit(r) ==
  /\ driver[r].pc = "submit"
  /\ pool' = pool \cup {driver[r].tx}
  /\ driver' = [driver EXCEPT ![r] = Idle]
  /\ UNCHANGED <<blocks, chain, admits, setup, channel, exchange, answered, crashes, exchanges>>

\* finish_mount: the origin's own block, then every block to the cursor
Replay(c, through) ==
  [c EXCEPT !.cursor = through,
            !.closed = @ \/ "closePayment" \in
                              Seen(IF c.cursor = 0 THEN c.origin - 1 ELSE c.cursor, through)]

FinishMount(r) ==
  /\ driver[r].pc = "mount"
  /\ channel' = [channel EXCEPT ![r] = Replay(@, setup[r].cursor)]
  /\ driver' = [driver EXCEPT ![r] = Idle]
  /\ UNCHANGED <<world, admits, setup, exchange, answered, crashes, exchanges>>

Drive(r) == Scan(r) \/ Read(r) \/ Reread(r) \/ Step(r) \/ Submit(r) \/ FinishMount(r)

---------------------------------------------------------------------------
(* The exchange *)

Resting == [pc |-> "idle", offer |-> 0, answer |-> 0]

\* The floor and revision one in a single record
OfferRecorded(j) == [j EXCEPT !.floor = Height, !.cursor = Height, !.revision = 1]

\* Journal the signed offer, while its bond can still be opened
ProposeBond ==
  /\ setup["provider"].revision = 0 /\ setup["provider"].end = "none"
  /\ Height < Horizon
  /\ setup' = [setup EXCEPT !["provider"] = OfferRecorded(@)]
  /\ UNCHANGED <<world, admits, driver, channel, exchange, answered, crashes, exchanges>>

ArmScan ==
  /\ setup["client"].revision = 1 /\ setup["client"].floor = 0 /\ setup["client"].end = "none"
  /\ setup' = [setup EXCEPT !["client"] = [@ EXCEPT !.floor = Height, !.cursor = Height]]
  /\ UNCHANGED <<world, admits, driver, channel, exchange, answered, crashes, exchanges>>

ProposePayment ==
  /\ Arms(setup["client"], "client", 2)
  /\ setup' = [setup EXCEPT !["client"].revision = 2]
  /\ UNCHANGED <<world, admits, driver, channel, exchange, answered, crashes, exchanges>>

\* prepare_setup_exchange: offer what the client's journal holds
Ask ==
  /\ exchange.pc = "idle" /\ exchanges < MaxExchanges
  /\ setup["client"].revision < 3
  /\ exchange' = [Resting EXCEPT !.pc = "asked", !.offer = setup["client"].revision]
  /\ exchanges' = exchanges + 1
  /\ UNCHANGED <<world, admits, setup, driver, channel, answered, crashes>>

Refused == -1

\* SetupEndpoint::advance: journal the offer, countersign, journal, answer
Accepted(j, offer) ==
  IF offer = 0 \/ Redundant(j, offer) THEN j
  ELSE [j EXCEPT !.revision = offer]

Countersigned(j) == IF j.revision = 2 THEN [j EXCEPT !.revision = 3] ELSE j

\* What is durable when the answer leaves
Journaled(j, after) == after

Answer ==
  LET j == setup["provider"]
      offer == exchange.offer
      taken == Accepted(j, offer)
      refused == \/ j.end \notin {"none", "complete"}
                 \/ offer # 0 /\ ~Redundant(j, offer) /\ ~Takes(j, "provider", offer)
      declined == taken.revision = 2 /\ ~admits
      after == IF refused THEN j ELSE IF declined THEN taken ELSE Countersigned(taken)
      answer == IF refused \/ declined \/ after.revision = 0 THEN Refused ELSE after.revision
  IN /\ exchange.pc = "asked"
     /\ setup' = [setup EXCEPT !["provider"] = Journaled(j, after)]
     /\ exchange' = [exchange EXCEPT !.pc = "answered", !.answer = answer]
     /\ answered' = IF answered[offer] = 0 /\ answer # Refused
                    THEN [answered EXCEPT ![offer] = answer] ELSE answered
     /\ UNCHANGED <<world, admits, driver, channel, crashes, exchanges>>

\* apply_setup_exchange: import the answered revision
Import ==
  LET j == setup["client"]
  IN /\ exchange.pc = "answered"
     /\ setup' = IF exchange.answer # Refused /\ Takes(j, "client", exchange.answer)
                 THEN [setup EXCEPT !["client"].revision = exchange.answer] ELSE setup
     /\ exchange' = Resting
     /\ UNCHANGED <<world, admits, driver, channel, answered, crashes, exchanges>>

---------------------------------------------------------------------------
(* Faults *)

\* The offered revision is journaled and the process dies before its answer
DieAnswering ==
  /\ exchange.pc = "asked" /\ crashes < MaxCrashes
  /\ exchange.offer # 0 /\ Takes(setup["provider"], "provider", exchange.offer)
  /\ setup' = [setup EXCEPT !["provider"] = Accepted(@, exchange.offer)]
  /\ driver' = [driver EXCEPT !["provider"] = Idle]
  /\ exchange' = Resting
  /\ crashes' = crashes + 1
  /\ UNCHANGED <<world, admits, channel, answered, exchanges>>

\* A crash, or a dropped driver: only the journals survive, and a call is lost
Crash(r) ==
  /\ crashes < MaxCrashes
  /\ driver[r] # Idle \/ exchange # Resting
  /\ driver' = [driver EXCEPT ![r] = Idle]
  /\ exchange' = Resting
  /\ crashes' = crashes + 1
  /\ UNCHANGED <<world, admits, setup, channel, answered, exchanges>>

---------------------------------------------------------------------------
Init ==
  /\ blocks = <<{}>>
  /\ chain = [bond |-> "none", payment |-> "none", leased |-> FALSE, live |-> Coins]
  /\ pool = {}
  /\ admits \in BOOLEAN
  /\ setup = [r \in Roles |-> NewSetup]
  /\ driver = [r \in Roles |-> Idle]
  /\ channel = [r \in Roles |-> Unopened]
  /\ exchange = Resting
  /\ answered = [o \in 0..3 |-> 0]
  /\ crashes = 0 /\ exchanges = 0

Next ==
  \/ Block \/ LoseSubmission
  \/ \E r \in Drivers : Drive(r) \/ Crash(r)
  \/ ProposeBond \/ ArmScan \/ ProposePayment
  \/ Ask \/ Answer \/ Import \/ DieAnswering

Spec == Init /\ [][Next]_vars

---------------------------------------------------------------------------
(* Properties *)

TypeOK ==
  /\ \A h \in 1..Height : blocks[h] \subseteq Txs
  /\ chain.bond \in {"none", "open", "closed"} /\ chain.payment \in {"none", "open", "closed"}
  /\ chain.live \subseteq Coins /\ pool \subseteq {"openBond", "openPayment", "timeoutBond"}
  /\ \A r \in Roles :
       /\ setup[r].revision \in 0..3 /\ setup[r].end \in Ends
       /\ setup[r].cursor \in 0..Height /\ setup[r].origin \in 0..Height
       /\ setup[r].unresolved \subseteq {"openBond", "openPayment"}
       /\ driver[r].pc \in {"idle", "ask", "decide", "submit", "mount"}

\* A setup that stopped cleanly left no stake behind: once the provider's
\* journal says aborted, the bond is not on the chain and never will be,
\* whatever was in flight when it stopped.
AbortsHoldNoStake ==
  setup["provider"].end \in Aborts => chain.bond # "open"

Happened(tx) == \E h \in 1..Height : tx \in blocks[h]

\* A permanent outcome tells the truth about the chain: stake or payment funding
\* is called spent only when somebody else really spent it, and no order of
\* reads, scans and revisions makes the endpoint stop over a state it cannot
\* explain or a lease it takes for another's.
OutcomesAreTrue ==
  \A r \in Roles :
    /\ setup[r].end = "bondSpent" => Happened("spendBond")
    /\ setup[r].end = "paymentSpent" => Happened("spendPayment")
    /\ setup[r].end = "reclaimed" => chain.bond = "closed"
    /\ setup[r].end \notin {"unexplained", "leasedElsewhere"}

\* No crash hides a submission: while an Open handed to consensus can still be
\* included, the provider's journal knows of it or has seen it finalized.
SubmissionsAreRemembered ==
  \A tx \in pool \cap {"openBond", "openPayment"} :
    Includable(chain, Height + 1, tx) => tx \in setup["provider"].unresolved

\* No signature leaves a process whose journal would not produce it again: what
\* is on the wire, in the pool or on the chain is held by the journal it came from.
ExportsAreJournaled ==
  /\ exchange.answer <= setup["provider"].revision
  /\ exchange.offer <= setup["client"].revision
  /\ pool \cap {"openBond", "openPayment"} # {} => setup["provider"].revision = 3
  /\ setup["client"].revision = 3 => setup["provider"].revision = 3

\* A journal can always be reopened: every state its records reach passes the
\* checks a checkpoint is reopened under and an observation is refused by.
CheckpointsReopen == \A r \in Roles : Revalidates(setup[r], r)

\* Both endpoints anchor the channel at the one block that opened it, and a
\* mounted channel has seen the close exactly when its blocks hold one, even
\* when one block both opened and closed the channel.
ChannelsShareHistory ==
  \A r \in Roles :
    /\ setup[r].origin # 0 => "openPayment" \in blocks[setup[r].origin]
    /\ channel[r].origin \in {0, setup[r].origin}
    /\ channel[r].cursor # 0 =>
         (channel[r].closed <=> "closePayment" \in Seen(channel[r].origin - 1, channel[r].cursor))

============================================================================
