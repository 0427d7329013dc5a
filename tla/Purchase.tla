------------------------------ MODULE Purchase ------------------------------
(* The durable record of one job's purchase and the command that drives it.

   A command selects the attempt's record, opens a session on a payment
   channel, persists the nonce it is about to use, proposes the work, records
   its acceptance, collects and verifies the result, signs the payment, keeps
   the output, and reports it.  Every one of those steps is a separate durable
   write to one of three places: the record, the channel journal, and the
   output kept beside the record.  The process may stop between any two.

   Tracked is the command line's flow (crates/cli transact over
   ExecutionAttempt): an attempt per file, a pointer to the latest one, and
   recovery that never proposes.  ~Tracked is the SDK's Purchase::open flow:
   one file per job, reconciled with the journal, and resumed.

   The channel journal is the Channel module's; here a job is its phase, the
   purchase that proposed it, and its three deadlines.  One cursor stands for
   the height every journal has observed.                                   *)
EXTENDS Integers, FiniteSets

CONSTANTS Channels,     \* payment channels with the provider
          MaxNonce,     \* bound: proposals per channel
          MaxBuys,      \* bound: decisions of the user to buy
          MaxHeight,    \* bound: finalized heights the journals observe
          AcceptBlocks, \* acceptance_blocks
          TerminalBlocks, \* terminal_blocks
          PayBlocks,    \* payment_blocks
          Retains,      \* the journal keeps the bytes of a proposal
          Tracked,      \* the attempt facade, or the plain purchase file
          NoChannel

ASSUME PurchaseConstants ==
    /\ NoChannel \notin Channels
    /\ MaxNonce \in Nat \ {0} /\ MaxBuys \in Nat \ {0} /\ MaxHeight \in Nat
    /\ AcceptBlocks \in Nat /\ {TerminalBlocks, PayBlocks} \subseteq Nat \ {0}
    /\ {Tracked, Retains} \subseteq BOOLEAN

VARIABLES file,     \* [Files -> record]: the purchase files
          latest,   \* the pointer file: the latest attempt, 0 when missing
          side,     \* [Files -> ...]: the output and the receipt kept beside
          jobs,     \* [Channels -> [nonce -> job]]: the channel journals
          closing,  \* [Channels -> ...]: a close signed here, or finalized
          cursor,   \* the finalized height the journals have observed
          pc,       \* what the running command does next
          at,       \* the file it holds
          rec,      \* its copy of the record
          again,    \* --buy-again, where the file is shared
          sess,     \* the channel its session is open on
          work,     \* the nonce of the work it runs there
          bought,   \* the decisions to buy so far
          shown     \* the works whose output the user was given

durable == <<file, latest, side, jobs, closing, cursor>>
memory == <<pc, at, rec, again, sess, work>>
vars == <<file, latest, side, jobs, closing, cursor, pc, at, rec, again, sess, work, bought, shown>>

Buys == 1..MaxBuys
Files == IF Tracked THEN Buys ELSE {1}
Nonces == 1..MaxNonce
Bindings == {"InputBound", "TargetBound", "ChannelBound"}
Phases == Bindings \cup {"None", "Running", "Paying", "Paid", "Reported", "Rejected"}
Live == {"HalfSigned", "Accepted", "Verified", "Failed"}
JobPhases == Live \cup {"None", "Certified", "Rejected", "Expired"}

NoRecord == [phase |-> "None", chan |-> NoChannel, nonce |-> 0, work |-> 0, by |-> 0]
NoJob == [phase |-> "None", by |-> 0, made |-> 0, accept |-> 0, terminal |-> 0, pay |-> 0]

\* A job keeps the nonce its request was made for; each of its windows begins
\* where the one before it ends.
NewJob(phase, by, made) ==
    [phase |-> phase, by |-> by, made |-> made, accept |-> cursor + AcceptBlocks,
     terminal |-> cursor + AcceptBlocks + TerminalBlocks,
     pay |-> cursor + AcceptBlocks + TerminalBlocks + PayBlocks]

\* proposal_nonce_high_water: nonces are consumed in order and never reused.
High(c) == Cardinality({n \in Nonces : jobs[c][n].phase # "None"})
\* The job at the record's nonce, the work the record names, and the work of
\* the running command.
Named(r) == jobs[r.chan][r.nonce]
WorkOf(r) == jobs[r.chan][r.work]
Current == jobs[sess][work]
Overdue(j) == \/ j.pay < cursor
              \/ j.phase = "HalfSigned" /\ j.accept < cursor
\* check_payment_window
InPaymentWindow(j) == cursor <= j.pay
IsClosing(c) == closing[c] # "open"
Idle == pc = "idle"

-----------------------------------------------------------------------------
\* The shared ends of a command.  The lock and the session go with it.
Leave == /\ pc' = "idle" /\ at' = 0 /\ rec' = NoRecord /\ again' = FALSE
         /\ sess' = NoChannel /\ work' = 0

Goto(next) == /\ pc' = next
              /\ UNCHANGED <<at, again, sess, work>>

\* write_atomically of the record: the file and the copy agree afterwards.
Persist(r) == /\ rec' = r
              /\ file' = [file EXCEPT ![at] = r]

SetJob(c, n, j) == jobs' = [jobs EXCEPT ![c][n] = j]
SetPhase(phase) == SetJob(sess, work, [Current EXCEPT !.phase = phase])

-----------------------------------------------------------------------------
(* Selecting the record. *)

\* select_attempt: a fresh attempt is created on disk before the pointer names
\* it; without --buy-again the pointer's attempt is opened, and attempts with
\* no pointer refuse a new one.
SelectExisting ==
    /\ Tracked /\ Idle /\ latest # 0
    /\ pc' = "kept" /\ at' = latest /\ rec' = file[latest] /\ again' = FALSE
    /\ UNCHANGED <<durable, sess, work, bought, shown>>

MayCreate(buyAgain) ==
    buyAgain \/ (latest = 0 /\ \A f \in Files : file[f] = NoRecord)

SelectNew(buyAgain) ==
    /\ Tracked /\ Idle /\ bought < MaxBuys
    /\ MayCreate(buyAgain)
    /\ bought' = bought + 1
    /\ at' = bought + 1
    /\ LET r == [NoRecord EXCEPT !.phase = "InputBound", !.by = bought + 1]
       IN  /\ rec' = r
           /\ file' = [file EXCEPT ![bought + 1] = r]
    /\ pc' = "point" /\ again' = FALSE
    /\ UNCHANGED <<latest, side, jobs, closing, cursor, sess, work, shown>>

PointLatest ==
    /\ pc = "point"
    /\ latest' = at
    /\ Goto("kept")
    /\ UNCHANGED <<file, side, jobs, closing, cursor, rec, bought, shown>>

\* The records Purchase::open leaves behind: finished ones, and a paid one
\* when the user asks to buy again.
Finished(r, buyAgain) == \/ r.phase \in {"None", "Reported", "Rejected"}
                         \/ buyAgain /\ r.phase = "Paid"

\* Purchase::open.  A Paid record without --buy-again is ResultLost.
OpenPlain(buyAgain) ==
    /\ ~Tracked /\ Idle
    /\ buyAgain \/ file[1].phase # "Paid"
    /\ IF Finished(file[1], buyAgain)
       THEN /\ bought < MaxBuys
            /\ bought' = bought + 1
            /\ rec' = NoRecord
       ELSE bought' = bought /\ rec' = file[1]
    /\ pc' = "reconcile" /\ at' = 1 /\ again' = buyAgain
    /\ UNCHANGED <<durable, sess, work, shown>>

-----------------------------------------------------------------------------
(* Purchase::reconcile: the plain record against the journal. *)

\* A recorded Failed result is made terminal first, then judged with the other
\* unpaid ends; the file is removed.
Judge(phase) == IF phase = "Failed" THEN "Rejected" ELSE phase

ReconcileUnpaid ==
    /\ pc = "reconcile" /\ rec.work # 0
    /\ Judge(WorkOf(rec).phase) \in {"Rejected", "Expired"}
    /\ SetJob(rec.chan, rec.work, [WorkOf(rec) EXCEPT !.phase = Judge(@)])
    /\ Persist(NoRecord)
    /\ bought < MaxBuys /\ bought' = bought + 1
    /\ Goto("connect")
    /\ UNCHANGED <<latest, side, closing, cursor, shown>>

\* A certified payment is ResultLost, or forgotten when buying again.
ReconcileCertified ==
    /\ pc = "reconcile" /\ rec.work # 0 /\ WorkOf(rec).phase = "Certified"
    /\ file' = [file EXCEPT ![at] = [rec EXCEPT !.phase = "Paid"]]
    /\ IF again
       THEN /\ bought < MaxBuys /\ bought' = bought + 1
            /\ rec' = NoRecord
            /\ Goto("connect")
       ELSE Leave /\ UNCHANGED bought
    /\ UNCHANGED <<latest, side, jobs, closing, cursor, shown>>

\* What may go on: no record; live work of the record's nonce within its
\* deadlines; or a nonce that is still the next one of an open channel.
MayResume(r) ==
    \/ r.phase = "None"
    \/ /\ r.phase # "None" /\ Named(r).phase \in Live /\ ~Overdue(Named(r))
       /\ r.work \in {0, r.nonce}
    \/ r.phase # "None" /\ r.work = 0 /\ r.nonce = High(r.chan) + 1 /\ ~IsClosing(r.chan)

ReconcileResume ==
    /\ pc = "reconcile"
    /\ rec.work # 0 => WorkOf(rec).phase \notin {"Failed", "Certified", "Rejected", "Expired"}
    /\ IF MayResume(rec) THEN Goto("connect") /\ UNCHANGED rec ELSE Leave
    /\ UNCHANGED <<durable, bought, shown>>

-----------------------------------------------------------------------------
(* The attempt facade: kept output first, then a session. *)

\* execute's head: retained_paid_result, inspect.
Kept ==
    /\ pc = "kept"
    /\ IF side[at] \in {"receipt", "reported"}
       THEN Goto("deliver") /\ UNCHANGED rec
       ELSE IF rec.phase \in {"Paid", "Reported", "Rejected"}
            THEN Leave
            ELSE Goto("connect") /\ UNCHANGED rec
    /\ UNCHANGED <<durable, bought, shown>>

\* open_paid_session binds the target before anything is funded or signed.
BindTarget ==
    /\ pc = "connect" /\ Tracked /\ rec.phase = "InputBound"
    /\ Persist([rec EXCEPT !.phase = "TargetBound"])
    /\ Goto("connect")
    /\ UNCHANGED <<latest, side, jobs, closing, cursor, bought, shown>>

\* (slip: a session on another channel starts the binding over)
ConnectRebinds(c) ==
    /\ pc = "connect" /\ rec.phase # "InputBound"
    /\ Persist(IF rec.chan = c THEN rec
               ELSE [rec EXCEPT !.phase = "ChannelBound", !.chan = c, !.nonce = 0, !.work = 0])
    /\ pc' = "execute" /\ sess' = c /\ UNCHANGED <<at, again, work>>
    /\ UNCHANGED <<latest, side, jobs, closing, cursor, bought, shown>>

\* The session opens on some channel; bind_channel fixes the first one and
\* refuses any other.
Connect(c) ==
    /\ pc = "connect" /\ rec.phase # "InputBound"
    /\ \/ /\ rec.phase = "TargetBound"
          /\ Persist([rec EXCEPT !.phase = "ChannelBound", !.chan = c])
          /\ pc' = "execute" /\ sess' = c /\ UNCHANGED <<at, again, work>>
       \/ /\ rec.phase # "TargetBound"
          /\ rec.chan = c \/ ~Tracked
          /\ pc' = "execute" /\ sess' = c /\ UNCHANGED <<at, again, work, rec, file>>
       \/ /\ rec.phase # "TargetBound" /\ Tracked /\ rec.chan # c
          /\ Leave /\ UNCHANGED file
    /\ UNCHANGED <<latest, side, jobs, closing, cursor, bought, shown>>

-----------------------------------------------------------------------------
(* transact: choose the nonce, persist it, run the prepared request. *)

\* Purchase::nonce and prepare.  The retained authorization must be for this
\* purchase's own request; else the nonce must still be the channel's next.
Bound(r) == r.phase \notin {"None", "ChannelBound"}
Mine(r, j, n) == j.made = n /\ IF Tracked THEN j.by = r.by ELSE j.by # 0
Active(j) == j.phase \in Live /\ ~Overdue(j)
Retained(r) == {n \in Nonces : Active(jobs[sess][n]) /\ Mine(r, jobs[sess][n], n)}
BuysAgain(r) == again /\ r.phase = "None"

\* An unbound record takes up the one job whose request is its own; two such
\* jobs are ambiguous, and none, or buying again, takes the next nonce.
Prepared(r) ==
    CASE Bound(r) -> {n \in {r.nonce} : r.chan = sess /\ (n \in Retained(r) \/ High(sess) + 1 = n)}
      [] ~Bound(r) /\ (BuysAgain(r) \/ Retained(r) = {}) -> {High(sess) + 1} \cap Nonces
      [] OTHER -> {n \in Retained(r) : Retained(r) = {n}}

\* The facade never runs a record that already holds a nonce: it recovers.
Begin(n) ==
    /\ pc = "execute" /\ ~(Tracked /\ rec.nonce # 0)
    /\ n \in Prepared(rec)
    /\ IF Bound(rec)
       THEN UNCHANGED <<rec, file>>
       ELSE Persist([rec EXCEPT !.phase = "Running", !.chan = sess, !.nonce = n,
                                !.by = IF Tracked THEN @ ELSE bought])
    /\ Goto("run")
    /\ UNCHANGED <<latest, side, jobs, closing, cursor, bought, shown>>

Unprepared ==
    /\ pc = "execute" /\ ~(Tracked /\ rec.nonce # 0)
    /\ Prepared(rec) = {}
    /\ Leave
    /\ UNCHANGED <<durable, bought, shown>>

\* The journal's jobs with this very request, looked up again: the one that
\* was prepared for may have run out since.
Existing == {n \in Nonces : Active(jobs[sess][n]) /\ Mine(rec, jobs[sess][n], rec.nonce)}
HalfSignedOn(c) == \E n \in Nonces : jobs[c][n].phase = "HalfSigned"

\* run_prepared and execute_paid_job: a closing channel admits nothing; the
\* retained job of this request is picked up where it stands; otherwise the
\* proposal is journaled half-signed, at the next nonce, before it is sent.
Propose ==
    /\ pc = "run" /\ ~IsClosing(sess)
    /\ Existing = {} /\ High(sess) < MaxNonce
    /\ work' = High(sess) + 1
    /\ SetJob(sess, work', NewJob("HalfSigned", rec.by, rec.nonce))
    /\ pc' = "sent"
    /\ UNCHANGED <<file, latest, side, closing, cursor, at, again, sess, rec, bought, shown>>

PickUp ==
    /\ pc = "run" /\ ~IsClosing(sess)
    /\ \E n \in Existing :
         /\ Existing = {n}
         /\ work' = n
         /\ pc' = IF jobs[sess][n].phase = "HalfSigned" THEN "sent" ELSE "accepted"
    /\ UNCHANGED <<durable, at, again, sess, rec, bought, shown>>

\* A closing channel, an ambiguous request, or another proposal whose exchange
\* is still pending.
NotAdmitting ==
    /\ pc = "run"
    /\ IsClosing(sess) \/ Cardinality(Existing) > 1 \/ (Existing = {} /\ HalfSignedOn(sess))
    /\ Leave
    /\ UNCHANGED <<durable, bought, shown>>

\* The provider's answer: its signature completes the acceptance, which the
\* client journals; a refusal or a lost answer ends the command.
Accepted ==
    /\ pc = "sent" /\ Current.phase = "HalfSigned" /\ cursor <= Current.accept
    /\ SetPhase("Accepted")
    /\ Goto("accepted")
    /\ UNCHANGED <<file, latest, side, closing, cursor, rec, bought, shown>>

\* Any error on the way: refusals, timeouts and lost connections return from
\* the command with the durable state as it is.
GiveUp ==
    /\ pc \in {"sent", "fetch", "reject", "pay", "recover"}
    /\ Leave
    /\ UNCHANGED <<durable, bought, shown>>

\* purchase.accepting: a record that names other work refuses this one.
Accepting ==
    /\ pc = "accepted"
    /\ IF rec.work \in {0, work}
       THEN Persist([rec EXCEPT !.work = work, !.phase = "Running"]) /\ Goto("fetch")
       ELSE Leave /\ UNCHANGED file
    /\ UNCHANGED <<latest, side, jobs, closing, cursor, bought, shown>>

\* fetch_result, check_payment_window, verify_transcript: the verified result
\* is journaled with its outcome.
Collect(outcome) ==
    /\ pc = "fetch" /\ InPaymentWindow(Current)
    /\ Current.phase \in {"Accepted", outcome}
    /\ SetPhase(outcome)
    /\ Goto(IF outcome = "Failed" THEN "reject" ELSE "paying")
    /\ UNCHANGED <<file, latest, side, closing, cursor, rec, bought, shown>>

\* client.rejected, then purchase.unpaid: two writes.
Reject ==
    /\ pc = "reject" /\ Current.phase = "Failed" /\ SetPhase("Rejected")
    /\ Goto("unpaid")
    /\ UNCHANGED <<file, latest, side, closing, cursor, rec, bought, shown>>

\* Purchase::unpaid: a tracked record says so, a plain one is removed.
UnpaidRecord(r) == IF Tracked THEN [r EXCEPT !.phase = "Rejected"] ELSE NoRecord

Unpaid ==
    /\ pc = "unpaid"
    /\ file' = [file EXCEPT ![at] = UnpaidRecord(rec)]
    /\ Leave
    /\ UNCHANGED <<latest, side, jobs, closing, cursor, bought, shown>>

Paying ==
    /\ pc = "paying"
    /\ Persist([rec EXCEPT !.phase = "Paying"])
    /\ Goto("pay")
    /\ UNCHANGED <<latest, side, jobs, closing, cursor, bought, shown>>

\* pay_when_ready: the certificate is signed and journaled once, within the
\* payment deadline; sending it again signs nothing.
Pay ==
    /\ pc = "pay" /\ ~IsClosing(sess)
    /\ Current.phase = "Verified" /\ InPaymentWindow(Current)
    /\ SetPhase("Certified")
    /\ Goto("paid")
    /\ UNCHANGED <<file, latest, side, closing, cursor, rec, bought, shown>>

Paid ==
    /\ pc = "paid"
    /\ Persist([rec EXCEPT !.phase = "Paid"])
    /\ Goto(IF Tracked THEN "keep" ELSE "deliver")
    /\ UNCHANGED <<latest, side, jobs, closing, cursor, bought, shown>>

-----------------------------------------------------------------------------
(* complete, deliver, reported. *)

\* complete writes the output, then the receipt that names it.
Keep ==
    /\ pc = "keep" /\ side[at] = "none"
    /\ side' = [side EXCEPT ![at] = "result"]
    /\ Goto("keep")
    /\ UNCHANGED <<file, latest, jobs, closing, cursor, rec, bought, shown>>

Receipt ==
    /\ pc = "keep" /\ side[at] = "result"
    /\ side' = [side EXCEPT ![at] = "receipt"]
    /\ Goto("deliver")
    /\ UNCHANGED <<file, latest, jobs, closing, cursor, rec, bought, shown>>

Deliver ==
    /\ pc = "deliver"
    /\ shown' = shown \cup {<<rec.chan, rec.work>>}
    /\ Goto("report")
    /\ UNCHANGED <<durable, rec, bought>>

\* reported: the receipt first, then the record.
ReportReceipt ==
    /\ pc = "report" /\ Tracked /\ side[at] = "receipt"
    /\ side' = [side EXCEPT ![at] = "reported"]
    /\ Goto("report")
    /\ UNCHANGED <<file, latest, jobs, closing, cursor, rec, bought, shown>>

ReportedRecord(r) == [r EXCEPT !.phase = "Reported"]

Report ==
    /\ pc = "report"
    /\ Tracked => side[at] = "reported"
    /\ file' = [file EXCEPT ![at] = ReportedRecord(rec)]
    /\ Leave
    /\ UNCHANGED <<latest, side, jobs, closing, cursor, bought, shown>>

-----------------------------------------------------------------------------
(* ExecutionSession::recover of a paid attempt: it never proposes. *)

\* accepted_work: this record's nonce, this purchase's request, and the
\* provider's signature.
AcceptedWork(r) ==
    Named(r).phase \in {"Accepted", "Verified", "Failed"} /\ Mine(r, Named(r), r.nonce)

RecoverStart ==
    /\ pc = "execute" /\ Tracked /\ rec.nonce # 0
    /\ LET w == IF rec.work = 0 /\ AcceptedWork(rec) THEN rec.nonce ELSE rec.work
       IN  IF w = 0 THEN Leave /\ UNCHANGED file
           ELSE /\ Persist(IF rec.work = 0 THEN [rec EXCEPT !.work = w, !.phase = "Running"] ELSE rec)
                /\ pc' = "recover" /\ work' = w /\ UNCHANGED <<at, again, sess>>
    /\ UNCHANGED <<latest, side, jobs, closing, cursor, bought, shown>>

\* The recorded terminal decides; a verified finished result is paid now.
TerminalRecord(r, phase) ==
    IF phase = "Certified" THEN [r EXCEPT !.phase = "Paid"] ELSE UnpaidRecord(r)

RecoverTerminal ==
    /\ pc = "recover" /\ Current.phase \in {"Certified", "Rejected", "Expired"}
    /\ file' = [file EXCEPT ![at] = TerminalRecord(rec, Current.phase)]
    /\ Leave
    /\ UNCHANGED <<latest, side, jobs, closing, cursor, bought, shown>>

RecoverPay ==
    /\ pc = "recover" /\ ~IsClosing(sess)
    /\ Current.phase = "Verified" /\ InPaymentWindow(Current)
    /\ SetPhase("Certified")
    /\ Goto("recover")
    /\ UNCHANGED <<file, latest, side, closing, cursor, rec, bought, shown>>

-----------------------------------------------------------------------------
(* Around the command. *)

\* The process stops; memory goes, locks are released.
Crash ==
    /\ ~Idle
    /\ Leave
    /\ UNCHANGED <<durable, bought, shown>>

\* Another job of the same client consumes a channel's next nonce.
OtherJob(c) ==
    /\ sess # c /\ ~IsClosing(c) /\ High(c) < MaxNonce
    /\ SetJob(c, High(c) + 1, NewJob("Accepted", 0, 0))
    /\ UNCHANGED <<file, latest, side, closing, cursor, memory, bought, shown>>

\* The bytes of a half-signed proposal are in its journal, or with the command
\* that is sending it.
HasBytes(c, n) == Retains \/ (pc = "sent" /\ sess = c /\ work = n)

\* expiry_at, for the client: unfinished work ends at its terminal deadline, a
\* proposal nobody can send again at its acceptance deadline, and a result
\* nobody paid for at its payment deadline.
ExpiresAt(c, n, height) ==
    LET j == jobs[c][n]
    IN  \/ j.phase \in {"HalfSigned", "Accepted"} /\ height > j.terminal
        \/ j.phase = "HalfSigned" /\ ~HasBytes(c, n) /\ height > j.accept
        \/ j.phase \in {"Verified", "Failed"} /\ height > j.pay

\* apply_finalized_txs: the start of a close, by either party, is the cutoff of
\* every job the channel still has open.
CutOff(c, n, starts) == c \in starts /\ jobs[c][n].phase \in Live

\* observe: the work a block ends is retired before the cursor moves onto it.  A
\* start signed here counts only while it can be included, here to the next block.
Block(starts) ==
    /\ cursor < MaxHeight /\ \A c \in starts : closing[c] # "contested"
    /\ jobs' = [c \in Channels |-> [n \in Nonces |->
                  IF ExpiresAt(c, n, cursor + 1) \/ CutOff(c, n, starts)
                  THEN [jobs[c][n] EXCEPT !.phase = "Expired"] ELSE jobs[c][n]]]
    /\ closing' = [c \in Channels |-> IF c \in starts THEN "contested"
                                     ELSE IF closing[c] = "started" THEN "open" ELSE closing[c]]
    /\ cursor' = cursor + 1
    /\ UNCHANGED <<file, latest, side, memory, bought, shown>>

\* Another command of this client signs a start of the close.
Close(c) ==
    /\ sess # c /\ closing[c] = "open"
    /\ closing' = [closing EXCEPT ![c] = "started"]
    /\ UNCHANGED <<file, latest, side, jobs, cursor, memory, bought, shown>>

Init ==
    /\ file = [f \in Files |-> NoRecord] /\ latest = 0
    /\ side = [f \in Files |-> "none"]
    /\ jobs = [c \in Channels |-> [n \in Nonces |-> NoJob]]
    /\ closing = [c \in Channels |-> "open"] /\ cursor = 0
    /\ pc = "idle" /\ at = 0 /\ rec = NoRecord /\ again = FALSE /\ sess = NoChannel
    /\ work = 0 /\ bought = 0 /\ shown = {}

Select == \/ SelectExisting
          \/ \E b \in BOOLEAN : SelectNew(b) \/ OpenPlain(b)
          \/ PointLatest
Reconcile == ReconcileUnpaid \/ ReconcileCertified \/ ReconcileResume
Session == Kept \/ BindTarget \/ \E c \in Channels : Connect(c)
Run == \/ (\E n \in Nonces : Begin(n)) \/ Unprepared \/ Propose \/ PickUp \/ NotAdmitting
       \/ Accepted \/ GiveUp \/ Accepting \/ Reject \/ Unpaid
       \/ (\E o \in {"Verified", "Failed"} : Collect(o)) \/ Paying \/ Pay \/ Paid
Finish == Keep \/ Receipt \/ Deliver \/ ReportReceipt \/ Report
Recover == RecoverStart \/ RecoverTerminal \/ RecoverPay
Around == \/ Crash \/ \E starts \in SUBSET Channels : Block(starts)
          \/ \E c \in Channels : OtherJob(c) \/ Close(c)

Next == Select \/ Reconcile \/ Session \/ Run \/ Finish \/ Recover \/ Around

Spec == Init /\ [][Next]_vars

-----------------------------------------------------------------------------
OwnJobs == {w \in Channels \X Nonces : jobs[w[1]][w[2]].by # 0}
Certified == {w \in OwnJobs : jobs[w[1]][w[2]].phase = "Certified"}
JobOf(w) == jobs[w[1]][w[2]]
\* The file of decision b: its own when tracked, the shared one otherwise.
FileOf(b) == IF Tracked THEN file[b] ELSE file[1]
Names(r, w) == r.chan = w[1] /\ w[2] \in {r.nonce, r.work}

Records == [phase : Phases, chan : Channels \cup {NoChannel}, nonce : 0..MaxNonce,
            work : 0..MaxNonce, by : 0..MaxBuys]

\* Types, and the consistency Purchase::open_identity demands of every file it
\* reads: only an unbound record has no nonce, and a paid or rejected one names
\* its work.
TypeOK ==
    /\ \A f \in Files : /\ file[f] \in Records
                        /\ file[f].nonce = 0 <=> file[f].phase \in Bindings \cup {"None"}
                        /\ file[f].phase \in {"Paying", "Paid", "Reported", "Rejected"} => file[f].work # 0
    /\ latest \in {0} \cup Files
    /\ \A f \in Files : side[f] \in {"none", "result", "receipt", "reported"}
    /\ \A c \in Channels, n \in Nonces : jobs[c][n].phase \in JobPhases
    /\ closing \in [Channels -> {"open", "started", "contested"}] /\ cursor \in 0..MaxHeight
    /\ rec \in Records /\ bought \in 0..MaxBuys

\* One decision to buy is charged at most once, wherever the command stopped
\* and however often it was started again: a purchase never has two certified
\* payments, on one channel or on two.
ChargedOnce ==
    \A v, w \in Certified : JobOf(v).by = JobOf(w).by => v = w

\* The nonce reaches the record before the proposal can leave the process: live
\* or paid work of a purchase is named by that purchase's file, until the user
\* was shown its output or asked to buy again.  The one exception is never paid:
\* work proposed in place of work that ran out while it was being picked up.
ProposalsAreRecorded ==
    \A w \in OwnJobs :
        \/ JobOf(w).phase \in {"Rejected", "Expired"}
        \/ JobOf(w).made # w[2] /\ JobOf(w).phase # "Certified"
        \/ Names(FileOf(JobOf(w).by), w) /\ FileOf(JobOf(w).by).by = JobOf(w).by
        \/ ~Tracked /\ JobOf(w).by < bought /\ JobOf(w).phase = "Certified"

\* What the record says of the payment is what the journal holds: paid and
\* reported records name a certified payment of their own purchase, rejected
\* ones work that ended unpaid.
RecordsTellTheTruth ==
    \A f \in Files :
        /\ file[f].phase \in {"Paid", "Reported"} =>
             WorkOf(file[f]).phase = "Certified" /\ WorkOf(file[f]).by = file[f].by
        /\ file[f].phase = "Rejected" => WorkOf(file[f]).phase \in {"Rejected", "Expired"}
        /\ file[f].work # 0 => WorkOf(file[f]).by = file[f].by

\* Output kept for a later delivery belongs to a paid attempt, and what the
\* user was shown was paid for.
OutputIsPaid ==
    /\ \A f \in Files : side[f] # "none" => file[f].phase \in {"Paid", "Reported"}
    /\ shown \subseteq Certified

---------------------------------------------------------------------------
\* One decision to buy is charged at most once wherever the command stopped: its nonce
\* is durable before its proposal leaves, its file tells what the channel holds, and
\* a receipt is of output that was paid for.
PurchasesAreSafe ==
  TypeOK /\ ChargedOnce /\ ProposalsAreRecorded /\ RecordsTellTheTruth /\ OutputIsPaid
=============================================================================
