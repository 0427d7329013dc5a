------------------------------ MODULE Channel ------------------------------
(***************************************************************************)
(* One paid channel: the client's and the provider's endpoint, each over   *)
(* its own journal, the calls between them, and the chain both read block  *)
(* by block.                                                               *)
(*                                                                         *)
(* The first half is the durable state of one endpoint and the rule that   *)
(* decides whether a record may be appended to it.  Every record kind is a *)
(* pair of operators on the journal's state s: ...Ok(s, ..), the rule, and *)
(* the state after the record.  A record the state already holds is        *)
(* accepted and changes nothing.                                           *)
(*                                                                         *)
(* A work id is the authorization it hashes: a nonce, three deadlines, a   *)
(* price and whether its content is retained on disk.  A signature is the  *)
(* record that carries it, a certificate is its cumulative amount, and a   *)
(* body (prepared input, transcript) is a Boolean: the bytes are held.     *)
(* Block payload and parent hashes are the block's height.                 *)
(*                                                                         *)
(* The second half is the two endpoints.  Each action commits at most one  *)
(* record, so a crash can fall between any two records of one handler.  A  *)
(* handler that commits several keeps its endpoint's lock in between:      *)
(* `reading' while a finalized block is read, `deciding' while a proposal  *)
(* is being co-signed.  Requests and payments stay in the network once     *)
(* sent: they may be handled late, again, or never.  A refused record      *)
(* leaves the journal as it was.                                           *)
(***************************************************************************)
EXTENDS KernelObjects, FiniteSetsExt, SequencesExt

CONSTANTS
  None,                 \* Option::None
  Capacity,             \* what the funded edge can pay the provider
  ComputeCreditLimit,
  DeliveryCreditLimit,
  OmitResponseBlocks,   \* the payment terms' three numbers
  StartValidityBlocks,
  OmissionBond

ASSUME ChannelAssumption ==
  /\ Capacity \in Nat
  /\ ComputeCreditLimit \in Nat
  /\ DeliveryCreditLimit \in Nat
  /\ OmitResponseBlocks \in Nat \ {0}
  /\ StartValidityBlocks \in Nat \ {0}
  /\ OmissionBond \in Nat

Role == {"Client", "Provider"}

PartyOf(role) == IF role = "Client" THEN "Maker" ELSE "Taker"

PaymentTerms ==
  [omit_response_blocks |-> OmitResponseBlocks,
   start_validity_blocks |-> StartValidityBlocks,
   omission_bond |-> OmissionBond]

Nothing == [w \in {} |-> None]

NewJournal(role) ==
  [role |-> role, cursor |-> 0, credited |-> 0,
   pending_proposal |-> None, jobs |-> Nothing, terminals |-> Nothing,
   nonce |-> 0, indeterminate |-> {},
   close_prepared |-> None, close_opened |-> None, close_history |-> None,
   close_responded |-> None, close_settled |-> None]

---------------------------------------------------------------------------
(* Reading the state *)

Open(s, w) == w \in DOMAIN s.jobs

Ended(s, w) == w \in DOMAIN s.terminals

Certified(s) == {w \in DOMAIN s.terminals : s.terminals[w].outcome = "Certified"}

DeliveredPhase == {"Streaming", "Delivered"}

ResultPhase == {"Ready", "Delivered", "Verified"}

\* executable_certificate, 0 for none
ExecutableAmount(s) == Max({0} \cup {s.terminals[w].amount : w \in Certified(s)})

IncludableCloseStart(s, height) ==
  /\ s.close_prepared # None
  /\ height <= s.close_prepared.through

\* Mutant: a start that can still be included stops nothing
IsClosingOnChain(s) == s.close_opened # None \/ s.close_settled # None

IsClosing(s) ==
  \/ s.close_opened # None
  \/ s.close_settled # None
  \/ IncludableCloseStart(s, s.cursor)

PriceOf(S) == SumFunction([w \in S |-> w.price])

Reserved(s) == PriceOf(DOMAIN s.jobs)

ReservedDelivery(s) ==
  PriceOf({w \in DOMAIN s.jobs : s.jobs[w].phase \in DeliveredPhase})

AnswerableContest(s) ==
  /\ s.role = "Provider"
  /\ s.close_settled = None
  /\ s.close_opened # None
  /\ s.close_opened.opener = "Maker"
  /\ s.cursor < s.close_opened.deadline
  /\ ExecutableAmount(s) > s.close_opened.claimed
  /\ s.close_history # None => ~s.close_history.contest.responded

\* expiry_at: the deadlines past which an open job can no longer be paid for
ExpiredAt(s, w, height) ==
  LET job == s.jobs[w]
  IN IF s.role = "Provider"
     THEN \/ height > w.payment
          \/ height > w.terminal /\ job.result = None
          \/ height > w.acceptance /\ job.phase = "HalfSigned"
     ELSE \/ height > w.terminal /\ job.result = None
          \/ height > w.acceptance /\ job.phase = "HalfSigned" /\ ~job.input
          \/ height > w.payment /\ job.result # None

---------------------------------------------------------------------------
(* Records about jobs *)

ProposalExchangeOk(s, w) ==
  /\ s.role = "Client"
  /\ Open(s, w)
  /\ s.jobs[w].phase = "HalfSigned"
  /\ s.pending_proposal \in {None, w}

ProposalExchange(s, w, pending) ==
  [s EXCEPT !.pending_proposal = IF pending THEN w ELSE None]

\* Offered again it must carry the very bytes the open job holds
JobProposedOk(s, w) ==
  IF Open(s, w) THEN s.jobs[w].input
  ELSE /\ ~Ended(s, w)
       /\ ~IsClosing(s)
       /\ w.nonce > s.nonce
       /\ s.role = "Provider" => Reserved(s) + w.price <= ComputeCreditLimit
       /\ s.role = "Client" => s.pending_proposal = None

HalfSigned == [phase |-> "HalfSigned", cosigned |-> FALSE, input |-> TRUE,
               result |-> None, body |-> FALSE]

JobProposed(s, w) ==
  IF Open(s, w) THEN s
  ELSE [s EXCEPT !.jobs = Put(@, w, HalfSigned),
                 !.nonce = w.nonce,
                 !.pending_proposal = IF s.role = "Client" THEN w ELSE @]

JobAcceptedOk(s, w) ==
  /\ Open(s, w)
  /\ \/ s.jobs[w].cosigned
     \/ /\ s.jobs[w].phase = "HalfSigned"
        /\ s.role = "Provider" => s.cursor <= w.acceptance

JobAccepted(s, w) ==
  IF s.jobs[w].cosigned THEN s
  ELSE [s EXCEPT !.jobs[w].phase = "Accepted",
                 !.jobs[w].cosigned = TRUE,
                 !.pending_proposal = IF @ = w THEN None ELSE @]

\* Mutant: a job found running is run again
JobRunningAgainOk(s, w) ==
  /\ s.role = "Provider"
  /\ Open(s, w)
  /\ s.jobs[w].phase \in {"Accepted", "Running"}
  /\ s.cursor <= w.terminal

\* begin_run reaches the record only from Accepted
JobRunningOk(s, w) ==
  /\ s.role = "Provider"
  /\ Open(s, w)
  /\ s.jobs[w].phase = "Accepted"
  /\ s.cursor <= w.terminal

JobRunning(s, w) == [s EXCEPT !.jobs[w].phase = "Running"]

\* The client alone may supply again a body its restart lost
JobResultOk(s, w, result) ==
  /\ Open(s, w)
  /\ LET job == s.jobs[w]
     IN IF job.result # None
        THEN /\ job.result = result
             /\ job.body \/ (s.role = "Client" /\ job.input)
        ELSE /\ w \notin s.indeterminate
             /\ job.phase \in IF s.role = "Provider" THEN {"Running", "Streaming"}
                              ELSE {"Accepted"}
             /\ s.cursor <= w.terminal
             /\ job.input

JobResult(s, w, result) ==
  [s EXCEPT !.jobs[w].result = result,
            !.jobs[w].body = TRUE,
            !.jobs[w].phase = IF s.jobs[w].result # None THEN @
                              ELSE IF @ = "Streaming" THEN "Delivered"
                              ELSE "Ready"]

ResultVerifiedOk(s, w) ==
  /\ s.role = "Client"
  /\ Open(s, w)
  /\ s.jobs[w].result = "Finished"
  /\ \/ s.jobs[w].phase = "Verified"
     \/ s.jobs[w].phase = "Ready" /\ s.jobs[w].body /\ s.jobs[w].input

ResultVerified(s, w) == [s EXCEPT !.jobs[w].phase = "Verified"]

\* Mutant: only a finished result is charged to the delivery limit
ReleasedStreamFreeOk(s, w) ==
  /\ s.role = "Provider"
  /\ Open(s, w)
  /\ \/ s.jobs[w].phase \in DeliveredPhase \cup {"Running"}
     \/ /\ s.jobs[w].phase = "Ready"
        /\ ReservedDelivery(s) + w.price <= DeliveryCreditLimit

PlaintextReleasedOk(s, w) ==
  /\ s.role = "Provider"
  /\ Open(s, w)
  /\ \/ s.jobs[w].phase \in DeliveredPhase
     \/ /\ s.jobs[w].phase \in {"Ready", "Running"}
        /\ ReservedDelivery(s) + w.price <= DeliveryCreditLimit

PlaintextReleased(s, w) ==
  [s EXCEPT !.jobs[w].phase = CASE @ = "Running" -> "Streaming"
                                [] @ = "Ready"   -> "Delivered"
                                [] OTHER         -> @]

\* JobBook::rest_at
RestAt(s, w, outcome, amount) ==
  [s EXCEPT !.jobs = Drop(@, {w}),
            !.terminals = Put(@, w, [outcome |-> outcome, amount |-> amount]),
            !.indeterminate = @ \ {w},
            !.pending_proposal = IF @ = w THEN None ELSE @]

\* Expired and Failed ask only for an open job
JobEndedOk(s, w) == Open(s, w)

JobEnded(s, w, outcome) == RestAt(s, w, outcome, 0)

RejectedOk(s, w) ==
  /\ s.role = "Client"
  /\ Open(s, w)
  /\ s.jobs[w].phase = "Ready"

\* next_payment: the one amount the next certificate may carry
NextPayment(s, w) == s.credited + w.price

PaidTerminal(amount) == [outcome |-> "Certified", amount |-> amount]

\* terminate_certified; offered again it must be the same payment
CertifiedOk(s, w, amount) ==
  IF Ended(s, w) THEN s.terminals[w] = PaidTerminal(amount)
  ELSE /\ Open(s, w)
       /\ s.jobs[w].phase = IF s.role = "Provider" THEN "Delivered" ELSE "Verified"
       /\ s.jobs[w].result = "Finished"
       /\ s.role = "Client" => s.cursor <= w.payment
       /\ amount = NextPayment(s, w)
       /\ amount <= Capacity

JobCertified(s, w, amount) ==
  IF Ended(s, w) THEN s
  ELSE [RestAt(s, w, "Certified", amount) EXCEPT !.credited = amount]

---------------------------------------------------------------------------
(* Records about the close of the payment edge *)

\* check_close_start: this party's start over the certificate held now
CloseStartOk(s, start) ==
  /\ start.opener = PartyOf(s.role)
  /\ start.claimed = ExecutableAmount(s)

ClosePreparedOk(s, start) ==
  \/ s.close_prepared = start
  \/ /\ s.close_opened = None
     /\ s.close_settled = None
     /\ DOMAIN s.jobs = {}
     /\ CloseStartOk(s, start)
     /\ ~IncludableCloseStart(s, s.cursor)

ClosePrepared(s, start) == [s EXCEPT !.close_prepared = start]

CloseOpenedOk(s, contest) ==
  \/ s.close_opened = contest
  \/ /\ s.close_settled = None
     /\ s.close_opened = None
     /\ DOMAIN s.jobs = {}

CloseOpened(s, contest) == [s EXCEPT !.close_opened = contest]

\* The height of the block that opened a contest
Inclusion(contest) == contest.deadline - OmitResponseBlocks

\* check_close_history: the record is of the contest this journal opened
HistoryOfContest(s, history) ==
  LET contest == s.close_opened
      pending == history.contest
  IN /\ contest # None
     /\ Inclusion(contest) <= history.height /\ history.height <= contest.deadline
     /\ history.height <= s.cursor + 1
     /\ pending.start_id = contest.start_id
     /\ pending.opener_role = contest.opener
     /\ pending.response_deadline = contest.deadline
     /\ pending.start_cumulative = contest.claimed
     /\ pending.final_cumulative <= Capacity
     /\ IF pending.responded
        THEN /\ pending.final_cumulative > contest.claimed
             /\ pending.penalty_due = (contest.opener = "Maker")
        ELSE /\ pending.final_cumulative = contest.claimed
             /\ ~pending.penalty_due

CloseHistoryAdvancedOk(s, history) ==
  /\ HistoryOfContest(s, history)
  /\ \/ s.close_history = history
     \/ /\ s.close_history = None
        /\ history.height = Inclusion(s.close_opened)
     \/ /\ s.close_history # None
        /\ history.height = s.close_history.height + 1
        /\ \/ history.contest = s.close_history.contest
           \/ /\ history.contest.responded /\ ~s.close_history.contest.responded
              /\ history.height < history.contest.response_deadline
              /\ history.contest.final_cumulative >= s.close_history.contest.final_cumulative

CloseHistoryAdvanced(s, history) == [s EXCEPT !.close_history = history]

\* The answer is the digest of the contest and the certificate
AnswerOf(s) == [start_id |-> s.close_opened.start_id, amount |-> ExecutableAmount(s)]

CloseRespondedOk(s, answer) ==
  \/ s.close_responded = answer
  \/ /\ s.close_responded = None
     /\ AnswerableContest(s)
     /\ answer = AnswerOf(s)

CloseResponded(s, answer) == [s EXCEPT !.close_responded = answer]

CloseSettledOk(s, settlement) ==
  \/ s.close_settled = settlement
  \/ s.close_settled = None /\ DOMAIN s.jobs = {}

CloseSettled(s, settlement) == [s EXCEPT !.close_settled = settlement]

CursorAdvanced(s, height) == [s EXCEPT !.cursor = height]

---------------------------------------------------------------------------
(* Rotation and restart *)

RightPhase(s, w) ==
  LET job == s.jobs[w]
  IN /\ job.phase \in {"Running", "Streaming", "Delivered"} => s.role = "Provider"
     /\ job.phase = "Verified" => s.role = "Client"
     /\ job.cosigned = (job.phase # "HalfSigned")
     /\ (job.result # None) = (job.phase \in ResultPhase)
     /\ job.phase = "Verified" => job.result = "Finished"

RetainedStartOk(s) == s.close_prepared # None => CloseStartOk(s, s.close_prepared)

\* revalidate but for the retained close start
RecordsRevalidate(s) ==
  /\ s.pending_proposal # None =>
       /\ s.role = "Client"
       /\ Open(s, s.pending_proposal)
       /\ s.jobs[s.pending_proposal].phase = "HalfSigned"
  /\ s.close_history # None => HistoryOfContest(s, s.close_history)
  /\ s.credited = ExecutableAmount(s)
  /\ \A w \in DOMAIN s.jobs : RightPhase(s, w)
  /\ DOMAIN s.jobs \cap DOMAIN s.terminals = {}
  /\ s.close_responded # None =>
       /\ s.close_opened # None
       /\ ExecutableAmount(s) > 0
       /\ s.close_responded = AnswerOf(s)

\* revalidate: a checkpoint of s is read back
Revalidates(s) == RecordsRevalidate(s) /\ RetainedStartOk(s)

\* open_inner: replay holds no body but retained content.  A half-signed job's
\* content is not yet promoted: kept are the ones whose upload survived.  A job
\* that was running is indeterminate.
Replayed(s, kept) ==
  [s EXCEPT
     !.jobs = [w \in DOMAIN @ |->
                 [@[w] EXCEPT !.input = w.retain /\ (s.jobs[w].phase = "HalfSigned" => w \in kept),
                              !.body = w.retain /\ s.jobs[w].result # None]],
     !.indeterminate = {w \in DOMAIN s.jobs : s.jobs[w].phase \in {"Running", "Streaming"}}]

\* ... then what the cursor has passed is ended and an unresumable proposal released
Reopened(s, kept) ==
  LET r == Replayed(s, kept)
      over == {w \in DOMAIN r.jobs : ExpiredAt(r, w, r.cursor)}
      lost == r.pending_proposal # None /\ ~r.jobs[r.pending_proposal].input
  IN [r EXCEPT
        !.jobs = Drop(@, over),
        !.terminals = [w \in DOMAIN @ \cup over |->
                         IF w \in over THEN [outcome |-> "Expired", amount |-> 0] ELSE @[w]],
        !.indeterminate = @ \ over,
        !.pending_proposal = IF @ \in over \/ lost THEN None ELSE @]

-----------------------------------------------------------------------------
(* The endpoints, the network between them and the chain. *)

CONSTANTS
  Offers,        \* what the client may ask for as its n-th job: a sequence of sets of
                 \* [acceptance, terminal, payment, price, retain]
  Margin,        \* dispatch and delivery blocks a signature needs before terminal
  DeliveryBlocks,\* of which the delivery
  Horizon,       \* the terms' admission horizon
  Closers,       \* endpoints whose callers may ask to close
  FreezePayouts, \* payouts the parties might agree on out of band
  Omissions,     \* what a client start may claim below what the client signed
  Malformed,     \* the block is refused
  Crashing,      \* endpoints that may crash
  MaxHeight, MaxTxs, MaxCrashes    \* bounds of a model

VARIABLES
  journal,   \* [Role -> the endpoint's durable state]
  reading,   \* [Role -> 0, or the position in the block being read]
  deciding,  \* the proposal journaled and not yet co-signed, under the lock
  requests,  \* works whose acceptance request has been sent
  call,      \* the client's outstanding acceptance call
  results,   \* <<work, result>> the provider has streamed
  payments,  \* <<work, amount>> the client has sent
  executing, \* works the provider's backend is computing
  handoff,   \* CloseEndpoint::close_handoff
  sending,   \* the answer fixed and not yet offered to the sink
  blocks,    \* finalized transactions on this edge, block by block
  edge,      \* the payment edge as consensus holds it
  pool,      \* transactions a sink has taken
  crashes,   \* crashes so far
  invoked,   \* history: works the backend was ever invoked for
  offered    \* history: answers handed to a sink, at which cursor, with what success

endpoints == <<journal, reading, deciding, executing, handoff, sending>>
network == <<requests, call, results, payments>>
chain == <<blocks, edge, pool>>
history == <<invoked, offered>>
vars == <<endpoints, network, chain, crashes, history>>

Client == journal["Client"]
Provider == journal["Provider"]
Height == Len(blocks)

WorkOf(n, o) ==
  [nonce |-> n, acceptance |-> o.acceptance, terminal |-> o.terminal,
   payment |-> o.payment, price |-> o.price, retain |-> o.retain]

Works == UNION {{WorkOf(n, o) : o \in Offers[n]} : n \in DOMAIN Offers}

Init ==
  /\ journal = [r \in Role |-> NewJournal(r)]
  /\ reading = [r \in Role |-> 0]
  /\ deciding = None
  /\ requests = {} /\ call = None /\ results = {} /\ payments = {}
  /\ executing = {} /\ handoff = None /\ sending = None
  /\ blocks = <<>> /\ edge = [pending |-> None, closed |-> FALSE] /\ pool = {}
  /\ crashes = 0 /\ invoked = {} /\ offered = {}

\* The endpoint's lock is free
Free(r) == reading[r] = 0 /\ (r = "Provider" => deciding = None)

Commit(r, s) == journal' = [journal EXCEPT ![r] = s]

\* check_authorization_core's deadlines, at the cursor of the one signing
Authorizable(w, height) ==
  /\ height <= w.acceptance
  /\ w.acceptance < w.terminal /\ w.terminal < w.payment /\ w.payment < Horizon
  /\ w.price <= ComputeCreditLimit /\ w.price <= DeliveryCreditLimit

\* check_signable
Signable(w, height) == height < Horizon /\ height + Margin <= w.terminal

\* check_releasable
Releasable(w, height) == height + DeliveryBlocks <= w.terminal

---------------------------------------------------------------------------
(* Proposing and accepting a job *)

ClientPropose(w) ==
  /\ Free("Client") /\ call = None
  /\ w.nonce = Client.nonce + 1
  /\ Client.pending_proposal = None
  /\ Authorizable(w, Client.cursor) /\ Signable(w, Client.cursor)
  /\ JobProposedOk(Client, w)
  /\ Commit("Client", JobProposed(Client, w))
  /\ requests' = requests \cup {w}
  /\ call' = [work |-> w, reply |-> None]
  /\ UNCHANGED <<reading, deciding, executing, handoff, sending, results, payments,
                 chain, crashes, history>>

\* resume_proposal; without its bytes the request carries another content reference
ClientResume(w) ==
  /\ Free("Client") /\ call = None
  /\ ProposalExchangeOk(Client, w)
  /\ Commit("Client", ProposalExchange(Client, w, TRUE))
  /\ requests' = IF Client.jobs[w].input THEN requests \cup {w} ELSE requests
  /\ call' = [work |-> w, reply |-> None]
  /\ UNCHANGED <<reading, deciding, executing, handoff, sending, results, payments,
                 chain, crashes, history>>

\* The connection drops; a late answer to this call is never read
CallLost ==
  /\ call # None
  /\ call' = None
  /\ UNCHANGED <<endpoints, requests, results, payments, chain, crashes, history>>

Answer(w, reply) ==
  IF call # None /\ call.work = w /\ call.reply = None
  THEN [call EXCEPT !.reply = reply] ELSE call

Cosigned(s, w) == Open(s, w) /\ s.jobs[w].cosigned

\* accepted() on a co-signature.  A refused record only ends the call.
ClientAccepted ==
  /\ Free("Client") /\ call # None /\ call.reply = "Accepted"
  /\ Commit("Client",
            IF Client.pending_proposal \in {None, call.work} /\ JobAcceptedOk(Client, call.work)
            THEN JobAccepted(Client, call.work) ELSE Client)
  /\ call' = None
  /\ UNCHANGED <<reading, deciding, executing, handoff, sending, requests, results,
                 payments, chain, crashes, history>>

\* accepted() on a refusal releases whatever proposal is pending now
ClientRefused ==
  /\ Free("Client") /\ call # None /\ call.reply = "Refused"
  /\ Commit("Client",
            IF Client.pending_proposal # None
            THEN ProposalExchange(Client, Client.pending_proposal, FALSE) ELSE Client)
  /\ call' = None
  /\ UNCHANGED <<reading, deciding, executing, handoff, sending, requests, results,
                 payments, chain, crashes, history>>

\* decide: a co-signature already given is given again, whatever the height
ProviderRepeat(w) ==
  /\ Free("Provider") /\ w \in requests
  /\ Cosigned(Provider, w)
  /\ call' = Answer(w, "Accepted")
  /\ UNCHANGED <<endpoints, requests, results, payments, chain, crashes, history>>

NoClose(s) == s.close_prepared = None /\ s.close_opened = None /\ s.close_settled = None

\* decide up to its first commit: the proposal is journaled, the credit reserved
ProviderDecide(w) ==
  /\ Free("Provider") /\ w \in requests
  /\ ~Cosigned(Provider, w) /\ ~Ended(Provider, w)
  /\ NoClose(Provider)
  /\ Authorizable(w, Provider.cursor) /\ Signable(w, Provider.cursor)
  /\ JobProposedOk(Provider, w)
  /\ Commit("Provider", JobProposed(Provider, w))
  /\ deciding' = w
  /\ UNCHANGED <<reading, executing, handoff, sending, network, chain, crashes, history>>

\* ... and its second: the co-signature is journaled, then answered
ProviderCosign ==
  /\ deciding # None
  /\ Commit("Provider", IF JobAcceptedOk(Provider, deciding)
                        THEN JobAccepted(Provider, deciding) ELSE Provider)
  /\ call' = Answer(deciding, IF JobAcceptedOk(Provider, deciding)
                              THEN "Accepted" ELSE "Refused")
  /\ deciding' = None
  /\ UNCHANGED <<reading, executing, handoff, sending, requests, results, payments,
                 chain, crashes, history>>

\* Every refusal of decide, readiness and uploads included
ProviderRefuse ==
  /\ Free("Provider") /\ call # None /\ call.reply = None
  /\ ~Cosigned(Provider, call.work)
  /\ call' = Answer(call.work, "Refused")
  /\ UNCHANGED <<endpoints, requests, results, payments, chain, crashes, history>>

---------------------------------------------------------------------------
(* Running, delivering and paying for it *)

\* begin_run up to the invocation it admits
ProviderRun(w) ==
  /\ Free("Provider")
  /\ JobRunningOk(Provider, w)
  /\ Signable(w, Provider.cursor)
  /\ Provider.jobs[w].input
  /\ Commit("Provider", JobRunning(Provider, w))
  /\ executing' = executing \cup {w}
  /\ invoked' = invoked \cup {w}
  /\ UNCHANGED <<reading, deciding, handoff, sending, network, chain, crashes, offered>>

\* The backend returns; a result the journal refuses is dropped
ProviderResult(w, result) ==
  /\ Free("Provider") /\ w \in executing
  /\ Commit("Provider", IF JobResultOk(Provider, w, result)
                        THEN JobResult(Provider, w, result) ELSE Provider)
  /\ executing' = executing \ {w}
  /\ UNCHANGED <<reading, deciding, handoff, sending, network, chain, crashes, history>>

\* The backend faults: end_run
ProviderFault(w) ==
  /\ Free("Provider") /\ w \in executing
  /\ Commit("Provider", IF JobEndedOk(Provider, w)
                        THEN JobEnded(Provider, w, "Failed") ELSE Provider)
  /\ executing' = executing \ {w}
  /\ UNCHANGED <<reading, deciding, handoff, sending, network, chain, crashes, history>>

\* reserve_stream for a job still running: the prefix may leave
ProviderStream(w) ==
  /\ Free("Provider") /\ w \in requests
  /\ Open(Provider, w) /\ Provider.jobs[w].phase = "Running"
  /\ ~IsClosing(Provider)
  /\ w \notin Provider.indeterminate /\ Provider.jobs[w].input
  /\ Releasable(w, Provider.cursor)
  /\ PlaintextReleasedOk(Provider, w)
  /\ Commit("Provider", PlaintextReleased(Provider, w))
  /\ UNCHANGED <<reading, deciding, executing, handoff, sending, network, chain,
                 crashes, history>>

\* reserve_ready_release and the delivery it reserves
ProviderDeliver(w) ==
  /\ Free("Provider") /\ w \in requests
  /\ Open(Provider, w) /\ Provider.jobs[w].result # None /\ Provider.jobs[w].body
  /\ ~IsClosing(Provider)
  /\ Releasable(w, Provider.cursor)
  /\ PlaintextReleasedOk(Provider, w)
  /\ Commit("Provider", PlaintextReleased(Provider, w))
  /\ results' = results \cup {<<w, Provider.jobs[w].result>>}
  /\ UNCHANGED <<reading, deciding, executing, handoff, sending, requests, call,
                 payments, chain, crashes, history>>

ClientReceive(w, result) ==
  /\ Free("Client") /\ <<w, result>> \in results
  /\ JobResultOk(Client, w, result)
  /\ Commit("Client", JobResult(Client, w, result))
  /\ UNCHANGED <<reading, deciding, executing, handoff, sending, network, chain,
                 crashes, history>>

ClientVerified(w) ==
  /\ Free("Client")
  /\ ResultVerifiedOk(Client, w)
  /\ Commit("Client", ResultVerified(Client, w))
  /\ UNCHANGED <<reading, deciding, executing, handoff, sending, network, chain,
                 crashes, history>>

ClientRejected(w) ==
  /\ Free("Client")
  /\ RejectedOk(Client, w)
  /\ Commit("Client", JobEnded(Client, w, "Rejected"))
  /\ UNCHANGED <<reading, deciding, executing, handoff, sending, network, chain,
                 crashes, history>>

\* Mutant: the payment is sent before it is journaled
ClientPayUnjournaled(w) ==
  /\ Free("Client") /\ ~Ended(Client, w)
  /\ CertifiedOk(Client, w, NextPayment(Client, w))
  /\ payments' = payments \cup {<<w, NextPayment(Client, w)>>}
  /\ UNCHANGED <<endpoints, requests, call, results, chain, crashes, history>>

\* pay: a payment already made is sent again as it is
ClientPay(w) ==
  /\ Free("Client") /\ ~Ended(Client, w)
  /\ CertifiedOk(Client, w, NextPayment(Client, w))
  /\ Commit("Client", JobCertified(Client, w, NextPayment(Client, w)))
  /\ payments' = payments \cup {<<w, NextPayment(Client, w)>>}
  /\ UNCHANGED <<reading, deciding, executing, handoff, sending, requests, call,
                 results, chain, crashes, history>>

\* admit: the whole payment is checked against this journal's own ledger
ProviderAdmit(w, amount) ==
  /\ Free("Provider") /\ <<w, amount>> \in payments
  /\ CertifiedOk(Provider, w, amount)
  /\ Commit("Provider", JobCertified(Provider, w, amount))
  /\ UNCHANGED <<reading, deciding, executing, handoff, sending, network, chain,
                 crashes, history>>

\* The caller supplies the bytes a restart lost: held in memory, journaled nowhere
ClientRestoreInput(w) ==
  /\ Free("Client")
  /\ Open(Client, w) /\ ~Client.jobs[w].input
  /\ Commit("Client", [Client EXCEPT !.jobs[w].input = TRUE])
  /\ UNCHANGED <<reading, deciding, executing, handoff, sending, network, chain,
                 crashes, history>>

---------------------------------------------------------------------------
(* Reading a finalized block: observe.  One commit a step, cursor last.    *)

Block(r) == blocks[journal[r].cursor + 1]

BlockHeight(r) == journal[r].cursor + 1

\* Mutant: an answer nobody took excuses the reading for good
DutyDroppedOnOffer ==
  \/ Provider.close_settled # None
  \/ /\ AnswerableContest(Provider)
     /\ ~(handoff # None /\ handoff.start_id = Provider.close_opened.start_id)

\* close_duty_present, with the reading a handoff excuses
DutyPresent ==
  \/ Provider.close_settled # None
  \/ /\ AnswerableContest(Provider)
     /\ ~ /\ handoff # None
          /\ handoff.start_id = Provider.close_opened.start_id
          /\ handoff.taken \/ ~handoff.spent

\* A block is being read, or the next one may be
Reads(r) ==
  \/ reading[r] > 0
  \/ /\ Free(r)
     /\ journal[r].cursor < Height
     /\ r = "Provider" => ~DutyPresent /\ sending = None

Position(r) == IF reading[r] = 0 THEN 1 ELSE reading[r]

\* The jobs expiry_at ends, before any transaction is looked at
Over(r) ==
  IF Position(r) = 1
  THEN {w \in DOMAIN journal[r].jobs : ExpiredAt(journal[r], w, BlockHeight(r))} ELSE {}

InTxs(r) == Over(r) = {} /\ Position(r) <= Len(Block(r))

Tx(r) == Block(r)[Position(r)]

Shuts(tx) == tx.kind \in {"Start", "Adjudicated", "Freeze"}

\* Jobs past a deadline end; a start or a close ends every job still open
ReadExpires(r, w) ==
  /\ Reads(r)
  /\ \/ w \in Over(r)
     \/ InTxs(r) /\ Shuts(Tx(r)) /\ Open(journal[r], w)
  /\ Commit(r, JobEnded(journal[r], w, "Expired"))
  /\ reading' = [reading EXCEPT ![r] = Position(r)]
  /\ UNCHANGED <<deciding, executing, handoff, sending, network, chain, crashes, history>>

ContestOf(tx, height) ==
  [start_id |-> StartId(tx.opener, tx.claimed, height), opener |-> tx.opener,
   deadline |-> height + OmitResponseBlocks, claimed |-> tx.claimed]

ReadTx(r) ==
  LET s == journal[r]
      tx == Tx(r)
      contest == ContestOf(tx, BlockHeight(r))
      settlement == [height |-> BlockHeight(r), payout |-> tx.payout]
  IN /\ Reads(r) /\ InTxs(r)
     /\ Shuts(tx) => DOMAIN s.jobs = {}
     /\ CASE tx.kind = "Start" -> CloseOpenedOk(s, contest) /\ Commit(r, CloseOpened(s, contest))
          [] tx.kind = "Respond" -> UNCHANGED journal
          [] OTHER -> CloseSettledOk(s, settlement) /\ Commit(r, CloseSettled(s, settlement))
     /\ reading' = [reading EXCEPT ![r] = Position(r) + 1]
     /\ UNCHANGED <<deciding, executing, handoff, sending, network, chain, crashes, history>>

\* contest_after_block; Malformed refuses the block
AfterTx(pending, tx, height) ==
  CASE tx.kind = "Start" ->
         IF pending = None
         THEN PendingOpened(tx.opener, tx.claimed, height, PaymentTerms, FALSE)
         ELSE Malformed
    [] tx.kind = "Respond" ->
         IF /\ pending \notin {None, Malformed}
            /\ pending.start_id = tx.start_id /\ ~pending.responded
            /\ height < pending.response_deadline
         THEN RespondedAt(pending, tx.amount, FALSE) ELSE Malformed
    [] OTHER -> Malformed

HistoryAfter(r) ==
  LET s == journal[r]
      before == IF s.close_history = None THEN None ELSE s.close_history.contest
  IN [height |-> BlockHeight(r),
      contest |-> FoldLeft(LAMBDA p, tx : AfterTx(p, tx, BlockHeight(r)), before, Block(r))]

\* Mutant: the deadline block is left out
HistoryDueBefore(r) ==
  LET s == journal[r]
  IN /\ s.close_settled = None /\ s.close_opened # None
     /\ BlockHeight(r) < s.close_opened.deadline
     /\ BlockHeight(r) = IF s.close_history = None THEN Inclusion(s.close_opened)
                         ELSE s.close_history.height + 1

HistoryDue(r) ==
  LET s == journal[r]
  IN /\ s.close_settled = None /\ s.close_opened # None
     /\ BlockHeight(r) <= s.close_opened.deadline
     /\ BlockHeight(r) = IF s.close_history = None THEN Inclusion(s.close_opened)
                         ELSE s.close_history.height + 1

ReadHistory(r) ==
  LET s == journal[r]
  IN /\ Reads(r) /\ Over(r) = {} /\ Position(r) > Len(Block(r)) /\ HistoryDue(r)
     /\ HistoryAfter(r).contest # Malformed
     /\ CloseHistoryAdvancedOk(s, HistoryAfter(r))
     /\ Commit(r, CloseHistoryAdvanced(s, HistoryAfter(r)))
     /\ reading' = [reading EXCEPT ![r] = Position(r)]
     /\ UNCHANGED <<deciding, executing, handoff, sending, network, chain, crashes, history>>

\* The cursor moves last; a block read on the strength of an offer spends it
ReadCursor(r) ==
  /\ Reads(r) /\ Over(r) = {} /\ Position(r) > Len(Block(r)) /\ ~HistoryDue(r)
  /\ Commit(r, CursorAdvanced(journal[r], BlockHeight(r)))
  /\ reading' = [reading EXCEPT ![r] = 0]
  /\ handoff' = IF r = "Provider" /\ handoff # None THEN [handoff EXCEPT !.spent = TRUE]
                ELSE handoff
  /\ UNCHANGED <<deciding, executing, sending, network, chain, crashes, history>>

---------------------------------------------------------------------------
(* Closing: prepare_close and advance_close *)

PrepareClose(r) ==
  LET s == journal[r]
      start == [opener |-> PartyOf(r), claimed |-> ExecutableAmount(s),
                from |-> s.cursor + 1, through |-> s.cursor + StartValidityBlocks]
  IN /\ Free(r) /\ r \in Closers
     /\ ~IncludableCloseStart(s, s.cursor)
     /\ ClosePreparedOk(s, start)
     /\ Commit(r, ClosePrepared(s, start))
     /\ UNCHANGED <<reading, deciding, executing, handoff, sending, network, chain,
                    crashes, history>>

StartTx(start) ==
  [kind |-> "Start", opener |-> start.opener, claimed |-> start.claimed,
   from |-> start.from, through |-> start.through]

Take(tx) ==
  /\ pool' = pool \cup {tx}
  /\ UNCHANGED <<blocks, edge>>

SubmitStart(r) ==
  LET s == journal[r]
  IN /\ Free(r)
     /\ s.close_settled = None /\ s.close_opened = None
     /\ IncludableCloseStart(s, s.cursor)
     /\ Take(StartTx(s.close_prepared))
     /\ UNCHANGED <<endpoints, network, crashes, history>>

\* close_duty: the answer this provider owes now
AnswerOwed ==
  /\ AnswerableContest(Provider)
  /\ ~(handoff # None /\ handoff.taken /\ handoff.start_id = Provider.close_opened.start_id)

\* fix_close_answer: journaled before the sink sees it
FixAnswer ==
  /\ Free("Provider") /\ sending = None
  /\ AnswerOwed
  /\ CloseRespondedOk(Provider, AnswerOf(Provider))
  /\ Commit("Provider", CloseResponded(Provider, AnswerOf(Provider)))
  /\ sending' = AnswerOf(Provider)
  /\ UNCHANGED <<reading, deciding, executing, handoff, network, chain, crashes, history>>

AnswerTx(answer) == [kind |-> "Respond", start_id |-> answer.start_id, amount |-> answer.amount]

\* The sink takes the answer, refuses it, or fails, having taken it or not
OfferAnswer(outcome, taken) ==
  /\ sending # None
  /\ outcome = "Accepted" => taken
  /\ outcome = "Offered" => ~taken
  /\ IF taken THEN Take(AnswerTx(sending)) ELSE UNCHANGED chain
  /\ handoff' = IF outcome = "Error"
                THEN IF handoff = None THEN None ELSE [handoff EXCEPT !.spent = FALSE]
                ELSE [start_id |-> sending.start_id, taken |-> outcome = "Accepted",
                      spent |-> FALSE]
  /\ sending' = None
  /\ offered' = offered \cup {[answer |-> sending, at |-> Provider.cursor,
                               taken |-> outcome = "Accepted"]}
  /\ UNCHANGED <<journal, reading, deciding, executing, network, crashes, invoked>>

\* finalized_contest finds the whole window in the journal
HistoryComplete(s) ==
  /\ s.close_history # None
  /\ \/ s.close_history.contest.responded
     \/ s.close_history.height >= s.cursor
     \/ s.close_history.height >= s.close_opened.deadline

AdjudicationTx(record) ==
  [kind |-> "Adjudicated", commitment |-> ContestCommitment(None, record),
   payout |-> record.final_cumulative + Penalty(record)]

Adjudicate(r) ==
  LET s == journal[r]
      record == s.close_history.contest
  IN /\ Free(r)
     /\ s.close_settled = None /\ s.close_opened # None
     /\ r = "Provider" => ~AnswerOwed /\ sending = None
     /\ Inclusion(s.close_opened) # s.cursor + 1
     /\ HistoryComplete(s)
     /\ record.responded \/ s.cursor >= record.response_deadline
     /\ Take(AdjudicationTx(record))
     /\ UNCHANGED <<endpoints, network, crashes, history>>

---------------------------------------------------------------------------
(* The chain, by the kernel's rules for one payment edge *)

TxOk(held, tx, height) ==
  /\ ~held.closed
  /\ CASE tx.kind = "Start" ->
            /\ held.pending = None
            /\ InValidityWindow(height, tx, StartValidityBlocks)
       [] tx.kind = "Respond" ->
            /\ held.pending # None
            /\ held.pending.start_id = tx.start_id /\ ~held.pending.responded
            /\ height < held.pending.response_deadline
            /\ tx.amount > held.pending.final_cumulative
       [] tx.kind = "Adjudicated" ->
            /\ held.pending # None
            /\ ContestOver(held.pending, height)
            /\ tx.commitment = ContestCommitment(None, held.pending)
       [] OTHER -> TRUE

EdgeAfter(held, tx, height) ==
  CASE tx.kind = "Start" ->
         [held EXCEPT !.pending = PendingOpened(tx.opener, tx.claimed, height, PaymentTerms, FALSE)]
    [] tx.kind = "Respond" ->
         [held EXCEPT !.pending = RespondedAt(@, tx.amount, FALSE)]
    [] OTHER -> [held EXCEPT !.closed = TRUE]

\* Amounts the client has certified, by whichever of its journals
SignedAmounts == {0} \cup {Client.terminals[w].amount : w \in Certified(Client)}

\* A start below what the client signed, from outside this endpoint
OmittingStarts ==
  {StartTx([opener |-> "Maker", claimed |-> a, from |-> Height + 1, through |-> Height + 1]) :
     a \in Omissions \cap SignedAmounts}

\* A freeze both parties signed out of band
Freezes ==
  IF edge.closed THEN {}
  ELSE LET owed(a) == IF edge.pending = None THEN a ELSE a + FreezePenalty(edge.pending, a)
       IN {[kind |-> "Freeze", payout |-> owed(a)] :
             a \in {x \in FreezePayouts : edge.pending # None => x >= edge.pending.final_cumulative}}

Finalize(txs) ==
  LET after(n) == FoldLeft(LAMBDA held, tx : EdgeAfter(held, tx, Height + 1), edge,
                           SubSeq(txs, 1, n))
  IN /\ Height < MaxHeight
     /\ \A i \in DOMAIN txs : TxOk(after(i - 1), txs[i], Height + 1)
     /\ blocks' = Append(blocks, txs)
     /\ edge' = after(Len(txs))
     /\ UNCHANGED <<endpoints, network, pool, crashes, history>>

\* At most one transaction of outside origin, first in its block
BlockContents ==
  {txs \in UNION {[1..n -> pool] : n \in 0..MaxTxs} : \A i, j \in DOMAIN txs : i # j => txs[i] # txs[j]}
    \cup {<<tx>> \o rest : tx \in OmittingStarts \cup Freezes, rest \in {<<>>} \cup {<<p>> : p \in pool}}

---------------------------------------------------------------------------
(* Crash and restart: the process is gone, the journal is read back *)

Crash(r, kept) ==
  /\ crashes < MaxCrashes
  /\ crashes' = crashes + 1
  /\ Commit(r, Reopened(journal[r], kept))
  /\ reading' = [reading EXCEPT ![r] = 0]
  /\ IF r = "Provider"
     THEN deciding' = None /\ executing' = {} /\ handoff' = None /\ sending' = None
          /\ UNCHANGED call
     ELSE call' = None /\ UNCHANGED <<deciding, executing, handoff, sending>>
  /\ UNCHANGED <<requests, results, payments, chain, history>>

Uploads(s) == {w \in DOMAIN s.jobs : w.retain /\ s.jobs[w].phase = "HalfSigned"}

---------------------------------------------------------------------------

ClientStep ==
  \/ \E n \in DOMAIN Offers : \E o \in Offers[n] : ClientPropose(WorkOf(n, o))
  \/ \E w \in DOMAIN Client.jobs :
       \/ ClientResume(w)
       \/ ClientVerified(w)
       \/ ClientRejected(w)
       \/ ClientPay(w)
       \/ ClientRestoreInput(w)
  \/ ClientAccepted
  \/ ClientRefused
  \/ \E d \in results : ClientReceive(d[1], d[2])
  \/ CallLost

ProviderStep ==
  \/ \E w \in requests : ProviderRepeat(w)
  \/ \E w \in requests : ProviderDecide(w)
  \/ ProviderCosign
  \/ ProviderRefuse
  \/ \E w \in DOMAIN Provider.jobs :
       \/ ProviderRun(w)
       \/ ProviderStream(w)
       \/ ProviderDeliver(w)
  \/ \E w \in executing :
       \/ \E result \in {"Finished", "Failed"} : ProviderResult(w, result)
       \/ ProviderFault(w)
  \/ \E p \in payments : ProviderAdmit(p[1], p[2])
  \/ FixAnswer
  \/ \E outcome \in {"Accepted", "Offered", "Error"}, taken \in BOOLEAN :
       OfferAnswer(outcome, taken)

ReadStep(r) ==
  \/ \E w \in DOMAIN journal[r].jobs : ReadExpires(r, w)
  \/ ReadTx(r)
  \/ ReadHistory(r)
  \/ ReadCursor(r)

CloseStep(r) ==
  \/ PrepareClose(r)
  \/ SubmitStart(r)
  \/ Adjudicate(r)

Next ==
  \/ ClientStep
  \/ ProviderStep
  \/ \E r \in Role : ReadStep(r)
  \/ \E r \in Role : CloseStep(r)
  \/ \E txs \in BlockContents : Finalize(txs)
  \/ \E r \in Crashing : \E kept \in SUBSET Uploads(journal[r]) : Crash(r, kept)

Spec == Init /\ [][Next]_vars

---------------------------------------------------------------------------
(* Properties *)

Job ==
  [phase : {"HalfSigned", "Accepted", "Running", "Streaming"} \cup ResultPhase,
   cosigned : BOOLEAN, input : BOOLEAN, result : {None, "Finished", "Failed"}, body : BOOLEAN]

Terminal == [outcome : {"Certified", "Expired", "Failed", "Rejected"}, amount : 0..Capacity]

JournalOK(s) ==
  /\ s.cursor \in 0..Height /\ s.credited \in 0..Capacity /\ s.nonce \in 0..Len(Offers)
  /\ s.pending_proposal \in {None} \cup DOMAIN s.jobs
  /\ DOMAIN s.jobs \subseteq Works /\ \A w \in DOMAIN s.jobs : s.jobs[w] \in Job
  /\ DOMAIN s.terminals \subseteq Works
  /\ \A w \in DOMAIN s.terminals : s.terminals[w] \in Terminal
  /\ DOMAIN s.jobs \cap DOMAIN s.terminals = {}
  /\ s.indeterminate \subseteq DOMAIN s.jobs

\* A journal's cursor, totals and job tables have the shapes the code keeps;
\* a job is open or ended, and only an open job is pending or indeterminate.
TypeOK ==
  /\ \A r \in Role : journal[r].role = r /\ JournalOK(journal[r])
  /\ reading \in [Role -> Nat]
  /\ executing \subseteq Works /\ requests \subseteq Works

\* What the provider has been paid for, the client has signed for, at the same
\* cumulative amount: pay journals before it sends, and admit credits only that.
LedgersAgree ==
  \A w \in Certified(Provider) :
    w \in Certified(Client) /\ Client.terminals[w] = Provider.terminals[w]

\* Payments are credited in the order they were signed, none skipped: a payment
\* that misses its job's expiry at the provider is never made up for by a later,
\* higher one (credit_payment asks for exactly the credited total plus the price).
LedgerIsPrefix ==
  \A w \in Certified(Client) :
    Client.terminals[w].amount <= Provider.credited => w \in Certified(Provider)

\* Either endpoint's total is the sum of the prices of the jobs it holds a
\* certificate for, whatever expired or failed between them.
CreditIsPriceOfWork ==
  \A r \in Role : journal[r].credited = PriceOf(Certified(journal[r]))

\* The provider never has more compute accepted, or more plaintext released, than
\* the limits it set, over all jobs in flight and any crash (check_compute_limit,
\* check_delivery_limit).
ExposureIsBounded ==
  /\ Reserved(Provider) <= ComputeCreditLimit
  /\ ReservedDelivery(Provider) <= DeliveryCreditLimit

\* A job the client holds a co-signature for is one the provider's disk knows it
\* co-signed, after any crash: the signature is journaled before it is answered.
NoPhantomAcceptance ==
  \A w \in DOMAIN Client.jobs :
    Client.jobs[w].cosigned => Cosigned(Provider, w) \/ Ended(Provider, w)

\* The backend is invoked at most once for a job, over restarts (the running
\* marker is durable before begin_run returns Invoke).
InvokedOnce == [][\A w \in executing' \ executing : w \notin invoked]_vars

\* How a job ended never changes and it is never open again, in either journal.
OutcomesArePermanent ==
  [][\A r \in Role : \A w \in DOMAIN journal[r].terminals :
       /\ Ended(journal'[r], w) /\ journal'[r].terminals[w] = journal[r].terminals[w]
       /\ ~Open(journal'[r], w)]_vars

\* An endpoint that is closing has no job that could still be paid for: the amount
\* its close carries is final (apply_close_prepared, apply_close_opened).
ClosingIsQuiet == \A r \in Role : IsClosing(journal[r]) => DOMAIN journal[r].jobs = {}

\* Whatever a crash left of the reading of a block, the journal takes the records
\* the block still means: no endpoint is stuck behind a finalized block (observe).
BlocksAreReadable ==
  \A r \in Role : reading[r] > 0 \/ (Free(r) /\ journal[r].cursor < Height) =>
    LET s == journal[r]
    IN /\ InTxs(r) /\ DOMAIN s.jobs = {} =>
            CASE Tx(r).kind = "Start" -> CloseOpenedOk(s, ContestOf(Tx(r), BlockHeight(r)))
              [] Tx(r).kind = "Respond" -> TRUE
              [] OTHER -> CloseSettledOk(s, [height |-> BlockHeight(r), payout |-> Tx(r).payout])
       /\ Over(r) = {} /\ Position(r) > Len(Block(r)) /\ HistoryDue(r) =>
            /\ HistoryAfter(r).contest # Malformed
            /\ CloseHistoryAdvancedOk(s, HistoryAfter(r))

\* Past the opening block the journal holds the contest through its cursor or its
\* end, so finalized_contest never reports a gap it could not repair.
HistoryKeepsUp ==
  \A r \in Role :
    LET s == journal[r]
    IN /\ s.close_opened # None /\ s.close_settled = None
       /\ s.cursor >= Inclusion(s.close_opened)
       => HistoryComplete(s)

\* An adjudication built from a journal is one consensus takes in the next block:
\* the amount, the answer and the penalty are what the chain holds, however far
\* behind it the journal is.
AdjudicationIsExact ==
  \A tx \in pool : tx.kind = "Adjudicated" /\ ~edge.closed => TxOk(edge, tx, Height + 1)

\* A contest the provider could win is contested at every block: it reads no further
\* block of the window unless, at this one, it offered its best certificate, or a
\* sink has taken it, or the chain shows it; over crashes, refusing and failing sinks
\* and a backlog of blocks (catch_up_until_duty).
NoSilentForfeit ==
  LET s == Provider
      contest == s.close_opened
      offers == {o \in offered : o.answer = AnswerOf(s)}
  IN contest # None /\ contest.opener = "Maker" /\ ExecutableAmount(s) > contest.claimed =>
       \A c \in Inclusion(contest)..contest.deadline - 1 :
         c < s.cursor =>
           \/ s.close_history.contest.responded
           \/ \E o \in offers : o.at = c \/ (o.taken /\ o.at < c)

\* The contest's start is one an endpoint prepared and handed to a sink.
OpenedByEndpoint(pending) ==
  \E tx \in pool : tx.kind = "Start" /\ tx.opener = pending.opener_role
                     /\ tx.claimed = pending.start_cumulative

\* A client whose start is its own endpoint's never owes the omission bond: while a
\* start it signed can be included it signs nothing higher (is_closing), and one it
\* can no longer have included consensus refuses too.
HonestClientKeepsBond ==
  edge.pending # None /\ OpenedByEndpoint(edge.pending) => ~edge.pending.penalty_due

\* A checkpoint of the provider's journal is read back by revalidate in every state
\* it reaches, and of the client's but for a close start it retains.
CheckpointReopens == RecordsRevalidate(Client) /\ Revalidates(Provider)

---------------------------------------------------------------------------
\* The two journals account for the same work: over lost answers, retries and a
\* crash the ledgers agree, the provider's is a prefix of the client's, and what is
\* credited is the price of work that was done.
LedgersAreSound ==
  TypeOK /\ LedgersAgree /\ LedgerIsPrefix /\ CreditIsPriceOfWork

\* The provider works and releases only what it agreed to: a client holds no
\* acceptance its provider's disk does not know, and what is accepted and released
\* together stays within the limits.
WorkIsAgreed ==
  NoPhantomAcceptance /\ ExposureIsBounded

\* A job is invoked at most once and an outcome, once recorded, is never replaced,
\* whatever is retried or restarted in between.
JobsRunOnce ==
  InvokedOnce /\ OutcomesArePermanent

\* Every finalized block can be read into the journal it finds, the record of closes
\* keeps up with the cursor, and each journal a step leaves opens again.
HistoryIsRead ==
  BlocksAreReadable /\ HistoryKeepsUp /\ CheckpointReopens

\* A contest the provider could win is answered before its deadline, and what it
\* adjudicates is what consensus accepts.
ContestsAreAnswered ==
  NoSilentForfeit /\ AdjudicationIsExact

\* A channel closes with no job open, and a client that closes through its endpoint
\* is never charged the omission bond.
ClosesAreHonest ==
  ClosingIsQuiet /\ HonestClientKeepsBond
=============================================================================
