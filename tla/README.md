# Hellas in TLA+

A verification development kept beside the code of Hellas. Hellas sells computation over payment
channels that settle on a small chain. The chain's rules are the *settlement kernel*
(`crates/kernel`). A client and a provider run a paid channel on top of it (`crates/channel`), or a node
serves work under grants (`crates/authority`). A node executes, indexes and answers questions about the
chain (`crates/chain`), and gateways, projectors and an RPC layer carry requests to the work and
results back (`crates/sdk`, `providers`, `reseller`, `rpc`, `wire`).

The modules here model these parts, TLC checks them on small instances, and TLAPS proves the
properties of the kernel, the journal, the permit pool, the chain's reads and the grant service for every value
of their constants. Every definition is translated from the source; `PROJECT.json` maps each one to the
lines it stands for.

* [The parts and their modules](#the-parts-and-their-modules)
* [Reading a model](#reading-a-model)
* [The models](#the-models)
* [The runs](#the-runs)
* [The proofs](#the-proofs)
* [What is only model-checked](#what-is-only-model-checked)
* [Where the comments say more than the code](#where-the-comments-say-more-than-the-code)
* [What is not modelled](#what-is-not-modelled)

## The parts and their modules

| part | source | module | what is hard, and what must hold |
|---|---|---|---|
| settlement kernel | `kernel/src/tx`, `lease.rs`, `work.rs` | `KernelObjects`, `Kernel` | two parties that need not cooperate, deadlines, a delegate acting without its owner; stake backs exactly one channel, a contest always pays and never goes down, silence costs nobody more than they signed |
| paid channel | `channel/src/work_store/channel`, `work_close.rs`, `work.rs` | `Channel` | two journals that see messages and blocks at different times, crashes between a marker and the act it marks; ledgers agree, a job runs once, a contest that can be won is answered |
| channel setup | `channel/src/work_handshake.rs`, `work_open.rs` | `Setup` | three signed revisions, lost answers, a bond that opens while its payment does not; no stake is left in an aborted setup |
| journal | `channel/src/work_store/journal.rs` | `DurableLog`, `Journal` | commits cancelled while SQLite works, rotation, power loss; what a handle believes is what a replay gives |
| grant ledger and store | `authority/src/work_store/grant` | `GrantLedger`, `LedgerBook`, `NodeStore` | windows that end between reserve and settle, limits lowered under live work, repair; budgets are exact and every state reopens |
| grant service | `authority/src/grant_service.rs` | `GrantService` | a result racing a lapse, a release, a drain, a failed append; a terminal is durable before it is sent |
| block execution | `chain/src/execution`, `kernel/src/state.rs` | `HostExecution`, `BlockHost` | slots loaded one by one instead of the whole state; the result is the kernel's |
| mempool | `chain/src/app.rs` | `Mempool` | a finalized handler interleaved with submissions and proposals; an answer to a contest keeps its place |
| full node, edge index | `chain/src/node`, `edge_index` | `ChainNode` | databases that commit independently; every stop is recovered from |
| reads | `chain/src/rpc.rs` | `ChainReads` | blocks commit, publish, index and are pruned around a query; an answer is one state |
| encodings | `kernel/src/canonical.rs` and every record | `Codec`, `RecordCodec` | damaged bytes, two records that hash alike; a byte string means one thing |
| executor, transcripts | `executor`, `rpc/src/protocol/invocation` | `Execution`, `ResultStream` | limits that run out while events are being published; accepted work gets a signed ending, shown once |
| purchases | `sdk/src/transact`, `execution.rs` | `Purchase` | three durable places and a stop between any two writes; charged once |
| gateways | `sdk/src/paid_gateway.rs`, `gateway_work.rs` | `PaidGateway`, `WorkStream` | fallback, disconnects, drains; proposed to one provider only, read without a gap |
| projectors | `providers/src/codex_responses.rs`, `reseller/src/responses_projector.rs`, `adaptors/src/wire.rs` | `CodexProjector`, `ResponsesProjector`, `SseDecoder` | an upstream that may say anything, bytes cut anywhere; what was shown stays true |
| RPC and transport | `rpc/src/call.rs`, `wire/src/mux` | `RpcCall`, `PermitPool`, `Mux` | stalls, breaks, slot reuse, a lost wakeup; a success is real and nobody waits for ever |

How they interact. A client and a provider agree on two opens (`Setup`) and submit them to the chain, where the
mempool proposes them (`Mempool`), a block executes them slot by slot (`HostExecution`, which `BlockHost`
compares with running on the whole state) and a node indexes and serves the result (`ChainNode`,
`ChainReads`). The kernel turns the opens into a bond edge and a payment edge and leases the bond to the
payment. The endpoints then exchange jobs for certificates off chain (`Channel`); either may start a
payment close, the provider may answer once, then anybody may adjudicate: the operators for that are in
`KernelObjects`, used by both `Kernel` and `Channel`. An accepted job is executed into a signed
transcript (`Execution`) that the client verifies while it is produced (`ResultStream` extends
`Execution`). What must survive a crash is in a `Journal`. A node that serves under grants keeps them in
`NodeStore` (over `GrantLedger`) and runs them in `GrantService`. On the buyer's side `Purchase` records
one attempt, `PaidGateway` routes requests over many channels and `WorkStream` carries the output.

## Reading a model

* A handler of the code is an action: its early returns are guards, its assignments the primed
  variables. Where a handler awaits, unlocks or commits in between, it is cut there and the cut state
  is a variable. An accepted call is a step; a refused one that changes nothing is none.
* A hash is its preimage and a signature the fact that its key's holder could sign; collision
  freedom and unforgeability are assumed. Payloads are model values, texts sequences of two letters.
* Every bound is a constant with `Max` in its name, or one the code has, scaled down: the comment beside it says
  what the code's value is.
* History variables (`invoked`, `offered`, `paid`, `excused`, `lapsed`) are read by properties only.
* A module named `MC...` instantiates several components for one run. A variable (`part`, `hop`,
  `scene`) says which of them a behaviour is about; the other variables keep their first value, so each component is
  explored on its own, with the bounds listed in the module.
* The operators with a mutated body (`...Blind`, `...Early`) stand beside the definition
  they vary. Each property of each run is violated when one of them takes its definition's place.

## The models

**Kernel.** `coins`, `edges`, `leases` and `pending` are the host's stores and the two kinds of registry
record; `height` and `fees` the `Context` of the block; `signers` and `certificates` the world outside.
`Open`, `CloseMutual`, `CloseTimeout`, `CloseFreeze`, `CloseAdjudicated`, `StartPaymentClose`,
`RespondPaymentClose` and `Reshape` are the transactions of `tx/`, with every check they make; `NextBlock`
brings any fee schedule and `Retire` silences a key for good. Everybody signs everything until then, so
whatever colluding parties could produce is explored; certificates do not lapse and are kept.
Amounts are bounded by `U64Max`, and where the code uses checked arithmetic the result must be in range.

**Channel.** `journal[r]` is `ChannelState` with its `JobBook` and `CreditLedger`; each record kind is a
pair of operators, `...Ok` for the rule that admits it and one for the state after it (`state.rs`,
`book.rs`). `Reopened` says what a restart keeps and `Revalidates` what a checkpoint must satisfy. One
action makes at most one commit, so a crash falls between any two; `decide` is cut at its two commits and
`observe` at each record of a block, the cursor last. Requests and payments stay in the network, so they
are handled late, repeatedly or never. What admission does not carry here (capacity, uploads, readiness) is a
refusal that may always happen. A start that omits a certificate comes from outside the client's
endpoint, which cannot build one. A driver step runs to its end or dies with its process.

**Setup.** Three revisions of the bundle, each journaled before its signature leaves, then the driver
of each endpoint: it reads the chain without the journal's lock, so the exchange may change the
journal while a read is out. The chain loses submissions and lets others spend the coins. A
provider that stays at revision two is ended by nothing in the code; it waits for the client.

**Journal.** The database, its handle, the commit in progress and SQLite's worker are separate: a commit is
cut where its future waits, so it can be cancelled there, the process can die there and the worker can
finish after both. `old` holds what a power loss may bring back when commits are not flushed.
`DurableLog` is what a store promises: a log that grows at its end, and a prefix its owner has acted
on.

**Grant ledger, store and service.** `GrantLedger` is the pure ledger: paths, counters per window,
reservations. `LedgerBook` drives it with any clock; `NodeStore` is the node's durable state around it, with
policies, nonces, channels, repairs and reopening. `GrantService` is the runtime beside it: tasks, the cached transcript,
deliveries, administration, drain, and a journal that may fail. The writer is held from a handler's
first check to its last effect, so a handler is one step. The authority is the time until which
it lets a client execute. The terminal deadline is within the bound of the clock.

**Chain.** `HostExecution` loads the slots a transaction may touch, applies it there and replays the outcome;
`BlockHost` runs blocks and batches that way beside the whole-state kernel, with the owner index
replaying blocks that may be delivered twice or early. `Mempool` starts from an open contest at height 3;
the limit of 256 transactions never binds in the code (the lanes hold 120 + 64), the byte limit
does. `ChainNode` cuts the pipeline between prepare, commit, cursor, publish, readiness and
acknowledgment, with stops anywhere; marshal and the stateful executor are libraries outside the repository: the
database may come back at the last acknowledged block, and certificates are at most
`MaxDescendants` blocks apart. `ChainReads` has one query at a time take the read guard, find the height
of the state it reads and page through it; the order of a page is some order of the owner's holdings
(`Listed`). The race of `restore` in a node without an index is not modelled.

**Encodings.** A layout lists the fields an encoder writes and, separately, the fields its decoder reads; `Enc`
and `Dec` interpret it. A scalar of any width is one cell; list bounds are scaled (2, 4, 2, 2, 2, 3 for
4, 8, 4, 2048, 120, 255); domain strings are prefix-free. Stored kernel records are damaged in two cells, other
records in one. Canonicity is not claimed of checkpoints; that a buffer continues no other and is of one
kind only of the kernel's stored records. A kernel value inside a channel record is one envelope, an
offer's CBOR is opaque.

**Execution.** `Execution` turns what an upstream answers or a program computes into a signed transcript
under limits of bytes, events, spool and time. `ResultStream` adds the provider's stream, the connection,
the client's verification and retry. `fits` compares the bare event with `max_encoded_result_frame`, as
the code does. One admission; heap accounting, which only tightens the spool bound, is left out.

**Buyers.** `Purchase` is both the tracked flow of the command line and the untracked one of the SDK; each invocation
that opens with no pending record is a decision to buy again. Recovery of a verified tracked
attempt pays without keeping the output. `PaidGateway` abstracts the channel journal to its jobs; a journal with a
failed append takes no more until restart, and that an unproposed request leaves nothing behind
concerns journals known before the restart. `WorkStream` separates the reader's look at the overflow flag from its
receive, and the two closes of a drain. Its routes and the start of its HTTP server are left out.

**Projectors and transport.** An upstream event is a record of the fields the projector reads; JSON
shape is one flag. `SseDecoder` is fed every cut of a short response; its largest frame is the response's
bound less four, scaled to eight cells; UTF-8 validation is left out. `Mux` has both ends,
their drivers and one pipe each way; a flush is atomic with its handler because the peer sees only frames in
order. `RpcCall` lets a connection break, a peer stall and a deadline expire at any wait.
`PermitPool` is at the granularity of its atomic counter and its mutex.

## The runs

Deadlock checking is off everywhere: a ledger nobody transacts with, a channel whose jobs are done, a stream
that ended and a model at its bound all rest. What must not rest is stated as liveness.

| run | components | bounds | shows |
|---|---|---|---|
| `kernel` | `Kernel` twice | two client coins and one bond, certificates 1 to 3 on an edge worth 3, response window 2, five heights up to `U64Max`; an owner and its delegate under two fee schedules | stake, contests and settlements; no value is created |
| `channel_jobs` | `Channel` | two jobs whose deadlines overlap, a delivery limit only one fits, one crash of the provider | ledgers, credit, one invocation per job |
| `channel_contest` | `Channel` twice | one job, an omitted payment, freezes; both endpoints closing; one crash of either | history is read without a gap, contests answered, closing honest |
| `chain` | `ChainReads`, `ChainNode` twice, `Setup` | three blocks over three objects; four blocks, certificates late, two stops; a setup over five blocks | one state per read, recovery, and that certified blocks are indexed and setups decided |
| `block` | `Mempool`, `BlockHost` | four submissions beside a contest, lanes of two and one; blocks of up to two transactions, six heights | fairness of the pool, slot-wise execution |
| `codec` | `RecordCodec`, `LedgerBook` | every layout with small values, up to two damaged cells; five budgets, three jobs, all windows | bytes mean one thing, budgets are exact |
| `codex` | `CodexProjector` twice, `SseDecoder` twice, `Mux` | eight events; eight cells; two generations of a slot | what was shown stays, cuts are invisible, streams do not mix |
| `gateway` | `ResponsesProjector` twice, `PaidGateway` twice, `Purchase` | three items; two providers, or two callers, a restart; two purchases | whole responses, nothing bought twice |
| `storage` | `Journal` twice, `NodeStore` twice | two jobs, two blocks, two rotations, one crash; one client with repairs, two with a crash | durable log, endings recordable, grants survive |
| `transport` | `PermitPool`, `RpcCall` twice, `Mux`, `PaidGateway` | three tasks for one permit; two calls on one permit; a window of one | no wakeup lost, calls truthful, nobody waits for ever |
| `commerce` | `Purchase`, `Setup`, `ResultStream` twice, `Execution` three times, `WorkStream` | two channels, two buys; one crash; one fault per stream | purchases, setups, one transcript, signed endings, drains |
| `service` | `GrantService` twice, `WorkStream` twice, `ResultStream` | one job with a delivery, two jobs with room for one; every script of a stream | durable terminals, no gaps, what is taken back stays, everything ends |

The bounds are small because the interesting cases are: two claimants for one bond, a deadline on either side
of a block, two jobs and one crash, a window that is used up, one slot used twice, one fault. Heights need one block
more than the longest window. Symmetry is used for jobs, clients and channels that are alike, in
runs without liveness.

*Fairness* is assumed where the code's scheduling gives it:

* `chain`: weak fairness of every task of a node, of certificates arriving and of start-up after one of
  finitely many stops; of the provider's driver and of blocks; strong fairness of including a
  submitted timeout, since submissions are repeated.
* `transport`: weak fairness of every ready task and of the return of permits; of each end of a call,
  its timeouts included, not of dropping a call; of a multiplexer's driver and of accepting a stream,
  strong fairness of reading a body, since a reader comes back. Barging in the permit pool is
  bounded by `MaxRounds`: with unbounded barging a waiter may starve. Of the paid gateway only its own
  steps and timers.
* `service`: weak fairness of tasks, whose backends return, of a request and its run, of a reader that
  polls and of a drain that is awaited, strong fairness of the draining lock, which is
  queued; of serving and consuming a result and of the clock.

Kernel, channel, storage, codec and projectors promise no progress of their own and assume none.

## The proofs

Eight modules hold theorems; every leaf is checked. The constants are arbitrary up to the named assumptions: what
the codec guarantees of any input (`LimitsAssumption`, `InputsAssumption`), and for the others that sizes are
numbers, sets that are counted are finite and limits are ordered as the code's are
(`JournalAssumption`, `ReadsAssumption`, `ServiceAssumption`, `PoolAssumption`). No bound of a run is
assumed beyond that.

| theorem | states | rests on |
|---|---|---|
| `StakeStaysBehindChannels` | a live channel has its own leased bond, no bond backs two, no record outlives its edge | `LeaseInv` |
| `ContestsStaySound` | stored amounts fit, both exits can pay a contest, the bond is forfeit exactly on a proved understatement | `ContestInv` |
| `RecordsAdvance` | a stale lease stays stale, a contest changes at most once, upwards, in time | `LeaseInv`, `ContestInv` |
| `SettlementsStayFair` | settlement is paid on every exit, silent parties are heard, a silent client is not overcharged | `CertifiedInv` |
| `TimeoutsAreAlwaysPayable`, `SilentOwnersKeepTheirCoins` | committed payouts stay payable under any later fees; a delegate can only stake a silent owner's coins | `TypeOK` |
| `PoolKeepsItsPermits` | no wakeup is lost, permits are conserved | `Inv` and a count of the holders |
| `ViewsStayReplayable` | a usable handle knows exactly what is on disk, a replay is bounded | `IInv` of `JournalProofs` |
| `JournalIsDurableLog` | the journal implements `DurableLog` | the same, step by step |
| `ReadsStayCoherent` | every object of an answer was read at the one finalized block it names, at or above the caller's floor | `IInv` of `ChainReadsProofs` |
| `ServiceStaysDurable` | a terminal was sent only for a finished job and after every event before it; a drain that answered left nothing running | `IInv` of `GrantServiceTasks` |
| `TakenBackIsFinal` | outcomes are permanent, a job is invoked at most once and never after its release, a response that lost its rights hears nothing more | the same |

*Kernel* (`KernelTypes`, `KernelContests`, `KernelSettlements`). `LiveChannelIsBonded` alone is not
inductive: when a bond leaves early one must know that the lease found stale was the lease of every channel of
that bond, which is `BondBacksOneChannel` together with `RecordsBelongToLiveEdges`; `BondBacksOneChannel` needs
in turn that a bond with a live channel is leased, or gone. The three and the types are `LeaseInv`. A
contest is payable because its certificate was within the capacity the edge was opened with; a start that claims
nothing, because the open left capacity above the omission bond (`PaymentsFunded`), which is what
`ContestInv` adds. That a silent client is not overcharged needs one fact more: what a contest has
reached is nothing, or an amount some certificate of that channel says (`SettledIsCertified`, in
`CertifiedInv`).

*Permit pool.* `Inv` says that the mutex is exclusive and that a sleeping task's waker is registered, or about to
be taken, whenever a permit is free. The case that matters is `Wake`: it runs with the mutex free, so
nobody is about to register a waker it would miss. Conservation is by cardinality of the set of holders.

*Journal.* What makes the invariant hard is a statement nobody waits for any more: after a cancelled commit the
worker may still finish, so `StatementFits` speaks of the statement and the database alone, and `Waiting`
relates the owner to the statement when there is one. `Owned` says that an unmarked handle has no
statement outstanding, which makes its view exact. For the refinement the log is what a replay of the
database gives: an append extends it, a rotation leaves it, and a power loss brings back a prefix
(`Recoverable`).

*Chain reads.* Between taking the guard and answering, blocks are finalized, indexed and pruned, and the cursor
moves. `Reading` says that under the guard the height that was found names the state that is
read, everything read so far was read there, and what a listing has not read is what is left of the owner's
holdings. `Done` says that an answer stays true because blocks below the tip never change.

*Grant service.* A job has four records: the durable outcome, the phase in memory, the cached transcript and its
task. `TaskAgrees` and `CacheAgrees` say which combinations occur; `StreamAgrees` that a delivered terminal is backed
by the journal and by the transcript's whole length. For responses that were once without rights
`LapsedIsOver` adds that they are over, or without rights still: no step may restore the
rights and leave the response open. `GrantServiceTasks` holds the steps of a job's task, `GrantServiceProofs`
the others and the theorems.

Each inductive invariant was first checked by TLC on the instance of its run.

## What is only model-checked

* *Liveness*: `NothingIsLeftBehind`, `NobodyWaitsForever`, `EverythingEnds`. The proof system does not reason about fairness
  here.
* *Sums and recursion*: `ValueNeverGrows` is about sums over coins and edges, and what the codec, the decoder, the
  ledger's counters and replays of blocks compute is recursive. Both need induction over data.
  `RecordCodec`, `LedgerBook`, `SseDecoder`, `BlockHost` and `Mempool` are checked on bounded inputs.
* *Within reach but not proved*: the channel's invariants (`LedgersAreSound`, `WorkIsAgreed`,
  `JobsRunOnce`, `HistoryIsRead`, `ContestsAreAnswered`, `ClosesAreHonest`), `NodeIsCoherent`,
  `PurchasesAreSafe`, `NothingIsBoughtTwice`, `CallsAreTruthful`, `StreamsStayApart`. Their states have many
  more components than those proved; the channel's needs one invariant per record kind over both
  journals and the messages between them.
* `EndingIsRecordable` and the second journal of `JournalsKeepPromises`: an arithmetic of duty reserves over the set of open
  jobs, again a sum. The channel's journal is an instance of the proved module, so its
  refinement follows from the theorem.

## Where the comments say more than the code

Met while modelling; none is a claim of a run.

1. *A checkpoint that does not reopen.* A client prepares a close; its start lapses and stays in the journal. The channel
   is open again, a job is done and paid, and the payment's commit rotates the journal. `revalidate`
   compares the retained start with the certificate held now and refuses the new checkpoint. `rotate`
   says that "the predecessor's bytes go and none of its facts do". The provider cannot get there.
   `HistoryIsRead` checks all the rest of `revalidate`.
2. *A half-signed job that is not co-signed on retry.* The comment on `accept` says that "the retry co-signs
   it if the deadlines still allow". Replay holds no bytes of ephemeral content, and
   `apply_proposed` compares the retry's bytes with those held, so it refuses until the job expires.
3. *A re-sent payment answered with another number.* The comment on `admit` says that a re-send is "answered
   with the same number". It is answered with the ledger's current total, which a later payment may have raised.

## What is not modelled

Signature verification, webauthn and attestation; consensus, an external library whose output is blocks in
order; the auth authority's own records, which the grant service sees as rights that may go missing at any time;
peer discovery; attempts under a grant on the client's side; HTTP servers and the remaining format conversions; content
stores and hashing of files; user interfaces and deployment. `PROJECT.json` lists each with its reason.
