--------------------------- MODULE HostExecution ---------------------------
(***************************************************************************)
(* How a validator executes kernel transactions over its database          *)
(* (crates/chain/src/execution): it loads the slots a transaction may      *)
(* touch into a working set, applies the transaction there, replays the    *)
(* outcome onto the block's batch, and classifies a failure as early,      *)
(* rejected or a broken contract.  A database is a batch on every slot.    *)
(***************************************************************************)
EXTENDS Integers, Sequences, SequencesExt, FiniteSetsExt

(***************************************************************************)
(* The kernel's storage contract (crates/kernel: store, state, event,      *)
(* registry, lease, view and the reads and writes of each transaction).    *)
(* A batch is a map from the slots a host declared to what they hold; a    *)
(* read of an undeclared slot is an absence and a write to one is refused. *)
(* A transaction is validated against the batch, gives one change, and the *)
(* change is folded into the batch.  Money and signatures are the matter   *)
(* of module Kernel: here a transaction carries outputs that balance, is   *)
(* signed, and what is modelled is which slots decide it.                  *)
(***************************************************************************)

CONSTANTS
  CAPACITY,                   \* REGISTRY_CHUNK_DATA_CAPACITY, in words of a record
  MAX_REGISTRY_MUTATIONS,
  OmitResponse                \* a payment's omit_response_blocks

None == [kind |-> "none"]

CoinSlot(id) == <<"coin", id, 0>>
EdgeSlot(e) == <<"edge", e, 0>>
LeaseSlot(bond, i) == <<"lease", bond, i>>
CloseSlot(e) == <<"close", e, 0>>

Ok == [class |-> "ok", slot |-> CloseSlot("")]
Error(class, slot) == [class |-> class, slot |-> slot]

---------------------------------------------------------------------------
(* Batches: Store::begin, Batch and its commit *)

Read(batch, slot) == IF slot \in DOMAIN batch THEN batch[slot] ELSE None

Held(batch, slot) == Read(batch, slot) # None

\* insert_coin, insert_edge, insert_registry_chunk
Insert(batch, slot, value) ==
  IF slot \notin DOMAIN batch \/ Held(batch, slot)
  THEN [batch |-> batch, error |-> Error("InsertRejected", slot)]
  ELSE [batch |-> [batch EXCEPT ![slot] = value], error |-> Ok]

Vacate(batch, slot) == [s \in DOMAIN batch |-> IF s = slot THEN None ELSE batch[s]]

---------------------------------------------------------------------------
(* Registry records are words split over chunks *)

ChunkCount(len) == (len + CAPACITY - 1) \div CAPACITY

\* RegistryChunk::split
Split(namespace, value, index) ==
  [kind |-> "chunk", namespace |-> namespace, index |-> index,
   count |-> ChunkCount(Len(value)), len |-> Len(value),
   data |-> SubSeq(value, index * CAPACITY + 1,
                   Min({Len(value), (index + 1) * CAPACITY}))]

\* RegistryChunk::decode: a stored chunk has the one encoding its length allows
Canonical(chunk) ==
  /\ chunk.len > 0 /\ chunk.count = ChunkCount(chunk.len)
  /\ chunk.index < chunk.count
  /\ Len(chunk.data) = IF chunk.index + 1 < chunk.count THEN CAPACITY
                       ELSE chunk.len - chunk.index * CAPACITY

\* RegistryDiff::push: at most the bound, and never two writes of one slot
Diff(mutations) ==
  IF /\ Len(mutations) <= MAX_REGISTRY_MUTATIONS
     /\ \A i, j \in DOMAIN mutations : mutations[i][1] = mutations[j][1] => i = j
  THEN Ok ELSE Error("RegistryDiffRejected", CloseSlot(""))

\* BondLease encoded, and its chunks; the terms hash and the policy
\* commitment are words nothing reads
LeaseWords(bond, payment, horizon) ==
  <<"BOND_LEASE", 2, bond, payment, "terms", "policy", horizon>>

LEASE_CHUNKS == 2

LeaseSlots(bond) == [i \in 1..LEASE_CHUNKS |-> LeaseSlot(bond, i - 1)]

\* create_mutations
CreateLease(bond, payment, horizon) ==
  [i \in 1..LEASE_CHUNKS |->
     <<LeaseSlot(bond, i - 1), Split("lease", LeaseWords(bond, payment, horizon), i - 1)>>]

\* delete_mutations
DeleteLease(bond) == [i \in 1..LEASE_CHUNKS |-> <<LeaseSlot(bond, i - 1), None>>]

\* BondLease::from_chunks: every chunk of the right shape, then the record,
\* then that it is about this bond
LeaseFromChunks(chunks, bond) ==
  LET words == chunks[1].data \o chunks[2].data
  IN IF \E i \in 1..LEASE_CHUNKS :
          \/ chunks[i].namespace # "lease" \/ chunks[i].count # LEASE_CHUNKS
          \/ chunks[i].index # i - 1 \/ chunks[i].len # Len(LeaseWords("", "", 0))
     THEN [state |-> "Shape", payment |-> ""]
     ELSE IF Len(words) # Len(LeaseWords("", "", 0)) \/ words[1] # "BOND_LEASE" \/ words[2] # 2
     THEN [state |-> "Body", payment |-> ""]
     ELSE IF words[3] # bond THEN [state |-> "Edge", payment |-> ""]
     ELSE [state |-> "Present", payment |-> words[4]]

\* parse_bond_lease over the two slots
ParseLease(batch, bond) ==
  LET chunks == [i \in 1..LEASE_CHUNKS |-> Read(batch, LeaseSlot(bond, i - 1))]
  IN IF \A i \in DOMAIN chunks : chunks[i] = None THEN [state |-> "Absent", payment |-> ""]
     ELSE IF \E i \in DOMAIN chunks : chunks[i] = None THEN [state |-> "Partial", payment |-> ""]
     ELSE LeaseFromChunks(chunks, bond)

LeaseFault(lease) == lease.state \notin {"Absent", "Present"}

\* PendingPaymentClose: the contest, one chunk
PendingWords(e, start, deadline, final, responded) ==
  <<"PENDING_CLOSE", 4, e, start, deadline, <<final, responded>>>>

WritePending(e, start, deadline, final, responded) ==
  <<CloseSlot(e), Split("close", PendingWords(e, start, deadline, final, responded), 0)>>

NoStart == <<"", "", 0>>

\* parse_pending_close and from_chunk
ParsePending(batch, e) ==
  LET chunk == Read(batch, CloseSlot(e))
      record(state, start, deadline, status) ==
        [state |-> state, start |-> start, deadline |-> deadline,
         final |-> status[1], responded |-> status[2]]
  IN IF chunk = None THEN record("Absent", NoStart, 0, <<0, FALSE>>)
     ELSE IF chunk.namespace # "close" \/ chunk.count # 1 \/ chunk.index # 0
     THEN record("Shape", NoStart, 0, <<0, FALSE>>)
     ELSE IF chunk.data[3] # e THEN record("Edge", NoStart, 0, <<0, FALSE>>)
     ELSE record("Present", chunk.data[4], chunk.data[5], chunk.data[6])

\* View::registry_value: reassembly without knowing the record, from the
\* head chunk on; nothing when a chunk is missing, foreign or left over
RegistryValue(batch, namespace, key) ==
  LET slot(i) == <<namespace, key, i>>
      head == Read(batch, slot(0))
      parts == [i \in 1..head.count |-> Read(batch, slot(i - 1))]
  IN IF head = None THEN <<>>
     ELSE IF \E i \in 1..head.count :
               \/ parts[i] = None
               \/ parts[i].namespace # namespace \/ parts[i].index # i - 1
               \/ parts[i].count # head.count \/ parts[i].len # head.len
     THEN <<>>
     ELSE IF Held(batch, slot(head.count)) THEN <<>>
     ELSE FlattenSeq([i \in 1..head.count |-> parts[i].data])

---------------------------------------------------------------------------
(* Validation.  A transaction names its kind, the coins it spends, the     *)
(* edge it opens or addresses, and what it issues.                         *)

\* The ids a close and a reshape issue
PayoutId(e, i) == <<"pay", e, i>>
ReshapeId(inputs, i) == <<"out", inputs, i>>

OutputIds(tx) ==
  [i \in DOMAIN tx.outputs |->
     IF tx.kind = "Close" THEN PayoutId(tx.edge, i) ELSE ReshapeId(tx.inputs, i)]

AllowedCloses(profile) ==
  CASE profile = "Basic" -> {"Mutual", "Timeout"}
    [] profile = "WorkStakeBond" -> {"Timeout"}
    [] profile = "WorkPayment" -> {"Freeze", "Adjudicated"}

EdgeOf(tx) ==
  [kind |-> "edge", profile |-> tx.profile, parties |-> tx.parties,
   timeout |-> tx.timeout, terms |-> tx.terms]

Rejected(error) == [error |-> error, event |-> "", takes |-> <<>>, gives |-> <<>>,
                    registry |-> <<>>]

Change(event, takes, gives, registry) ==
  [error |-> Diff(registry), event |-> event, takes |-> takes, gives |-> gives,
   registry |-> registry]

Coins(batch, ids) == [i \in DOMAIN ids |-> <<CoinSlot(ids[i]), Read(batch, CoinSlot(ids[i]))>>]

Issued(tx) == [i \in DOMAIN tx.outputs |-> <<CoinSlot(OutputIds(tx)[i]), tx.outputs[i]>>]

FirstMissing(batch, ids) == SelectInSeq(ids, LAMBDA id : ~Held(batch, CoinSlot(id)))

\* apply_open with open_bond_lease
ApplyOpen(batch, height, tx) ==
  LET missing == FirstMissing(batch, tx.inputs)
      bond == Read(batch, EdgeSlot(tx.bond))
      lease == ParseLease(batch, tx.bond)
      takes == Coins(batch, tx.inputs)
      gives == <<<<EdgeSlot(tx.edge), EdgeOf(tx)>>>>
  IN IF ~IsInjective(tx.inputs) THEN Rejected(Error("Invalid", EdgeSlot(tx.edge)))
     ELSE IF Held(batch, EdgeSlot(tx.edge)) THEN Rejected(Error("EdgeExists", EdgeSlot(tx.edge)))
     ELSE IF missing # 0 THEN Rejected(Error("Missing", CoinSlot(tx.inputs[missing])))
     ELSE IF tx.timeout <= height THEN Rejected(Error("Invalid", EdgeSlot(tx.edge)))
     ELSE IF tx.profile # "WorkPayment" THEN Change("EdgeOpened", takes, gives, <<>>)
     ELSE IF bond = None THEN Rejected(Error("Missing", EdgeSlot(tx.bond)))
     ELSE IF bond.terms # tx.bond_terms \/ lease.state # "Absent"
     THEN Rejected(Error("Invalid", EdgeSlot(tx.edge)))
     ELSE Change("EdgeOpened", takes, gives, CreateLease(tx.bond, tx.edge, tx.timeout))

\* check_timeout: a bond whose lease insures nothing is released at once
TimeoutRegistry(batch, height, tx, edge) ==
  LET bonded == edge.profile = "WorkStakeBond"
      lease == IF bonded THEN ParseLease(batch, tx.edge) ELSE [state |-> "Absent", payment |-> ""]
      live == lease.state = "Present" /\ Held(batch, EdgeSlot(lease.payment))
  IN IF tx.terms # edge.terms \/ LeaseFault(lease) THEN Rejected(Error("Invalid", EdgeSlot(tx.edge)))
     ELSE IF ~(bonded /\ ~live) /\ height < edge.timeout
     THEN Rejected(Error("TimeoutNotReached", EdgeSlot(tx.edge)))
     ELSE Change("", <<>>, <<>>, IF lease.state = "Present" THEN DeleteLease(tx.edge) ELSE <<>>)

\* check_adjudicated and check_freeze: the first needs a contest that is over
\* and is the one the close commits to, the second retires one if it is there
PaymentRegistry(batch, height, tx) ==
  LET pending == ParsePending(batch, tx.edge)
      retired == <<<<CloseSlot(tx.edge), None>>>>
      invalid == Rejected(Error("Invalid", EdgeSlot(tx.edge)))
  IN IF pending.state \notin {"Absent", "Present"} THEN invalid
     ELSE IF tx.proof = "Freeze"
     THEN IF pending.state = "Absent" THEN Change("", <<>>, <<>>, <<>>)
          ELSE IF tx.claim < pending.final THEN invalid
          ELSE Change("", <<>>, <<>>, retired)
     ELSE IF pending.state = "Absent" THEN invalid
     ELSE IF ~pending.responded /\ height < pending.deadline THEN invalid
     ELSE IF <<tx.start, tx.claim>> # <<pending.start, pending.final>> THEN invalid
     ELSE Change("", <<>>, <<>>, retired)

\* check_proof
CloseRegistry(batch, height, tx, edge) ==
  CASE tx.proof = "Mutual" ->
         IF height >= edge.timeout THEN Rejected(Error("Invalid", EdgeSlot(tx.edge)))
         ELSE Change("", <<>>, <<>>, <<>>)
    [] tx.proof = "Timeout" -> TimeoutRegistry(batch, height, tx, edge)
    [] OTHER -> PaymentRegistry(batch, height, tx)

\* apply_close
ApplyClose(batch, height, tx) ==
  LET edge == Read(batch, EdgeSlot(tx.edge))
      ids == OutputIds(tx)
      taken == SelectInSeq(ids, LAMBDA id : Held(batch, CoinSlot(id)))
      staged == CloseRegistry(batch, height, tx, edge)
  IN IF taken # 0 THEN Rejected(Error("OutputExists", CoinSlot(ids[taken])))
     ELSE IF edge = None THEN Rejected(Error("Missing", EdgeSlot(tx.edge)))
     ELSE IF tx.proof \notin AllowedCloses(edge.profile)
     THEN Rejected(Error("Invalid", EdgeSlot(tx.edge)))
     ELSE IF staged.error # Ok THEN staged
     ELSE Change("EdgeClosed", <<<<EdgeSlot(tx.edge), edge>>>>, Issued(tx), staged.registry)

\* apply_start
ApplyStart(batch, height, tx) ==
  LET edge == Read(batch, EdgeSlot(tx.edge))
      pending == ParsePending(batch, tx.edge)
  IN IF edge = None THEN Rejected(Error("Missing", EdgeSlot(tx.edge)))
     ELSE IF edge.profile # "WorkPayment" \/ pending.state # "Absent"
     THEN Rejected(Error("Invalid", EdgeSlot(tx.edge)))
     ELSE Change("", <<>>, <<>>,
                 <<WritePending(tx.edge, <<"start", tx.id, height>>, height + OmitResponse,
                                tx.claim, FALSE)>>)

\* check_response, which admission calls on its own, and apply_response
CheckResponse(batch, height, tx) ==
  LET edge == Read(batch, EdgeSlot(tx.edge))
      pending == ParsePending(batch, tx.edge)
  IN IF edge = None THEN Error("Missing", EdgeSlot(tx.edge))
     ELSE IF \/ edge.profile # "WorkPayment" \/ pending.state # "Present"
             \/ pending.start # tx.start \/ pending.responded
             \/ height >= pending.deadline \/ tx.claim <= pending.final
     THEN Error("Invalid", EdgeSlot(tx.edge))
     ELSE Ok

ApplyResponse(batch, height, tx) ==
  LET pending == ParsePending(batch, tx.edge)
  IN IF CheckResponse(batch, height, tx) # Ok THEN Rejected(CheckResponse(batch, height, tx))
     ELSE Change("", <<>>, <<>>,
                 <<WritePending(tx.edge, pending.start, pending.deadline, tx.claim, TRUE)>>)

\* Reshape::apply
ApplyReshape(batch, tx) ==
  LET missing == FirstMissing(batch, tx.inputs)
      ids == OutputIds(tx)
      taken == SelectInSeq(ids, LAMBDA id : Held(batch, CoinSlot(id)))
  IN IF ~IsInjective(tx.inputs) THEN Rejected(Error("Invalid", CloseSlot("")))
     ELSE IF missing # 0 THEN Rejected(Error("Missing", CoinSlot(tx.inputs[missing])))
     ELSE IF taken # 0 THEN Rejected(Error("OutputExists", CoinSlot(ids[taken])))
     ELSE Change("CoinsReshaped", Coins(batch, tx.inputs), Issued(tx), <<>>)

\* Tx::apply
Validate(batch, height, tx) ==
  CASE tx.kind = "Open" -> ApplyOpen(batch, height, tx)
    [] tx.kind = "Close" -> ApplyClose(batch, height, tx)
    [] tx.kind = "Start" -> ApplyStart(batch, height, tx)
    [] tx.kind = "Respond" -> ApplyResponse(batch, height, tx)
    [] tx.kind = "Owner" -> ApplyReshape(batch, tx)

---------------------------------------------------------------------------
(* Folding a change: Effect::fold, RegistryMutation::fold, Change::fold *)

\* remove_coin and remove_edge: what is removed must be what was validated
Take(acc, entry) ==
  IF acc.error # Ok THEN acc
  ELSE IF ~Held(acc.batch, entry[1]) THEN [acc EXCEPT !.error = Error("Missing", entry[1])]
  ELSE IF acc.batch[entry[1]] # entry[2] THEN [acc EXCEPT !.error = Error("Changed", entry[1])]
  ELSE [acc EXCEPT !.batch = Vacate(@, entry[1])]

Give(acc, entry) ==
  IF acc.error # Ok THEN acc ELSE Insert(acc.batch, entry[1], entry[2])

\* A write replaces what is there; a deletion must find something
Mutate(acc, entry) ==
  IF acc.error # Ok THEN acc
  ELSE IF entry[2] # None THEN Insert(Vacate(acc.batch, entry[1]), entry[1], entry[2])
  ELSE IF Held(acc.batch, entry[1]) THEN [acc EXCEPT !.batch = Vacate(@, entry[1])]
  ELSE [acc EXCEPT !.error = Error("Missing", entry[1])]

FoldChange(batch, change) ==
  FoldLeft(Mutate,
           FoldLeft(Give,
                    FoldLeft(Take, [batch |-> batch, error |-> Ok], change.takes),
                    change.gives),
           change.registry)

\* ApplyOutcome: the public event's ids, in order, and the registry diff
Outcome(change) ==
  [event |-> change.event,
   takes |-> [i \in DOMAIN change.takes |-> change.takes[i][1]],
   gives |-> [i \in DOMAIN change.gives |-> change.gives[i][1]],
   registry |-> change.registry]

NoOutcome == Outcome(Rejected(Ok))

\* fold_change
FoldedOne(batch, change, folded) ==
  IF change.error # Ok
  THEN [batch |-> batch, error |-> change.error, outcome |-> NoOutcome]
  ELSE [batch |-> folded.batch, error |-> folded.error, outcome |-> Outcome(change)]

ValidatedOne(batch, change) == FoldedOne(batch, change, FoldChange(batch, change))

\* fold_one
FoldOne(batch, height, tx) == ValidatedOne(batch, Validate(batch, height, tx))

\* A failed fold is dropped with its batch
CommitOrDrop(batch, folded) ==
  [folded EXCEPT !.batch = IF folded.error = Ok THEN @ ELSE batch]

\* State::apply
Apply(batch, height, tx) == CommitOrDrop(batch, FoldOne(batch, height, tx))

Observe(acc, one) ==
  IF one.error # Ok THEN [acc EXCEPT !.error = one.error]
  ELSE [batch |-> one.batch, error |-> Ok, observed |-> Append(acc.observed, one.outcome)]

FoldAll(batch, height, txs) ==
  FoldLeft(LAMBDA acc, tx : IF acc.error # Ok THEN acc
                            ELSE Observe(acc, FoldOne(acc.batch, height, tx)),
           [batch |-> batch, error |-> Ok, observed |-> <<>>], txs)

\* State::apply_all and apply_iter: the observer hears each outcome before
\* the batch commits, and a failure drops the whole batch
ApplyIter(batch, height, txs) == CommitOrDrop(batch, FoldAll(batch, height, txs))

---------------------------------------------------------------------------

CONSTANTS
  Allocations,                \* genesis owners, in order
  MAX_EDGE_LIFETIME_BLOCKS,
  MaxTxs, MaxTxBytes          \* a block's budgets

---------------------------------------------------------------------------
(* load_kernel_slots *)

CoinSlots(ids) == {CoinSlot(ids[i]) : i \in DOMAIN ids}

OpenSlots(tx) ==
  CoinSlots(tx.inputs) \cup {EdgeSlot(tx.edge)}
    \cup IF tx.profile = "WorkPayment" THEN {EdgeSlot(tx.bond)} \cup Range(LeaseSlots(tx.bond))
         ELSE {}

\* leased_payment_edge
LeasedPaymentEdge(db, bond) ==
  IF ParseLease(db, bond).state = "Present"
  THEN {EdgeSlot(ParseLease(db, bond).payment)} ELSE {}

\* Mutant: a bond's timeout does not load the edge its lease names
CloseSlotsNoLeased(db, tx) ==
  {EdgeSlot(tx.edge)} \cup CoinSlots(OutputIds(tx))
    \cup (IF tx.proof \in {"Freeze", "Adjudicated"} THEN {CloseSlot(tx.edge)} ELSE {})
    \cup (IF tx.proof = "Timeout" /\ tx.profile = "WorkStakeBond"
          THEN Range(LeaseSlots(tx.edge)) ELSE {})

\* The profile of a timeout is that of the terms it reveals
CloseSlots(db, tx) ==
  {EdgeSlot(tx.edge)} \cup CoinSlots(OutputIds(tx))
    \cup (IF tx.proof \in {"Freeze", "Adjudicated"} THEN {CloseSlot(tx.edge)} ELSE {})
    \cup (IF tx.proof = "Timeout" /\ tx.profile = "WorkStakeBond"
          THEN Range(LeaseSlots(tx.edge)) \cup LeasedPaymentEdge(db, tx.edge) ELSE {})

MoveSlots(tx) == {EdgeSlot(tx.edge), CloseSlot(tx.edge)}

LoadKernelSlots(db, tx) ==
  LET slots == CASE tx.kind = "Open" -> OpenSlots(tx)
                 [] tx.kind = "Close" -> CloseSlots(db, tx)
                 [] tx.kind \in {"Start", "Respond"} -> MoveSlots(tx)
                 [] tx.kind = "Owner" -> CoinSlots(tx.inputs) \cup CoinSlots(OutputIds(tx))
  IN [slot \in slots |-> db[slot]]

---------------------------------------------------------------------------
(* Errors *)

\* classify_kernel_error: what was absent before is early, what vanished
\* while folding is the host's fault
Classify(working, error) ==
  IF error.class = "Missing" /\ ~Held(working, error.slot) THEN "ObjectNotFound"
  ELSE IF error.class \in {"Missing", "Changed", "InsertRejected", "RegistryDiffRejected"}
  THEN "KernelHostContract"
  ELSE IF error.class = "TimeoutNotReached" THEN "TimeoutNotReached" ELSE "KernelApply"

IsTransientForMempool(class) == class \in {"ObjectNotFound", "TimeoutNotReached"}

IsFatalStorage(class) == class = "KernelHostContract"

---------------------------------------------------------------------------
(* Replaying an outcome onto the batch *)

Write(db, slot, value) == [db EXCEPT ![slot] = value]

\* replay_kernel_event: consumed slots must be gone from the working set and
\* produced ones in it
ReplayEvent(db, working, outcome) ==
  [class |-> IF /\ \A i \in DOMAIN outcome.takes : ~Held(working, outcome.takes[i])
                /\ \A i \in DOMAIN outcome.gives : Held(working, outcome.gives[i])
             THEN "ok" ELSE "KernelHostContract",
   db |-> FoldLeft(LAMBDA b, slot : Write(b, slot, Read(working, slot)),
                   db, outcome.takes \o outcome.gives)]

\* replay_kernel_registry
ReplayRegistry(db, working, outcome) ==
  [class |-> IF \A i \in DOMAIN outcome.registry :
                  Read(working, outcome.registry[i][1]) = outcome.registry[i][2]
             THEN "ok" ELSE "KernelHostContract",
   db |-> FoldLeft(LAMBDA b, m : Write(b, m[1], m[2]), db, outcome.registry)]

\* The changes an indexed node is shown: the event's ids, then the registry
Changes(working, outcome) ==
  [i \in DOMAIN outcome.takes |-> <<outcome.takes[i], None>>]
    \o [i \in DOMAIN outcome.gives |-> <<outcome.gives[i], Read(working, outcome.gives[i])>>]
    \o outcome.registry

\* check_open
LifetimeExceeded(height, tx) ==
  tx.kind = "Open" /\ tx.timeout - height > MAX_EDGE_LIFETIME_BLOCKS

Failed(db, class, slot) == [db |-> db, class |-> class, slot |-> slot, changes |-> <<>>]

Replayed(working, outcome, event, registry) ==
  IF event.class # "ok" \/ registry.class # "ok"
  THEN Failed(registry.db, "KernelHostContract", CloseSlot(""))
  ELSE [db |-> registry.db, class |-> "ok", slot |-> CloseSlot(""),
        changes |-> Changes(working, outcome)]

\* The event, then the registry, onto one batch
Replay(db, working, outcome, event) ==
  Replayed(working, outcome, event, ReplayRegistry(event.db, working, outcome))

Settle(db, loaded, applied) ==
  IF applied.error # Ok THEN Failed(db, Classify(loaded, applied.error), applied.error.slot)
  ELSE Replay(db, applied.batch, applied.outcome,
              ReplayEvent(db, applied.batch, applied.outcome))

Execute(db, height, tx, loaded) == Settle(db, loaded, Apply(loaded, height, tx))

\* apply_kernel_transaction_observed
ApplyTransaction(db, height, tx) ==
  IF LifetimeExceeded(height, tx) THEN Failed(db, "EdgeLifetimeExceeded", EdgeSlot(tx.edge))
  ELSE Execute(db, height, tx, LoadKernelSlots(db, tx))

---------------------------------------------------------------------------
(* Blocks *)

GenesisId(i) == <<"gen", "", i>>

\* maybe_seed_genesis: the allocations, in the first block
GenesisChanges(height) ==
  IF height # 1 THEN <<>>
  ELSE [i \in DOMAIN Allocations |-> <<CoinSlot(GenesisId(i)), Allocations[i]>>]

SeedGenesis(db, height) ==
  FoldLeft(LAMBDA b, c : Write(b, c[1], c[2]), db, GenesisChanges(height))

Follow(acc, one) ==
  IF one.class # "ok" THEN [acc EXCEPT !.class = one.class]
  ELSE [db |-> one.db, class |-> "ok", changes |-> acc.changes \o one.changes]

\* execute_all and execute_all_observed: all of a block or none of it
ExecuteAll(db, height, txs) ==
  FoldLeft(LAMBDA acc, tx : IF acc.class # "ok" THEN acc
                            ELSE Follow(acc, ApplyTransaction(acc.db, height, tx)),
           [db |-> SeedGenesis(db, height), class |-> "ok", changes |-> GenesisChanges(height)],
           txs)

\* response_contest_was_removed
ResponseContestWasRemoved(tx, result) ==
  tx.kind = "Respond" /\ result.class = "ObjectNotFound" /\ result.slot = EdgeSlot(tx.edge)

Bytes(txs) == FoldLeft(LAMBDA n, tx : n + tx.bytes, 0, txs)

\* What becomes of a candidate that was tried: an early one stays pooled, a
\* refused one is dropped
Judge(acc, tx, one) ==
  IF one.class = "ok" THEN [acc EXCEPT !.db = one.db, !.included = Append(@, tx)]
  ELSE IF IsTransientForMempool(one.class) /\ ~ResponseContestWasRemoved(tx, one)
  THEN [acc EXCEPT !.retained = Append(@, tx)]
  ELSE [acc EXCEPT !.fatal = IsFatalStorage(one.class)]

\* From the first candidate over budget on, all are retained
OverBudget(acc, tx, maxTxs, maxBytes) ==
  \/ acc.full \/ Len(acc.included) >= maxTxs
  \/ Bytes(acc.included) + tx.bytes > maxBytes

\* execute_proposal
ExecuteProposal(db, height, candidates, maxTxs, maxBytes) ==
  FoldLeft(LAMBDA acc, tx :
             IF acc.fatal THEN acc
             ELSE IF OverBudget(acc, tx, maxTxs, maxBytes)
             THEN [acc EXCEPT !.full = TRUE, !.retained = Append(@, tx)]
             ELSE Judge(acc, tx, ApplyTransaction(acc.db, height, tx)),
           [db |-> SeedGenesis(db, height), included |-> <<>>, retained |-> <<>>,
            full |-> FALSE, fatal |-> FALSE], candidates)
=============================================================================
