------------------------------ MODULE MCCodec -------------------------------
(*************************************************************************)
(* What is written down.  part says which of the two a behaviour is      *)
(* about; the other variables stay as they began.                        *)
(*   codec  every canonical encoding of the kernel and of a paid         *)
(*          channel: the kernel's records are damaged in two cells, its  *)
(*          transactions and the channel's records in one, preimages and *)
(*          checkpoints not at all                                       *)
(*   books  LedgerBook: reservations, charges and windows                *)
(*************************************************************************)
EXTENDS RecordCodec, TLC

CONSTANT BookJobs

VARIABLE part

VARIABLES
  book_ledger, book_paid, book_excused

book_vars ==
  <<book_ledger, book_paid, book_excused>>

---------------------------------------------------------------------------
AllBytes == 0..40

Preimages == PreimageLayouts @@ DigestLayouts

AllLayouts ==
  RecordLayouts @@ TransactionLayouts @@ PrivateLayouts @@ JournalLayouts
    @@ CheckpointLayouts @@ Preimages

ReferredTo ==
  [Auth |-> Auth, BasicTerms |-> BasicTerms, BlockHeight |-> BlockHeight, BondWitness |->
   BondWitness, CloseDescriptor |-> CloseDescriptor, CloseOpened |-> CloseOpened,
   EarnedCertificate |-> EarnedCertificate, Fees |-> Fees, Funding |-> Funding, Outcome
   |-> Outcome, PaidChannelPolicyV1 |-> PaidChannelPolicyV1, PaidJobAuthorizationV2 |->
   PaidJobAuthorizationV2, PaidJobResultV1 |-> PaidJobResultV1, Parties |-> Parties,
   PartyAuth |-> PartyAuth, PartyKeys |-> PartyKeys, PaymentBindingV1 |->
   PaymentBindingV1, PaymentCloseResponse |-> PaymentCloseResponse, PaymentCloseStart |->
   PaymentCloseStart, Payout |-> Payout, Proof |-> Proof, SignedCertificate |->
   SignedCertificate, SignedResult |-> SignedResult, TermsBody |-> TermsBody,
   WebAuthnAssertion |-> WebAuthnAssertion, WorkChannelSetupBundleV2 |->
   WorkChannelSetupBundleV2, WorkPaymentTerms |-> WorkPaymentTerms, WorkStakeBondTerms |->
   WorkStakeBondTerms]

PreimageSamples == [k \in Hashed |-> Samples(Preimages[k])]
PreimageCells ==
  [k \in Hashed |->
     [i \in DOMAIN PreimageSamples[k] |-> Enc(Preimages[k], PreimageSamples[k][i])]]
---------------------------------------------------------------------------
(* The books: a machine, an account, a pool and two subjects, the second    *)
(* delegated by the first; an hour is one unit of time and a day two.       *)

Limit(meter, window, amount) == [meter |-> meter, window |-> window, amount |-> amount]
Term(limits, concurrent) == [limits |-> limits, concurrent |-> concurrent]
Charge(requests, tokens) == [requests |-> requests, tokens |-> tokens]

Account == {"a"}
Pool == {"p"}
Metered == {"requests", "tokens"}
TwoSubjects == {"s", "d"}
PoolOfTwo == "s" :> "p" @@ "d" :> "p"
AllWindows == {"hour", "day", "week", "total"}
Hours == {0, 1, 8}
BookCharges == {Charge(1, 1), Charge(1, 2)}
BookUsages == {Charge(1, 0), Charge(1, 3)}
Delegation == "a" :> "m" @@ "p" :> "a" @@ "s" :> "p" @@ "d" :> "s"
BookTerms ==
  "m" :> << {Term({}, 2)}, {Term({Limit("tokens", "hour", 2)}, 2)} >> @@
  "a" :> << {Term({Limit("tokens", "week", 4)}, 3)} >> @@
  "p" :> << {Term({Limit("requests", "total", 3)}, 3)} >> @@
  "s" :> << {Term({Limit("tokens", "day", 3), Limit("requests", "hour", 2)}, 2)},
            {Term({Limit("tokens", "total", 2)}, 1)} >> @@
  "d" :> << {Term({Limit("tokens", "hour", 2)}, 1)} >>

---------------------------------------------------------------------------
Books == INSTANCE LedgerBook WITH
  Machine <- "m", Accounts <- Account, Pools <- Pool, NoParent <- "none",
  HourMillis <- 1, DayMillis <- 2, Meters <- Metered, Subjects <- TwoSubjects,
  PoolOf <- PoolOfTwo, Parents <- Delegation, TermsOf <- BookTerms,
  Charges <- BookCharges, Usages <- BookUsages, Windows <- AllWindows, MaxPathLen <- 5,
  MaxNodes <- 5, MaxConcurrent <- 3, MaxCount <- 6, Jobs <- BookJobs, Times <- Hours,
  ledger <- book_ledger, paid <- book_paid, excused <- book_excused

---------------------------------------------------------------------------
\* An encoding that nobody reads
Untouched ==
  /\ kind = "Fees" /\ sent = Widest(Layouts["Fees"])
  /\ buf = Enc(Layouts["Fees"], Widest(Layouts["Fees"])) /\ faults = 0 /\ read = Unread

MCInit ==
  /\ part \in {"codec", "books"}
  /\ IF part = "codec" THEN Init ELSE Untouched
  /\ Books!Init

CodecStep ==
  part = "codec" /\ Next /\ UNCHANGED <<part, book_vars>>

BooksStep ==
  part = "books" /\ Books!Next /\ UNCHANGED <<part, vars>>

MCNext == CodecStep \/ BooksStep

MCSpec == MCInit /\ [][MCNext]_<<part, vars, book_vars>>

---------------------------------------------------------------------------
\* The jobs are alike.
Symmetry == Permutations(BookJobs)

\* A byte string means one thing: what is written is read back, an accepted buffer is
\* the one encoding of its value, fits its buffer, continues no other and is read as
\* one kind; a stored or extended record keeps its fields; and no two commitments,
\* of one hashing function or of two, hash the same bytes.
BytesMeanOneThing ==
  /\ RoundTrip /\ Canonical /\ SelfDelimiting /\ OneKind /\ FitsBuffer /\ ChunkIsSplit
  /\ ExtendsKeepsFields /\ StoredWithoutBodies
  /\ PreimagesDiffer(PreimageSamples, PreimageCells)

\* Budgets are exact: each counter is what the jobs of its window were charged, an
\* unchanged budget is never oversubscribed across the end of a window, and the
\* allowance shown to a caller is the one admission enforces.
BudgetsAreExact ==
  part = "books" =>
    Books!CountersAreExact /\ Books!NeverOversubscribed /\ Books!AllowanceIsHonest
=============================================================================
