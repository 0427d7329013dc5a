---------------------------- MODULE RecordCodec ----------------------------
(***************************************************************************)
(* The canonical encodings of the kernel's objects, terms, proofs,         *)
(* transactions and registry records: for each type the fields encode_to   *)
(* writes, the fields decode reads and the MAX_ENCODED_SIZE declared.      *)
(*                                                                         *)
(* Then the records a channel signs, exchanges and journals: private       *)
(* records, setup bundles, close descriptors, journal records and          *)
(* checkpoints, and the preimages of their digests.  A kernel value inside *)
(* them is one self-delimiting envelope (the first half shows that it is). *)
(***************************************************************************)
EXTENDS Codec, TLC

\* canonical::tag
Tags == [BLOCK_HEIGHT |-> 1, FEES |-> 2, PARTIES |-> 3, COIN |-> 4, EDGE |-> 5,
         FUNDING |-> 6, PAYOUT |-> 7, WEBAUTHN_ASSERTION |-> 9, AUTH |-> 10,
         TERMS |-> 11, CLOSE_PROOF |-> 12, TX |-> 13, EARNED_CERTIFICATE |-> 20,
         PAYMENT_CLOSE_START |-> 21, PAYMENT_CLOSE_RESPONSE |-> 22,
         PAYMENT_CLOSE_PENDING |-> 23, REGISTRY_CHUNK |-> 24,
         BOND_LEASE |-> 31, PARTY_AUTH |-> 32]

\* Scaled: 4, 8, 4, 2048 and 120 in the code.
MAX_PARTY_INPUTS == 2
MAX_EDGE_INPUTS == 2 * MAX_PARTY_INPUTS
MAX_EDGE_OUTPUTS == 2
MAX_WEBAUTHN_DATA_LENGTH == 2
REGISTRY_CHUNK_DATA_CAPACITY == 2
MAX_REGISTRY_CHUNKS == 3

\* encode_envelope and decode_envelope
Envelope(t) == << <<"format", Const(FORMAT_VERSION)>>, <<"type", Const(t)>> >>
Enveloped(t, m, w, r) == Sealed(Struct(Envelope(t) \o w, Envelope(t) \o r), m)
Biggest(S) == CHOOSE m \in S : \A n \in S : n <= m
ListMax(n, m) == 1 + n * m

----------------------------------------------------------------------------
(* Scalars and small types.                                                *)

U8  == Word(0, 3)
Key == Word(1, 2)
Hash == Word(2, 5)
CoinId == Word(1, 6)
EdgeId == Word(2, 6)
Authority == Cell({0, 1}, <<0, 1>>)
Flag == Cell({0, 1}, <<0, 1>>)

BlockHeightMax == ENVELOPE_SIZE + 1
BlockHeight == Enveloped(Tags.BLOCK_HEIGHT, BlockHeightMax,
                 << <<"height", U64>> >>, << <<"height", U64>> >>)

FeesMax == ENVELOPE_SIZE + 4
Fees == Enveloped(Tags.FEES, FeesMax,
          << <<"base", U64>>, <<"slot", U64>>, <<"proof", U64>>, <<"lifetime", U64>> >>,
          << <<"base", U64>>, <<"slot", U64>>, <<"proof", U64>>, <<"lifetime", U64>> >>)

Coin == Enveloped(Tags.COIN, ENVELOPE_SIZE + 1 + 2 + 1,
          << <<"owner", Key>>, <<"delegate", Opt(Key)>>, <<"value", U64>> >>,
          << <<"owner", Key>>, <<"delegate", Opt(Key)>>, <<"value", U64>> >>)

PayoutMax == ENVELOPE_SIZE + 1 + 2 + 1
Payout == Enveloped(Tags.PAYOUT, PayoutMax,
            << <<"owner", Key>>, <<"delegate", Opt(Key)>>, <<"value", U64>> >>,
            << <<"owner", Key>>, <<"delegate", Opt(Key)>>, <<"value", U64>> >>)

PartyKeys ==
  Struct(<< <<"owner", Key>>, <<"signer", Key>>, <<"payout_delegate", Opt(Key)>> >>,
         << <<"owner", Key>>, <<"signer", Key>>, <<"payout_delegate", Opt(Key)>> >>)

PartiesMax == ENVELOPE_SIZE + 2 * (2 + 2)
Parties == Enveloped(Tags.PARTIES, PartiesMax,
             << <<"maker", Ref("PartyKeys")>>, <<"taker", Ref("PartyKeys")>> >>,
             << <<"maker", Ref("PartyKeys")>>, <<"taker", Ref("PartyKeys")>> >>)

\* CloseKindSet: only the three sets the kernel builds decode; the bits are
\* those of the tags 0, 1, 3 and 4.
BASIC == 3
WORK_STAKE_BOND == 2
WORK_PAYMENT == 24
CloseKindSet == Cell({BASIC, WORK_STAKE_BOND, WORK_PAYMENT},
                     <<BASIC, WORK_STAKE_BOND, WORK_PAYMENT>>)

Edge == Enveloped(Tags.EDGE,
          ENVELOPE_SIZE + 2 + FeesMax + BlockHeightMax + PartiesMax + 1 + 1,
          << <<"value", U64>>, <<"reserve", U64>>, <<"close_fees", Ref("Fees")>>,
             <<"timeout", Ref("BlockHeight")>>, <<"parties", Ref("Parties")>>,
             <<"terms", Hash>>, <<"allowed", CloseKindSet>> >>,
          << <<"value", U64>>, <<"reserve", U64>>, <<"close_fees", Ref("Fees")>>,
             <<"timeout", Ref("BlockHeight")>>, <<"parties", Ref("Parties")>>,
             <<"terms", Hash>>, <<"allowed", CloseKindSet>> >>)

PartyCoins == ListOf(CoinId, MAX_PARTY_INPUTS)
FundingMax == ENVELOPE_SIZE + 2 * ListMax(MAX_PARTY_INPUTS, 1)
Funding == Enveloped(Tags.FUNDING, FundingMax,
             << <<"maker", PartyCoins>>, <<"taker", PartyCoins>> >>,
             << <<"maker", PartyCoins>>, <<"taker", PartyCoins>> >>)

Payouts == ListOf(Ref("Payout"), MAX_EDGE_OUTPUTS)
PayoutsMax == ListMax(MAX_EDGE_OUTPUTS, PayoutMax)

----------------------------------------------------------------------------
(* Authorizations.                                                         *)

WebAuthnAssertionMax == ENVELOPE_SIZE + 4 + ListMax(MAX_WEBAUTHN_DATA_LENGTH, 1)
WebAuthnAssertion ==
  Enveloped(Tags.WEBAUTHN_ASSERTION, WebAuthnAssertionMax,
    << <<"r", Sig>>, <<"s", Sig>>, <<"pub_key_x", Sig>>, <<"pub_key_y", Sig>>,
       <<"webauthn_data", ListOf(U8, MAX_WEBAUTHN_DATA_LENGTH)>> >>,
    << <<"r", Sig>>, <<"s", Sig>>, <<"pub_key_x", Sig>>, <<"pub_key_y", Sig>>,
       <<"webauthn_data", ListOf(U8, MAX_WEBAUTHN_DATA_LENGTH)>> >>)

One(n, l) == Struct(<< <<n, l>> >>, << <<n, l>> >>)

AuthMax == ENVELOPE_SIZE + 1 + WebAuthnAssertionMax
Auth ==
  LET body == Choice(0 :> One("sig", Sig) @@ 1 :> One("assertion", Ref("WebAuthnAssertion")))
  IN Enveloped(Tags.AUTH, AuthMax,
               << <<"auth", body>> >>, << <<"auth", body>> >>)

PartyAuthMax == ENVELOPE_SIZE + 1 + AuthMax
PartyAuth == Enveloped(Tags.PARTY_AUTH, PartyAuthMax,
               << <<"authority", Authority>>, <<"auth", Ref("Auth")>> >>,
               << <<"authority", Authority>>, <<"auth", Ref("Auth")>> >>)

----------------------------------------------------------------------------
(* Terms: variants 0, 2 and 4; a payment embeds its bond's whole witness.  *)

WorkStakeBondTermsMax == PartiesMax + BlockHeightMax + PayoutsMax + 1
WorkStakeBondTerms ==
  Struct(<< <<"parties", Ref("Parties")>>, <<"timeout", Ref("BlockHeight")>>,
            <<"timeout_outputs", Payouts>>, <<"max_job_price", U64>> >>,
         << <<"parties", Ref("Parties")>>, <<"timeout", Ref("BlockHeight")>>,
            <<"timeout_outputs", Payouts>>, <<"max_job_price", U64>> >>)

BondWitnessMax == ENVELOPE_SIZE + 1 + WorkStakeBondTermsMax
BondWitness ==
  LET fields == Envelope(Tags.TERMS) \o << <<"variant", Const(4)>>, <<"bond", Ref("WorkStakeBondTerms")>> >>
  IN Struct(fields, fields)

WorkPaymentTermsMax == 1 + BondWitnessMax + 1 + 3
WorkPaymentTerms ==
  Struct(<< <<"bond_edge", EdgeId>>, <<"bond_terms", Ref("BondWitness")>>,
            <<"private_policy_commitment", Hash>>, <<"omit_response_blocks", U64>>,
            <<"start_validity_blocks", U64>>, <<"omission_bond", U64>> >>,
         << <<"bond_edge", EdgeId>>, <<"bond_terms", Ref("BondWitness")>>,
            <<"private_policy_commitment", Hash>>, <<"omit_response_blocks", U64>>,
            <<"start_validity_blocks", U64>>, <<"omission_bond", U64>> >>)

BasicTermsMax == 1 + PartiesMax + BlockHeightMax + PayoutsMax
BasicTerms ==
  Struct(<< <<"protocol", U8>>, <<"parties", Ref("Parties")>>, <<"timeout", Ref("BlockHeight")>>,
            <<"timeout_outputs", Payouts>> >>,
         << <<"protocol", U8>>, <<"parties", Ref("Parties")>>, <<"timeout", Ref("BlockHeight")>>,
            <<"timeout_outputs", Payouts>> >>)

TermsMax == ENVELOPE_SIZE + 1
            + Biggest({BasicTermsMax, WorkStakeBondTermsMax, WorkPaymentTermsMax})
TermsBody ==
  LET body == Choice(0 :> BasicTerms @@ 2 :> WorkPaymentTerms @@ 4 :> WorkStakeBondTerms)
  IN Enveloped(Tags.TERMS, TermsMax, << <<"body", body>> >>, << <<"body", body>> >>)

----------------------------------------------------------------------------
(* Proofs of a close: variants 0, 1, 3 and 4.                              *)

FreezeProof ==
  Struct(<< <<"earned", U64>>, <<"valid_from_height", U64>>,
            <<"valid_through_height", U64>>, <<"maker", Ref("PartyAuth")>>, <<"taker", Ref("PartyAuth")>> >>,
         << <<"earned", U64>>, <<"valid_from_height", U64>>,
            <<"valid_through_height", U64>>, <<"maker", Ref("PartyAuth")>>, <<"taker", Ref("PartyAuth")>> >>)
MutualProof == Struct(<< <<"maker", Ref("PartyAuth")>>, <<"taker", Ref("PartyAuth")>> >>,
                      << <<"maker", Ref("PartyAuth")>>, <<"taker", Ref("PartyAuth")>> >>)
TimeoutProof == Struct(<< <<"terms", Ref("TermsBody")>>, <<"owner", Opt(Ref("PartyAuth"))>> >>,
                       << <<"terms", Ref("TermsBody")>>, <<"owner", Opt(Ref("PartyAuth"))>> >>)

MaxProofBody == Biggest({2 * PartyAuthMax, TermsMax + 1 + PartyAuthMax,
                         3 + 2 * PartyAuthMax, 1})

ProofMax == ENVELOPE_SIZE + 1 + MaxProofBody
Proof ==
  LET body == Choice(0 :> MutualProof @@ 1 :> TimeoutProof @@ 3 :> FreezeProof
                     @@ 4 :> One("contest_commitment", Hash))
  IN Enveloped(Tags.CLOSE_PROOF, ProofMax,
               << <<"proof", body>> >>, << <<"proof", body>> >>)

----------------------------------------------------------------------------
(* Work payment records: certificate, start, response, pending close.      *)

WORK_CLOSE_VERSION == 3
WORK_PENDING_VERSION == 4
Version(n) == << <<"version", Const(n)>> >>

EarnedCertificateMax == ENVELOPE_SIZE + 1 + 3
EarnedCertificate ==
  Enveloped(Tags.EARNED_CERTIFICATE, EarnedCertificateMax,
    Version(WORK_CLOSE_VERSION)
      \o << <<"payment_edge", EdgeId>>, <<"payment_terms_hash", Hash>>, <<"earned_cumulative", U64>> >>,
    Version(WORK_CLOSE_VERSION)
      \o << <<"payment_edge", EdgeId>>, <<"payment_terms_hash", Hash>>, <<"earned_cumulative", U64>> >>)

SignedCertificate ==
  Struct(<< <<"certificate", Ref("EarnedCertificate")>>, <<"auth", Ref("PartyAuth")>> >>,
         << <<"certificate", Ref("EarnedCertificate")>>, <<"auth", Ref("PartyAuth")>> >>)

StartMax == ENVELOPE_SIZE + 1 + 1 + TermsMax + 1 + 2 + 1 + EarnedCertificateMax + 2 * PartyAuthMax
PaymentCloseStart ==
  LET w == << <<"payment_edge", EdgeId>>, <<"terms", Ref("TermsBody")>>, <<"opener_role", Party>>,
              <<"valid_from_height", U64>>, <<"valid_through_height", U64>>,
              <<"certificate", Opt(Ref("SignedCertificate"))>>, <<"action", Ref("PartyAuth")>> >>
      r == << <<"payment_edge", EdgeId>>, <<"terms", Ref("TermsBody")>>, <<"opener_role", Party>>,
              <<"valid_from_height", U64>>, <<"valid_through_height", U64>>,
              <<"certificate", Opt(Ref("SignedCertificate"))>>, <<"action", Ref("PartyAuth")>> >>
  IN Enveloped(Tags.PAYMENT_CLOSE_START, StartMax,
       Version(WORK_CLOSE_VERSION) \o w, Version(WORK_CLOSE_VERSION) \o r)

ResponseMax == ENVELOPE_SIZE + 1 + 3 + EarnedCertificateMax + 2 * PartyAuthMax
PaymentCloseResponse ==
  LET w == << <<"payment_edge", EdgeId>>, <<"start_id", Hash>>, <<"responder_role", Party>>,
              <<"certificate", Ref("EarnedCertificate")>>, <<"certificate_auth", Ref("PartyAuth")>>,
              <<"action", Ref("PartyAuth")>> >>
      r == << <<"payment_edge", EdgeId>>, <<"start_id", Hash>>, <<"responder_role", Party>>,
              <<"certificate", Ref("EarnedCertificate")>>, <<"certificate_auth", Ref("PartyAuth")>>,
              <<"action", Ref("PartyAuth")>> >>
  IN Enveloped(Tags.PAYMENT_CLOSE_RESPONSE, ResponseMax,
       Version(WORK_CLOSE_VERSION) \o w, Version(WORK_CLOSE_VERSION) \o r)

PendingPaymentClose ==
  LET w == << <<"payment_edge", EdgeId>>, <<"opener_role", Party>>, <<"start_id", Hash>>,
              <<"response_deadline", U64>>, <<"start_cumulative", U64>>,
              <<"final_cumulative", U64>>, <<"responded", Flag>>, <<"penalty_due", Flag>>,
              <<"penalty_amount", U64>>, <<"owner_signed", Array(Flag, 2)>> >>
      r == << <<"payment_edge", EdgeId>>, <<"opener_role", Party>>, <<"start_id", Hash>>,
              <<"response_deadline", U64>>, <<"start_cumulative", U64>>,
              <<"final_cumulative", U64>>, <<"responded", Flag>>, <<"penalty_due", Flag>>,
              <<"penalty_amount", U64>>, <<"owner_signed", Array(Flag, 2)>> >>
  IN Enveloped(Tags.PAYMENT_CLOSE_PENDING, ENVELOPE_SIZE + 1 + 11,
       Version(WORK_PENDING_VERSION) \o w, Version(WORK_PENDING_VERSION) \o r)

----------------------------------------------------------------------------
(* Registry records.                                                       *)

BOND_LEASE_VERSION == 2
BondLease ==
  LET w == << <<"bond_edge", EdgeId>>, <<"payment_edge", EdgeId>>, <<"payment_terms_hash", Hash>>,
              <<"private_policy_commitment", Hash>>, <<"admission_horizon", U64>> >>
      r == << <<"bond_edge", EdgeId>>, <<"payment_edge", EdgeId>>, <<"payment_terms_hash", Hash>>,
              <<"private_policy_commitment", Hash>>, <<"admission_horizon", U64>> >>
  IN Enveloped(Tags.BOND_LEASE, ENVELOPE_SIZE + 1 + 5,
       Version(BOND_LEASE_VERSION) \o w, Version(BOND_LEASE_VERSION) \o r)

\* chunk_count_for: 0 where the length has no chunking
ChunkCountFor(len) ==
  IF len \in 1..(MAX_REGISTRY_CHUNKS * REGISTRY_CHUNK_DATA_CAPACITY)
  THEN (len + REGISTRY_CHUNK_DATA_CAPACITY - 1) \div REGISTRY_CHUNK_DATA_CAPACITY
  ELSE 0

\* RegistryChunk::split
Split(value, index) ==
  LET live == SubSeq(value, index * REGISTRY_CHUNK_DATA_CAPACITY + 1,
                     IF (index + 1) * REGISTRY_CHUNK_DATA_CAPACITY < Len(value)
                     THEN (index + 1) * REGISTRY_CHUNK_DATA_CAPACITY ELSE Len(value))
  IN [format |-> FORMAT_VERSION, type |-> Tags.REGISTRY_CHUNK, version |-> 2,
      namespace |-> 1, record_tag |-> 1, chunk_index |-> index,
      chunk_count |-> ChunkCountFor(Len(value)), value_len |-> Len(value),
      data_len |-> Len(live),
      data |-> [i \in 1..REGISTRY_CHUNK_DATA_CAPACITY |->
                  IF i <= Len(live) THEN live[i] ELSE 0]]

\* expected_data_len: 0 where no length fits
ExpectedDataLen(len, index, count) ==
  LET remainder == len - index * REGISTRY_CHUNK_DATA_CAPACITY
  IN IF index + 1 < count THEN REGISTRY_CHUNK_DATA_CAPACITY
     ELSE IF remainder \in 1..REGISTRY_CHUNK_DATA_CAPACITY THEN remainder ELSE 0

\* What decode refuses as NonCanonical.
ChunkShape(c) ==
  /\ c.chunk_count # 0 /\ ChunkCountFor(c.value_len) = c.chunk_count
  /\ c.chunk_index < c.chunk_count
  /\ c.data_len # 0 /\ ExpectedDataLen(c.value_len, c.chunk_index, c.chunk_count) = c.data_len
  /\ \A i \in (c.data_len + 1)..REGISTRY_CHUNK_DATA_CAPACITY : c.data[i] = 0

ChunkSamples ==
  LET Value(n) == [i \in 1..n |-> i % 3]
      Pieces(n) == [i \in 1..ChunkCountFor(n) |-> Split(Value(n), i - 1)]
  IN FlattenSeq([n \in 1..(MAX_REGISTRY_CHUNKS * REGISTRY_CHUNK_DATA_CAPACITY) |-> Pieces(n)])

RegistryChunk ==
  LET w == << <<"namespace", Flag>>, <<"record_tag", Flag>>, <<"chunk_index", U8>>,
              <<"chunk_count", U8>>, <<"value_len", U8>>, <<"data_len", U8>>,
              <<"data", Array(U8, REGISTRY_CHUNK_DATA_CAPACITY)>> >>
      r == << <<"namespace", Flag>>, <<"record_tag", Flag>>, <<"chunk_index", U8>>,
              <<"chunk_count", U8>>, <<"value_len", U8>>, <<"data_len", U8>>,
              <<"data", Array(U8, REGISTRY_CHUNK_DATA_CAPACITY)>> >>
      e == Envelope(Tags.REGISTRY_CHUNK) \o Version(2)
  IN Sealed(Checked("chunk", Struct(e \o w, e \o r), ChunkSamples),
            ENVELOPE_SIZE + 7 + REGISTRY_CHUNK_DATA_CAPACITY)

----------------------------------------------------------------------------
(* Transactions.                                                           *)

Move == Peek(Tags.PAYMENT_CLOSE_START :> Ref("PaymentCloseStart")
             @@ Tags.PAYMENT_CLOSE_RESPONSE :> Ref("PaymentCloseResponse"))
MoveMax == Biggest({StartMax, ResponseMax})

ReshapeMax == ListMax(MAX_EDGE_INPUTS, 1) + PayoutsMax + AuthMax
Reshape ==
  Struct(<< <<"inputs", ListOf(CoinId, MAX_EDGE_INPUTS)>>, <<"outputs", Payouts>>, <<"auth", Ref("Auth")>> >>,
         << <<"inputs", ListOf(CoinId, MAX_EDGE_INPUTS)>>, <<"outputs", Payouts>>, <<"auth", Ref("Auth")>> >>)

OpenTx ==
  Struct(<< <<"funding", Ref("Funding")>>, <<"terms", Ref("TermsBody")>>,
            <<"maker_auth", Ref("PartyAuth")>>, <<"taker_auth", Ref("PartyAuth")>> >>,
         << <<"funding", Ref("Funding")>>, <<"terms", Ref("TermsBody")>>,
            <<"maker_auth", Ref("PartyAuth")>>, <<"taker_auth", Ref("PartyAuth")>> >>)
CloseTx ==
  Struct(<< <<"input", EdgeId>>, <<"proof", Ref("Proof")>>, <<"outputs", Payouts>> >>,
         << <<"input", EdgeId>>, <<"proof", Ref("Proof")>>, <<"outputs", Payouts>> >>)

TxMax == ENVELOPE_SIZE + 1
         + Biggest({FundingMax + TermsMax + 2 * PartyAuthMax,
                    1 + ProofMax + PayoutsMax, MoveMax, ReshapeMax})
Tx ==
  LET body == Choice(0 :> OpenTx @@ 1 :> CloseTx @@ 2 :> One("action", Move) @@ 3 :> Reshape)
  IN Enveloped(Tags.TX, TxMax, << <<"tx", body>> >>, << <<"tx", body>> >>)

KernelAccepts(name, v) == name = "chunk" => ChunkShape(v)

\* The small types, then the large ones.
RecordLayouts ==
  [BlockHeight |-> BlockHeight, Fees |-> Fees, Coin |-> Coin, Payout |-> Payout,
   PartyKeys |-> PartyKeys, Parties |-> Parties, Funding |-> Funding,
   WebAuthnAssertion |-> WebAuthnAssertion, Auth |-> Auth,
   EarnedCertificate |-> EarnedCertificate, PendingPaymentClose |-> PendingPaymentClose,
   BondLease |-> BondLease, RegistryChunk |-> RegistryChunk]
TransactionLayouts ==
  [Tx |-> Tx, Edge |-> Edge, TermsBody |-> TermsBody, PartyAuth |-> PartyAuth,
   Proof |-> Proof, PaymentCloseStart |-> PaymentCloseStart,
   PaymentCloseResponse |-> PaymentCloseResponse]

----------------------------------------------------------------------------
(* Hash preimages: a domain, then fields with no other separator.          *)

NetworkId == Some(U8, 2)
Subject == << <<"network", NetworkId>>, <<"payment_edge", EdgeId>>, <<"payment_terms_hash", Hash>> >>
Window == << <<"valid_from", U64>>, <<"valid_through", U64>> >>

\* Mutant: the two sides' coins are hashed in one run, without their counts
EdgeIdPreimageFlat ==
  Preimage("hellas.edge.edge.v1", << <<"terms", Hash>>, <<"maker", Rest>>, <<"taker", Rest>> >>)
EdgeIdPreimage ==
  Preimage("hellas.edge.edge.v1", << <<"terms", Hash>>, <<"maker", PartyCoins>>, <<"taker", PartyCoins>> >>)

OpenPreimage == Preimage("hellas.edge.open.v1", << <<"network", NetworkId>>, <<"edge", EdgeId>> >>)
ClosePreimage ==
  Preimage("hellas.edge.close.v1",
    << <<"network", NetworkId>>, <<"input", EdgeId>>, <<"kind", Cell({0, 1, 3, 4}, <<0, 1, 3, 4>>)>>,
       <<"terms", Hash>>, <<"outputs", Payouts>> >>)
GenesisCoinPreimage == Preimage("hellas.edge.genesis.v1", << <<"index", U64>> >>)
PayoutCoinPreimage ==
  Preimage("hellas.edge.coin.v1", << <<"edge", EdgeId>>, <<"index", U64>>, <<"owner", Key>> >>)
ReshapeCoinPreimage ==
  Preimage("hellas.owner.coin.v2",
    << <<"network", NetworkId>>, <<"inputs", ListOf(CoinId, MAX_EDGE_INPUTS)>>, <<"index", U64>>, <<"owner", Key>> >>)
ReshapePreimage ==
  Preimage("hellas.owner.reshape.v2",
    << <<"network", NetworkId>>, <<"inputs", ListOf(CoinId, MAX_EDGE_INPUTS)>>, <<"outputs", Payouts>> >>)
BondTermsPreimage == Preimage("hellas.terms.work-stake-bond.v4", << <<"witness", Ref("BondWitness")>> >>)
PaymentTermsPreimage ==
  Preimage("hellas.terms.work-payment.v4",
    Envelope(Tags.TERMS) \o << <<"variant", Const(2)>>, <<"payment", Ref("WorkPaymentTerms")>> >>)
BasicTermsPreimage ==
  Preimage("hellas.terms.basic.v2",
    Envelope(Tags.TERMS) \o << <<"variant", Const(0)>>, <<"basic", Ref("BasicTerms")>> >>)
EarnedPreimage ==
  Preimage("hellas.work.earned-cumulative.v2", Subject \o << <<"certificate", Ref("EarnedCertificate")>> >>)
NoEarnedPreimage ==
  Preimage("hellas.work.no-earned-certificate.v2",
    << <<"payment_edge", EdgeId>>, <<"payment_terms_hash", Hash>> >>)
SettlementPreimage == Preimage("hellas.work.settlement-state.v2", Subject \o << <<"amount", U64>> >>)
StartPreimage ==
  Preimage("hellas.work.start-payment-close.v2",
    Subject \o << <<"opener_role", Party>> >> \o Window \o << <<"earned_digest_or_none", Hash>> >>)
StartIdPreimage ==
  Preimage("hellas.work.start-payment-close-id.v2", << <<"start_digest", Hash>>, <<"inclusion_height", U64>> >>)
ResponsePreimage ==
  Preimage("hellas.work.respond-payment-close.v2",
    Subject \o << <<"start_id", Hash>>, <<"responder_role", Party>>, <<"earned_digest", Hash>> >>)
AdjudicatedPreimage ==
  Preimage("hellas.work.adjudicated-payment-close.v4",
    Subject \o << <<"start_id", Hash>>, <<"response_deadline", U64>>, <<"start_cumulative", U64>>,
                  <<"final_cumulative", U64>>, <<"penalty_due", Flag>>, <<"penalty_amount", U64>>,
                  <<"owner_signed", Array(Flag, 2)>> >>)
FreezePreimage ==
  Preimage("hellas.work.freeze-close.v2", Subject \o << <<"settlement", Hash>> >> \o Window)
ChunkIdPreimage ==
  Preimage("hellas.registry.chunk-id.v2",
    << <<"network", NetworkId>>, <<"namespace", Flag>>, <<"logical_key", EdgeId>>, <<"chunk_index", U8>> >>)

PreimageLayouts ==
  [edge_id |-> EdgeIdPreimage, open_hash |-> OpenPreimage, payload_hash |-> ClosePreimage,
   coin_genesis |-> GenesisCoinPreimage, coin_payout |-> PayoutCoinPreimage,
   coin_reshape |-> ReshapeCoinPreimage, reshape_hash |-> ReshapePreimage,
   terms_bond |-> BondTermsPreimage, terms_payment |-> PaymentTermsPreimage,
   terms_basic |-> BasicTermsPreimage, earned |-> EarnedPreimage,
   no_earned |-> NoEarnedPreimage, settlement |-> SettlementPreimage,
   start |-> StartPreimage, start_id |-> StartIdPreimage, response |-> ResponsePreimage,
   adjudicated |-> AdjudicatedPreimage, freeze |-> FreezePreimage, chunk_id |-> ChunkIdPreimage]

\* An accepted registry chunk is a piece split would have made: its count,
\* index, length and padding leave no second form of a record's piece.
ChunkIsSplit ==
  kind = "RegistryChunk" /\ read.ok =>
    \E c \in {read.v} :
      LET at(i) == i - c.chunk_index * REGISTRY_CHUNK_DATA_CAPACITY
          value == [i \in 1..c.value_len |-> IF at(i) \in 1..c.data_len THEN c.data[at(i)] ELSE 0]
      IN [Split(value, c.chunk_index) EXCEPT !.namespace = c.namespace, !.record_tag = c.record_tag] = c

----------------------------------------------------------------------------
(* The records of a channel.                                               *)

Digest == Word(1, 2)
Bool == Cell({0, 1}, <<0, 1>>)
Role == Cell({1, 2}, <<1, 2>>)
Bytes == Framed(Rest)                     \* put_bytes, take_bytes
Same(fields) == Struct(fields, fields)

\* A kernel value of the type tagged t, and a network id behind its length.
KernelValue(t) == Same(<< <<"format", Const(1)>>, <<"type", Const(t)>>, <<"value", Word(1, 2)>> >>)
FundingValue == KernelValue(6)
Terms(variant) == Same(<< <<"format", Const(1)>>, <<"type", Const(11)>>,
                          <<"variant", Const(variant)>>, <<"value", Word(1, 2)>> >>)
PartyAuthValue == KernelValue(32)
Network == Some(Word(1, 2), 2)

----------------------------------------------------------------------------
(* Private records (model/work.rs, model/grant.rs): an envelope and a body *)
(* of a declared size, counted here in fields.                             *)

ContentRef == Same(<< <<"id", Digest>>, <<"bytes", U64>> >>)
PrivateRecord(tag, size, w, r) ==
  LET e == << <<"format", Const(FORMAT_VERSION)>>, <<"tag", Const(tag)>> >>
  IN Sealed(Fixed(ENVELOPE_SIZE + size, Struct(e \o w, e \o r)), ENVELOPE_SIZE + size)

PaidChannelPolicyV1 ==
  PrivateRecord(0, 2,
    << <<"compute_credit_limit", U64>>, <<"delivery_credit_limit", U64>> >>,
    << <<"compute_credit_limit", U64>>, <<"delivery_credit_limit", U64>> >>)

JobPaymentPolicyV2 ==
  PrivateRecord(8, 4,
    << <<"fixed_price", U64>>, <<"dispatch_margin_blocks", U64>>,
       <<"delivery_margin_blocks", U64>>, <<"oracle_grace_blocks", U64>> >>,
    << <<"fixed_price", U64>>, <<"dispatch_margin_blocks", U64>>,
       <<"delivery_margin_blocks", U64>>, <<"oracle_grace_blocks", U64>> >>)

PaidJobAuthorizationV2 ==
  PrivateRecord(9, 6 + 5 + 2 + 1,
    << <<"channel_id", Digest>>, <<"work_policy_digest", Digest>>,
       <<"payment_policy_digest", Digest>>, <<"input_content", ContentRef>>,
       <<"prepared_input_digest", Digest>>, <<"proposal_nonce", U64>>,
       <<"acceptance_deadline", U64>>, <<"request_commitment", Digest>>,
       <<"environment_commitment", Digest>>, <<"price", U64>>,
       <<"terminal_deadline", U64>>, <<"payment_deadline", U64>>, <<"retention", Bool>> >>,
    << <<"channel_id", Digest>>, <<"work_policy_digest", Digest>>,
       <<"payment_policy_digest", Digest>>, <<"input_content", ContentRef>>,
       <<"prepared_input_digest", Digest>>, <<"proposal_nonce", U64>>,
       <<"acceptance_deadline", U64>>, <<"request_commitment", Digest>>,
       <<"environment_commitment", Digest>>, <<"price", U64>>,
       <<"terminal_deadline", U64>>, <<"payment_deadline", U64>>, <<"retention", Bool>> >>)

PaidJobResultV1 ==
  PrivateRecord(3, 3 + 1 + 2,
    << <<"work_id", Digest>>, <<"terminal_transcript_commitment", Digest>>,
       <<"canonical_output_digest", Digest>>, <<"outcome", Bool>>,
       <<"transcript_content", ContentRef>> >>,
    << <<"work_id", Digest>>, <<"terminal_transcript_commitment", Digest>>,
       <<"canonical_output_digest", Digest>>, <<"outcome", Bool>>,
       <<"transcript_content", ContentRef>> >>)

PaymentBindingV1 ==
  PrivateRecord(4, 3,
    << <<"work_id", Digest>>, <<"result_digest", Digest>>, <<"certificate_digest", Digest>> >>,
    << <<"work_id", Digest>>, <<"result_digest", Digest>>, <<"certificate_digest", Digest>> >>)

GrantJobAuthorizationV1 ==
  PrivateRecord(10, 6 + 1 + 8 + 2,
    << <<"channel_id", Digest>>, <<"generation", U64>>, <<"grant_id", Digest>>,
       <<"grant_revision", U64>>, <<"resource_id", Digest>>, <<"resource_revision", U64>>,
       <<"pricing_revision", U64>>, <<"work_policy_digest", Digest>>,
       <<"input_content", ContentRef>>, <<"prepared_input_digest", Digest>>,
       <<"proposal_nonce", U64>>, <<"acceptance_deadline_ms", U64>>,
       <<"request_commitment", Digest>>, <<"environment_commitment", Digest>>,
       <<"terminal_deadline_ms", U64>>, <<"delivery_deadline_ms", U64>> >>,
    << <<"channel_id", Digest>>, <<"generation", U64>>, <<"grant_id", Digest>>,
       <<"grant_revision", U64>>, <<"resource_id", Digest>>, <<"resource_revision", U64>>,
       <<"pricing_revision", U64>>, <<"work_policy_digest", Digest>>,
       <<"input_content", ContentRef>>, <<"prepared_input_digest", Digest>>,
       <<"proposal_nonce", U64>>, <<"acceptance_deadline_ms", U64>>,
       <<"request_commitment", Digest>>, <<"environment_commitment", Digest>>,
       <<"terminal_deadline_ms", U64>>, <<"delivery_deadline_ms", U64>> >>)

----------------------------------------------------------------------------
(* Setup bundles (model/bundle.rs): a revision extends the one before it.  *)

BondLeg == << <<"network", Network>>, <<"bond_funding", FundingValue>>, <<"bond_terms", Terms(4)>>,
              <<"provider_bond_auth", PartyAuthValue>> >>
PaymentLeg == << <<"client_bond_auth", PartyAuthValue>>, <<"payment_funding", FundingValue>>,
                 <<"payment_terms", Terms(2)>>, <<"client_payment_auth", PartyAuthValue>> >>
Complete == << <<"provider_payment_auth", PartyAuthValue>> >>

WorkChannelSetupBundleV2 ==
  Same(<< <<"format", Const(2)>>,
          <<"stage", Choice(1 :> Same(BondLeg) @@ 2 :> Same(BondLeg \o PaymentLeg)
                            @@ 3 :> Same(BondLeg \o PaymentLeg \o Complete))>> >>)

\* check_extends: the next revision, and the held body a prefix of its own.
CheckExtends(next, held) ==
  LET arrived == Enc(WorkChannelSetupBundleV2, next)
      before  == Enc(WorkChannelSetupBundleV2, held)
  IN /\ next.stage.tag = held.stage.tag + 1
     /\ IsPrefix(After(before, 2), After(arrived, 2))

CloseDescriptor ==
  Struct(<< <<"version", Const(4)>>, <<"network", Network>>, <<"payment_edge", Digest>>,
            <<"payment_terms", Terms(2)>>, <<"policy_salt", Digest>>,
            <<"channel_policy", Ref("PaidChannelPolicyV1")>>, <<"invocation_policy", Bytes>>,
            <<"payment_policy", Framed(JobPaymentPolicyV2)>>, <<"value", U64>>,
            <<"reserve", U64>>, <<"close_fees", KernelValue(2)>> >>,
         << <<"version", Const(4)>>, <<"network", Network>>, <<"payment_edge", Digest>>,
            <<"payment_terms", Terms(2)>>, <<"policy_salt", Digest>>,
            <<"channel_policy", Ref("PaidChannelPolicyV1")>>, <<"invocation_policy", Bytes>>,
            <<"payment_policy", Framed(JobPaymentPolicyV2)>>, <<"value", U64>>,
            <<"reserve", U64>>, <<"close_fees", KernelValue(2)>> >>)

----------------------------------------------------------------------------
(* Journal records of a setup and its checkpoint (work_store/setup).       *)

SetupScan == Same(<< <<"height", U64>>, <<"payload", Digest>> >>)
SetupOrigin ==
  Struct(<< <<"payment_edge", Digest>>, <<"height", U64>>, <<"payload", Digest>>, <<"parent", Digest>> >>,
         << <<"payment_edge", Digest>>, <<"height", U64>>, <<"payload", Digest>>, <<"parent", Digest>> >>)
SetupEnd == Cell(0..7, <<0, 3, 7>>)
SignedPaidOffer == Rest   \* canonical CBOR, opaque here

SetupObservation ==
  Struct(<< <<"from", SetupScan>>, <<"through", SetupScan>>, <<"bond_finalized", Bool>>,
            <<"payment_finalized", Bool>>, <<"bond_closed", Bool>>, <<"payment_closed", Bool>>,
            <<"origin", Opt(SetupOrigin)>> >>,
         << <<"from", SetupScan>>, <<"through", SetupScan>>, <<"bond_finalized", Bool>>,
            <<"payment_finalized", Bool>>, <<"bond_closed", Bool>>, <<"payment_closed", Bool>>,
            <<"origin", Opt(SetupOrigin)>> >>)

SetupRecord ==
  Choice(
    0 :> Same(<< <<"bundle", Rest>> >>)
    @@ 1 :> Same(<<>>) @@ 2 :> Same(<<>>) @@ 8 :> Same(<<>>)
    @@ 3 :> SetupOrigin
    @@ 4 :> Same(<< <<"outcome", SetupEnd>> >>)
    @@ 5 :> Same(<< <<"height", U64>>, <<"payload", Digest>> >>)
    @@ 6 :> Same(<< <<"bundle", Bytes>>, <<"close_descriptor", Ref("CloseDescriptor")>> >>)
    @@ 7 :> SetupObservation
    @@ 9 :> Same(<< <<"peer", Digest>>, <<"floor", Opt(SetupScan)>>,
                    <<"offer", SignedPaidOffer>> >>))

SetupCheckpoint ==
  Struct(
    << <<"network", Framed(Rest)>>, <<"bond_edge", Digest>>, <<"role", Role>>,
       <<"bundle", Opt(Bytes)>>, <<"scan_armed", Opt(SetupScan)>>,
       <<"close_descriptor", Opt(Framed(Ref("CloseDescriptor")))>>,
       <<"unresolved_bond_open", Bool>>, <<"unresolved_payment_open", Bool>>,
       <<"scan_cursor", Opt(SetupScan)>>, <<"bond_finalized", Bool>>,
       <<"payment_finalized", Bool>>, <<"bond_closed", Bool>>, <<"payment_closed", Bool>>,
       <<"bond_timeout_submitted", Bool>>, <<"origin", Opt(SetupOrigin)>>,
       <<"end", Opt(SetupEnd)>>,
       <<"offer", Opt(Same(<< <<"peer", Digest>>, <<"offer", Framed(SignedPaidOffer)>> >>))>> >>,
    << <<"network", Framed(Rest)>>, <<"bond_edge", Digest>>, <<"role", Role>>,
       <<"bundle", Opt(Bytes)>>, <<"scan_armed", Opt(SetupScan)>>,
       <<"close_descriptor", Opt(Framed(Ref("CloseDescriptor")))>>,
       <<"unresolved_bond_open", Bool>>, <<"unresolved_payment_open", Bool>>,
       <<"scan_cursor", Opt(SetupScan)>>, <<"bond_finalized", Bool>>,
       <<"payment_finalized", Bool>>, <<"bond_closed", Bool>>, <<"payment_closed", Bool>>,
       <<"bond_timeout_submitted", Bool>>, <<"origin", Opt(SetupOrigin)>>,
       <<"end", Opt(SetupEnd)>>,
       <<"offer", Opt(Same(<< <<"peer", Digest>>, <<"offer", Framed(SignedPaidOffer)>> >>))>> >>)

----------------------------------------------------------------------------
(* Journal records of a channel and its checkpoint (work_store/channel).   *)

Outcome ==
  Choice(
    0 :> Struct(<< <<"result", Ref("PaidJobResultV1")>>, <<"result_signature", Sig>>,
                   <<"certificate", KernelValue(20)>>, <<"binding", Ref("PaymentBindingV1")>>,
                   <<"binding_signature", Sig>>, <<"certificate_signature", Sig>> >>,
                << <<"result", Ref("PaidJobResultV1")>>, <<"result_signature", Sig>>,
                   <<"certificate", KernelValue(20)>>, <<"binding", Ref("PaymentBindingV1")>>,
                   <<"binding_signature", Sig>>, <<"certificate_signature", Sig>> >>)
    @@ 1 :> Same(<< <<"result_digest", Digest>>, <<"evidence_digest", Digest>> >>)
    @@ 2 :> Same(<< <<"deadline", U64>>, <<"height", U64>>, <<"payload", Digest>> >>)
    @@ 3 :> Same(<< <<"code", U64>> >>)
    @@ 4 :> Same(<<>>))

CloseHistory == Same(<< <<"height", U64>>, <<"payload", Digest>>, <<"pending", Framed(KernelValue(23))>> >>)
CloseOpened ==
  Struct(<< <<"start_id", Digest>>, <<"opener", Party>>, <<"response_deadline", U64>>, <<"claimed", U64>> >>,
         << <<"start_id", Digest>>, <<"opener", Party>>, <<"response_deadline", U64>>, <<"claimed", U64>> >>)
CloseResponded == Same(<< <<"start_id", Digest>>, <<"response_digest", Digest>> >>)
CloseSettled == Same(<< <<"height", U64>>, <<"payload", Digest>>, <<"provider_payout", U64>> >>)

WorkId == << <<"work_id", Digest>> >>
Proposed(body) ==
  Struct(<< <<"authorization", Ref("PaidJobAuthorizationV2")>>, <<"client_signature", Sig>> >> \o body,
         << <<"authorization", Ref("PaidJobAuthorizationV2")>>, <<"client_signature", Sig>> >> \o body)
Result(body) ==
  Struct(<< <<"work_id", Digest>>, <<"result", Ref("PaidJobResultV1")>>, <<"provider_signature", Sig>> >> \o body,
         << <<"work_id", Digest>>, <<"result", Ref("PaidJobResultV1")>>, <<"provider_signature", Sig>> >> \o body)

RecordOf(proposed, result) ==
  Choice(
    0 :> Same(<< <<"height", U64>>, <<"parent", Digest>>, <<"payload", Digest>> >>)
    @@ 1 :> proposed
    @@ 2 :> Same(WorkId \o << <<"provider_signature", Sig>> >>)
    @@ 3 :> Same(WorkId) @@ 5 :> Same(WorkId) @@ 6 :> Same(WorkId)
    @@ 4 :> result
    @@ 7 :> Same(WorkId \o << <<"outcome", Ref("Outcome")>> >>)
    @@ 8 :> Same(<< <<"start", KernelValue(21)>> >>)
    @@ 9 :> CloseOpened @@ 10 :> CloseSettled @@ 11 :> CloseResponded
    @@ 12 :> Same(WorkId \o << <<"pending", Bool>> >>)
    @@ 13 :> Same(<<>>)
    @@ 14 :> Same(<< <<"parent", Digest>>, <<"history", CloseHistory>> >>))

\* encode and decode: a body runs to the end of the record.
ChannelRecord == RecordOf(Proposed(<< <<"prepared_input", Rest>> >>),
                          Result(<< <<"transcript", Rest>> >>))

\* encode_for_storage: the content store keeps the bodies.
StoredRecord == RecordOf(Proposed(<<>>), Result(<<>>))
WithoutBodies(record) ==
  CASE record.tag = 1 -> [record EXCEPT !.body.prepared_input = <<>>]
    [] record.tag = 4 -> [record EXCEPT !.body.transcript = <<>>]
    [] OTHER -> record

JobPhase == Cell(0..6, <<0, 3, 6>>)
SignedResult == Same(<< <<"result", Ref("PaidJobResultV1")>>, <<"signature", Sig>> >>)
JobState ==
  Struct(<< <<"authorization", Ref("PaidJobAuthorizationV2")>>, <<"work_id", Digest>>,
            <<"client_signature", Sig>>, <<"provider_signature", Opt(Sig)>>, <<"phase", JobPhase>>,
            <<"result", Opt(Ref("SignedResult"))>>, <<"prepared_input", Bytes>>, <<"transcript", Bytes>> >>,
         << <<"authorization", Ref("PaidJobAuthorizationV2")>>, <<"work_id", Digest>>,
            <<"client_signature", Sig>>, <<"provider_signature", Opt(Sig)>>, <<"phase", JobPhase>>,
            <<"result", Opt(Ref("SignedResult"))>>, <<"prepared_input", Bytes>>, <<"transcript", Bytes>> >>)
JobTerminal ==
  Struct(<< <<"work_id", Digest>>, <<"phase", JobPhase>>, <<"outcome", Ref("Outcome")>> >>,
         << <<"work_id", Digest>>, <<"phase", JobPhase>>, <<"outcome", Ref("Outcome")>> >>)

\* What names the channel is compared with what the caller already holds.
Held == << <<"channel_id", Const(7)>>, <<"freeze_total", Const(8)>>,
           <<"adjudicated_total", Const(9)>>, <<"capacity", Const(10)>>,
           <<"omission_bond", Const(11)>>, <<"role", Const(1)>> >>

Checkpoint ==
  Struct(Held \o << <<"credited", U64>>, <<"jobs", MapOf(JobState, 2, "work_id")>>,
            <<"terminals", MapOf(JobTerminal, 2, "work_id")>>, <<"nonce_high_water", U64>>,
            <<"origin_observed", Bool>>, <<"cursor", SetupScan>>,
            <<"indeterminate", MapOf(Digest, 2, "")>>,
            <<"close_prepared", Opt(Framed(KernelValue(21)))>>, <<"close_opened", Opt(Ref("CloseOpened"))>>,
            <<"close_responded", Opt(CloseResponded)>>, <<"close_settled", Opt(CloseSettled)>>,
            <<"pending_proposal", Opt(Digest)>>, <<"close_history", AtEnd(CloseHistory)>> >>,
         Held \o << <<"credited", U64>>, <<"jobs", MapOf(JobState, 2, "work_id")>>,
            <<"terminals", MapOf(JobTerminal, 2, "work_id")>>, <<"nonce_high_water", U64>>,
            <<"origin_observed", Bool>>, <<"cursor", SetupScan>>,
            <<"indeterminate", MapOf(Digest, 2, "")>>,
            <<"close_prepared", Opt(Framed(KernelValue(21)))>>, <<"close_opened", Opt(Ref("CloseOpened"))>>,
            <<"close_responded", Opt(CloseResponded)>>, <<"close_settled", Opt(CloseSettled)>>,
            <<"pending_proposal", Opt(Digest)>>, <<"close_history", AtEnd(CloseHistory)>> >>)

----------------------------------------------------------------------------
(* Preimages of the digests (xh, xfh, hash_tuple).                         *)

PublicKey == Choice(0 :> Same(<< <<"bytes", Array(Word(1, 2), 1)>> >>)
                    @@ 1 :> Same(<< <<"bytes", Array(Word(1, 2), 2)>> >>))
InChannel(domain, record) ==
  Preimage(domain, << <<"network", Network>>, <<"channel", Digest>>, <<"record", record>> >>)

ChannelIdPreimage ==
  Preimage("hellas.work.channel.v2",
    << <<"network", Network>>, <<"payment_edge", Digest>>, <<"payment_terms_hash", Digest>>,
       <<"bond_edge", Digest>>, <<"bond_terms_hash", Digest>> >>)
PolicyCommitmentPreimage ==
  Preimage("hellas.work.paid-channel-policy.v1",
    << <<"network", Network>>, <<"salt", Digest>>, <<"policy", Ref("PaidChannelPolicyV1")>> >>)
WorkIdPreimage == InChannel("hellas.work.paid-job-authorize.v2", PaidJobAuthorizationV2)
ResultPreimage == InChannel("hellas.work.paid-job-result.v1", PaidJobResultV1)
BindingPreimage == InChannel("hellas.work.payment-binding.v1", PaymentBindingV1)
JobPolicyPreimage == InChannel("hellas.work.job-payment-policy.v2", JobPaymentPolicyV2)
DeliveryPreimage ==
  Preimage("hellas.work.delivery-request.v1",
    << <<"network", Network>>, <<"channel", Digest>>, <<"work_id", Digest>>, <<"exporter", Digest>> >>)
GrantChannelPreimage ==
  Preimage("hellas.work.grant-channel.v4",
    << <<"network", Network>>, <<"provider", Digest>>, <<"grant", Digest>>,
       <<"principal", PublicKey>>, <<"node", PublicKey>>, <<"generation", U64>> >>)
GrantWorkPreimage == InChannel("hellas.work.grant-job-authorize.v1", GrantJobAuthorizationV1)
OwnerGrantPreimage ==
  Preimage("hellas.work.owner-grant.v3",
    << <<"network", Network>>, <<"provider", Digest>>, <<"owner", Digest>> >>)
BundlePreimage ==
  Preimage("hellas.work.channel-setup-bundle.v2", << <<"bundle", Ref("WorkChannelSetupBundleV2")>> >>)
OfferRequestPreimage ==
  Preimage("hellas.work.offer-request.v1",
    << <<"network", Framed(Rest)>>, <<"provider", Framed(Digest)>>, <<"principal", Framed(Digest)>>,
       <<"client_key", Framed(Digest)>>, <<"coins", Framed(Rest)>>, <<"exporter", Framed(Digest)>> >>)

PrivateLayouts ==
  [PaidChannelPolicyV1 |-> PaidChannelPolicyV1, JobPaymentPolicyV2 |-> JobPaymentPolicyV2,
   PaidJobAuthorizationV2 |-> PaidJobAuthorizationV2, PaidJobResultV1 |-> PaidJobResultV1,
   PaymentBindingV1 |-> PaymentBindingV1, GrantJobAuthorizationV1 |-> GrantJobAuthorizationV1,
   WorkChannelSetupBundleV2 |-> WorkChannelSetupBundleV2, CloseDescriptor |-> CloseDescriptor]
JournalLayouts == [ChannelRecord |-> ChannelRecord, SetupRecord |-> SetupRecord]
CheckpointLayouts == [Checkpoint |-> Checkpoint, SetupCheckpoint |-> SetupCheckpoint]
DigestLayouts ==
  [channel |-> ChannelIdPreimage, policy_commitment |-> PolicyCommitmentPreimage,
   work_id |-> WorkIdPreimage, result |-> ResultPreimage, binding |-> BindingPreimage,
   job_policy |-> JobPolicyPreimage, delivery |-> DeliveryPreimage,
   grant_channel |-> GrantChannelPreimage, grant_work |-> GrantWorkPreimage,
   owner_grant |-> OwnerGrantPreimage, bundle |-> BundlePreimage,
   offer_request |-> OfferRequestPreimage]

BundleSamples == Samples(WorkChannelSetupBundleV2)

----------------------------------------------------------------------------
(* Properties.                                                             *)

\* Comparing encodings decides the same as comparing fields: a bundle is
\* taken as the next revision of the held one exactly when it keeps every
\* field the held revision fixed, so nothing signed can be rewritten.
ExtendsKeepsFields ==
  kind = "WorkChannelSetupBundleV2" /\ faults = 0 =>
    \A i \in DOMAIN BundleSamples :
      \E next \in {BundleSamples[i]} :
        CheckExtends(next, sent)
          <=> /\ next.stage.tag = sent.stage.tag + 1
              /\ \A f \in DOMAIN sent.stage.body :
                   next.stage.body[f] = sent.stage.body[f]

\* The journal's form of a record, read back, is the record without the
\* bodies the content store keeps: replay sees every other field, and no
\* body is stored twice.
StoredWithoutBodies ==
  kind = "ChannelRecord" /\ faults = 0 =>
    \E d \in {DecExact(ChannelRecord, Enc(StoredRecord, sent))} :
      d.ok /\ d.v = WithoutBodies(sent)
=============================================================================
