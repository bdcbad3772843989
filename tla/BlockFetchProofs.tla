-------------------------- MODULE BlockFetchProofs --------------------------
(***************************************************************************)
(* Proofs about BlockFetch, for every set of batches, answers and errors   *)
(* and every number of attempts.                                           *)
(***************************************************************************)
EXTENDS BlockFetch, TLAPS

BodyType == [attempt : Nat, height : Nat, count : Nat]

(* Inductive: a resolved batch is assembled from got, so the freshness of  *)
(* what got holds is what BatchComplete needs.                             *)
FetchInv == FetchTypeOK /\ GotFresh /\ BatchComplete

(* A batch has a height at every position.                                 *)
LEMMA HeightsAreNat ==
    ASSUME FetchTypeOK, NEW i \in DOMAIN batch
    PROVE  batch[i] \in Nat
BY FetchAssumption DEF FetchTypeOK

(* What is asked for an attempt belongs to it and to a height of the batch.*)
LEMMA AskedType ==
    ASSUME NEW a, NEW b, NEW r \in Ask(a, b)
    PROVE  r.attempt = a /\ r.at \in DOMAIN b /\ r.part \in Parts
BY DEF Ask, Request

LEMMA NothingGotType ==
    ASSUME NEW b
    PROVE  /\ NothingGot(b) \in [DOMAIN b -> [Parts -> BodyType]]
           /\ \A i \in DOMAIN b : \A p \in Parts : NothingGot(b)[i][p] = NoBody
BY DEF NothingGot, NoBody, Body, BodyType

LEMMA InitEstablishes == FetchInit => FetchInv
<1> SUFFICES ASSUME FetchInit PROVE FetchInv
  OBVIOUS
<1>1. FetchTypeOK
  BY FetchAssumption, AskedType, NothingGotType
     DEF FetchInit, FetchTypeOK, BodyType
<1>2. GotFresh
  BY NothingGotType DEF FetchInit, GotFresh
<1>3. BatchComplete
  BY DEF FetchInit, BatchComplete
<1> QED
  BY <1>1, <1>2, <1>3 DEF FetchInv

(* One answer arriving changes one place of got, with a body of this       *)
(* attempt, or nothing.                                                    *)
LEMMA AnswerPreserves ==
    ASSUME FetchInv, NEW r \in pending, NEW n \in Counts, Answer(r, n)
    PROVE  FetchInv'
<1> DEFINE b == Body(r.attempt, batch[r.at], n)
<1>1. /\ FetchTypeOK /\ GotFresh /\ BatchComplete
      /\ r.attempt \in 1..attempt /\ r.at \in DOMAIN batch /\ r.part \in Parts
      /\ n \in Nat /\ attempt \in Nat
  BY FetchAssumption DEF FetchInv, FetchTypeOK
<1>2. b \in BodyType
  BY <1>1, HeightsAreNat DEF Body, BodyType
<1>3. got \in [DOMAIN batch -> [Parts -> BodyType]]
  BY <1>1 DEF FetchTypeOK, BodyType
<1>4. UNCHANGED <<batch, attempt, outcome, contents>> /\ pending' \subseteq pending
  BY DEF Answer
<1>5. CASE Awaited(r)
  <2>1. /\ got' = [got EXCEPT ![r.at][r.part] = b]
        /\ r.attempt = attempt
        /\ outcome = "running"
    BY <1>5 DEF Answer, Awaited
  <2>2. got' \in [DOMAIN batch -> [Parts -> BodyType]]
    BY <1>1, <1>2, <1>3, <2>1
  <2>3. FetchTypeOK'
    BY <1>1, <1>4, <2>2 DEF FetchTypeOK, BodyType
  <2>4. ASSUME NEW i \in DOMAIN batch, NEW p \in Parts
        PROVE  got'[i][p] = IF i = r.at /\ p = r.part THEN b ELSE got[i][p]
    BY <1>1, <1>3, <2>1
  <2>5. b.attempt = attempt /\ b.height = batch[r.at]
    BY <2>1 DEF Body
  <2>6. GotFresh'
    BY <1>1, <1>4, <2>4, <2>5 DEF GotFresh
  <2>7. BatchComplete'
    BY <1>4, <2>1 DEF BatchComplete
  <2> QED
    BY <2>3, <2>6, <2>7 DEF FetchInv
<1>6. CASE ~Awaited(r)
  <2>1. got' = got
    BY <1>6 DEF Answer
  <2> QED
    BY <1>1, <1>4, <2>1 DEF FetchInv, FetchTypeOK, GotFresh, BatchComplete
<1> QED
  BY <1>5, <1>6

LEMMA FailPreserves ==
    ASSUME FetchInv, NEW r \in pending, NEW f \in Failures, Fail(r, f)
    PROVE  FetchInv'
<1>1. /\ UNCHANGED <<batch, attempt, got, contents>>
      /\ pending' \subseteq pending
      /\ outcome' \in {outcome, "rejected"}
  BY DEF Fail
<1> QED
  BY <1>1 DEF FetchInv, FetchTypeOK, GotFresh, BatchComplete

LEMMA AssemblePreserves ==
    ASSUME FetchInv, Assemble
    PROVE  FetchInv'
<1>1. /\ FetchTypeOK /\ GotFresh
      /\ AllGot /\ \A i \in DOMAIN batch : Matches(i)
      /\ outcome' = "resolved" /\ contents' = got
      /\ UNCHANGED <<batch, attempt, pending, got>>
  BY DEF FetchInv, Assemble
<1>2. FetchTypeOK' /\ GotFresh'
  BY <1>1 DEF FetchTypeOK, GotFresh
<1>3. DOMAIN got = DOMAIN batch
  BY <1>1 DEF FetchTypeOK
<1>4. BatchComplete'
  BY <1>1, <1>3 DEF BatchComplete, GotFresh, AllGot, Matches
<1> QED
  BY <1>2, <1>4 DEF FetchInv

LEMMA AssembleThrowsPreserves ==
    ASSUME FetchInv, AssembleThrows
    PROVE  FetchInv'
BY DEF FetchInv, AssembleThrows, FetchTypeOK, GotFresh, BatchComplete

(* A new attempt starts from nothing; old requests stay pending.           *)
LEMMA RetryPreserves ==
    ASSUME FetchInv, Retry
    PROVE  FetchInv'
<1>1. /\ FetchTypeOK
      /\ attempt' = attempt + 1 /\ attempt < MaxAttempts
      /\ pending' = pending \cup Ask(attempt + 1, batch)
      /\ got' = NothingGot(batch)
      /\ outcome' = "running"
      /\ batch' = batch
  BY DEF FetchInv, Retry
<1>2. attempt \in Nat /\ attempt' \in 1..MaxAttempts
  BY <1>1, FetchAssumption DEF FetchTypeOK
<1>3. ASSUME NEW r \in pending'
      PROVE  r.attempt \in 1..attempt' /\ r.at \in DOMAIN batch' /\ r.part \in Parts
  <2>1. CASE r \in pending
    BY <1>1, <1>2, <2>1 DEF FetchTypeOK
  <2>2. CASE r \in Ask(attempt + 1, batch)
    BY <1>1, <1>2, <2>2, AskedType
  <2> QED
    BY <1>1, <1>3, <2>1, <2>2
<1>4. FetchTypeOK'
  BY <1>1, <1>2, <1>3, NothingGotType DEF FetchTypeOK, BodyType
<1>5. GotFresh'
  BY <1>1, NothingGotType DEF GotFresh
<1>6. BatchComplete'
  BY <1>1 DEF BatchComplete
<1> QED
  BY <1>4, <1>5, <1>6 DEF FetchInv

LEMMA FetchInvInductive == FetchInv /\ [FetchNext]_fetchVars => FetchInv'
<1> SUFFICES ASSUME FetchInv, [FetchNext]_fetchVars PROVE FetchInv'
  OBVIOUS
<1>1. CASE Settle
  <2>1. PICK r \in pending : \/ \E n \in Counts : Answer(r, n)
                             \/ \E f \in Failures : Fail(r, f)
    BY <1>1 DEF Settle
  <2> QED
    BY <2>1, AnswerPreserves, FailPreserves
<1>2. CASE Assemble
  BY <1>2, AssemblePreserves
<1>3. CASE AssembleThrows
  BY <1>3, AssembleThrowsPreserves
<1>4. CASE Retry
  BY <1>4, RetryPreserves
<1>5. CASE UNCHANGED fetchVars
  BY <1>5 DEF FetchInv, FetchTypeOK, GotFresh, BatchComplete, fetchVars
<1> QED
  BY <1>1, <1>2, <1>3, <1>4, <1>5 DEF FetchNext

(* A batch fetchBlocksBatches resolves with is complete, in order and of   *)
(* one attempt, however the answers, failures and retries interleave.      *)
THEOREM BatchesAreComplete == FetchSpec => []BatchComplete
<1>1. FetchInv => BatchComplete
  BY DEF FetchInv
<1> QED
  BY <1>1, InitEstablishes, FetchInvInductive, PTL DEF FetchSpec

(* The bookkeeping of requests and answers keeps its types.                *)
THEOREM FetchTypeCorrect == FetchSpec => []FetchTypeOK
<1>1. FetchInv => FetchTypeOK
  BY DEF FetchInv
<1> QED
  BY <1>1, InitEstablishes, FetchInvInductive, PTL DEF FetchSpec

(* Neither the client that throws an error nor CosmosClient.handleError,   *)
(* which names and rewords it, disturbs what the connection classifies it  *)
(* by.                                                                     *)
LEMMA FailureKeepsType ==
    ASSUME NEW f \in FailureRecord
    PROVE  ConnectionHandleError(ClientHandleError(ExecuteError(f))).type = TypeOf(f)
<1> DEFINE e == ExecuteError(f)
<1>1. e \in ErrorRecord
  BY DEF ExecuteError, FailureRecord, ErrorRecord, Phrases
<1>2. ClientHandleError(e).start = e.start
  BY <1>1 DEF ClientHandleError, ErrorRecord
<1>3. ConnectionHandleError(ClientHandleError(e)).type
        = ConnectionHandleError(e).type
  BY <1>2 DEF ConnectionHandleError
<1>4. ConnectionHandleError(e).type = TypeOf(f)
  BY DEF ConnectionHandleError, ExecuteError, TypeOf, FailureRecord
<1> QED
  BY <1>3, <1>4

(* The pool is told of a rate limit, and of nothing else as one, for every *)
(* set of failures an endpoint may show.                                   *)
THEOREM ErrorTypeIsTold == FetchSpec => []ErrorTypeTold
<1>1. FetchInit => ErrorTypeTold
  BY DEF FetchInit, ErrorTypeTold
<1>2. ErrorTypeTold /\ [FetchNext]_fetchVars => ErrorTypeTold'
  <2> SUFFICES ASSUME ErrorTypeTold, [FetchNext]_fetchVars PROVE ErrorTypeTold'
    OBVIOUS
  <2>1. CASE Settle
    <3>1. PICK r \in pending : \/ \E n \in Counts : Answer(r, n)
                               \/ \E f \in Failures : Fail(r, f)
      BY <2>1 DEF Settle
    <3>2. CASE \E n \in Counts : Answer(r, n)
      BY <3>2 DEF Answer, ErrorTypeTold
    <3>3. CASE \E f \in Failures : Fail(r, f)
      <4>1. PICK f \in Failures : Fail(r, f)
        BY <3>3
      <4>2. f \in FailureRecord
        BY FetchAssumption
      <4>3. CASE Awaited(r)
        BY <4>1, <4>2, <4>3, FailureKeepsType DEF Fail, ErrorTypeTold
      <4>4. CASE ~Awaited(r)
        BY <4>1, <4>4 DEF Fail, ErrorTypeTold
      <4> QED
        BY <4>3, <4>4
    <3> QED
      BY <3>1, <3>2, <3>3
  <2>2. CASE Assemble
    BY <2>2 DEF Assemble, ErrorTypeTold
  <2>3. CASE AssembleThrows
    BY <2>3 DEF AssembleThrows, ErrorTypeTold, Mismatch, NoError, NoFailure,
                ConnectionHandleError, TypeOf
  <2>4. CASE Retry
    BY <2>4 DEF Retry, ErrorTypeTold
  <2>5. CASE UNCHANGED fetchVars
    BY <2>5 DEF fetchVars, ErrorTypeTold
  <2> QED
    BY <2>1, <2>2, <2>3, <2>4, <2>5 DEF FetchNext
<1> QED
  BY <1>1, <1>2, PTL DEF FetchSpec

=============================================================================
