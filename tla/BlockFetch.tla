----------------------------- MODULE BlockFetch -----------------------------
(***************************************************************************)
(* One call of ApiService.fetchBlocks: fetchBlocksBatches of packages/     *)
(* node/src/utils/cosmos.ts asks, for all heights of a batch in parallel,  *)
(* for the block and for its results; CosmosClientConnection of            *)
(* packages/node/src/indexer/cosmosClient.connection.ts runs it and tells  *)
(* the connection pool what kind of error ended it.                        *)
(*                                                                         *)
(* The endpoint is external: it answers or fails each request, in any      *)
(* order.  The loop that tries a batch again is that of @subql/node-core.  *)
(* A request of an attempt that has already failed is not cancelled; its   *)
(* answer arrives during a later attempt.                                  *)
(***************************************************************************)
EXTENDS Integers, HttpClient

CONSTANTS
    Batches,    \* the sequences of heights that may be asked for
    Counts,     \* how many transactions, or results, an answer may list
    Failures,   \* the ways a request may fail
    MaxAttempts \* bound of the loop in @subql/node-core

VARIABLES
    batch,      \* blockArray
    attempt,    \* number of the current call of fetchBlocksBatches
    pending,    \* requests under way, those of failed attempts included
    got,        \* per height and part, what its promise resolved to
    outcome,    \* of the current attempt: "running", "resolved", "rejected"
    contents,   \* the blocks a resolved attempt returns
    error,      \* what a rejected attempt rejects with
    cause       \* history: how the request failed

fetchVars == <<batch, attempt, pending, got, outcome, contents, error, cause>>

Parts == {"info", "results"}

Request(a, i, p) == [attempt |-> a, at |-> i, part |-> p]
Body(a, h, n) == [attempt |-> a, height |-> h, count |-> n]
NoBody == Body(0, 0, 0)

-----------------------------------------------------------------------------
ASSUME FetchAssumption ==
    /\ \A b \in Batches : b \in Seq(Nat)
    /\ Counts \subseteq Nat
    /\ Failures \subseteq FailureRecord
    /\ MaxAttempts \in Nat \ {0}

NoError == [start |-> "none", exact |-> FALSE, json |-> FALSE,
            data |-> {}, rest |-> {}, name |-> "Error"]

NoFailure == [status |-> "other", body |-> "junk", data |-> {}, rest |-> {}]

(* assert(): txInfos doesn't match up with block                           *)
Mismatch == [NoError EXCEPT !.start = "txInfos", !.name = "AssertionError"]

(* Faulty variant: the message of a rate limit error is reworded.          *)
ClientHandleErrorRewords(e) ==
    IF e.exact /\ e.start = "429"
    THEN [e EXCEPT !.name = "RateLimitError", !.start = "other"]
    ELSE e

(* CosmosClient.handleError: the data of a pruned node's error becomes its *)
(* message; plain HTTP errors get a name.  The data of an RPC error starts *)
(* with none of the phrases start names.                                   *)
ClientHandleError(e) ==
    IF e.json
    THEN IF "pruned" \in e.data
         THEN [e EXCEPT !.json = FALSE, !.data = {}, !.rest = e.data]
         ELSE e
    ELSE IF e.exact /\ e.start = "429" THEN [e EXCEPT !.name = "RateLimitError"]
    ELSE IF e.exact /\ e.start = "403" THEN [e EXCEPT !.name = "Forbidden"]
    ELSE e

Mentions(e, phrase) == phrase \in e.data \cup e.rest

(* CosmosClientConnection.handleError                                      *)
ConnectionHandleError(e) ==
    CASE e.start = "timeout" -> [name |-> "TimeoutError", type |-> "Timeout"]
      [] e.start = "disconnected" -> [name |-> "ConnectionError", type |-> "Connection"]
      [] e.start = "429" -> [name |-> "RateLimit", type |-> "RateLimit"]
      [] OTHER -> [name |-> IF Mentions(e, "large") THEN "RpcInternalError" ELSE e.name,
                   type |-> "Default"]

-----------------------------------------------------------------------------
(* Faulty variant: the positions counted from zero.                        *)
AskFromZero(a, b) == {Request(a, i - 1, p) : i \in DOMAIN b, p \in Parts}

(* blockArray.map(getBlockByHeight): every request is made at once.        *)
Ask(a, b) == {Request(a, i, p) : i \in DOMAIN b, p \in Parts}

NothingGot(b) == [i \in DOMAIN b |-> [p \in Parts |-> NoBody]]

(* connection.fetchBlocks(heights)                                         *)
FetchInit ==
    /\ batch \in Batches
    /\ attempt = 1
    /\ pending = Ask(1, batch)
    /\ got = NothingGot(batch)
    /\ outcome = "running"
    /\ contents = <<>>
    /\ error = NoError /\ cause = NoFailure

(* Faulty variant: answers told apart by height only.                      *)
AwaitedByHeight(r) == outcome = "running"

(* Promise.all is settled once: what arrives for another attempt, or after *)
(* the first rejection, is not looked at.                                  *)
Awaited(r) == r.attempt = attempt /\ outcome = "running"

(* blockInfo or blockResults resolves.                                     *)
Answer(r, n) ==
    /\ r \in pending
    /\ pending' = pending \ {r}
    /\ got' = IF Awaited(r)
              THEN [got EXCEPT ![r.at][r.part] = Body(r.attempt, batch[r.at], n)]
              ELSE got
    /\ UNCHANGED <<batch, attempt, outcome, contents, error, cause>>

(* .catch((e) => { throw CosmosClient.handleError(e); })                   *)
Fail(r, f) ==
    /\ r \in pending
    /\ pending' = pending \ {r}
    /\ IF Awaited(r)
       THEN /\ outcome' = "rejected"
            /\ error' = ClientHandleError(ExecuteError(f)) /\ cause' = f
       ELSE UNCHANGED <<outcome, error, cause>>
    /\ UNCHANGED <<batch, attempt, got, contents>>

AllGot ==
    outcome = "running" /\ \A i \in DOMAIN batch : \A p \in Parts : got[i][p] # NoBody

(* blockResults.results.length === blockInfo.block.txs.length              *)
Matches(i) == got[i]["info"].count = got[i]["results"].count

(* blocks.map(...): a content for every block.                             *)
Assemble ==
    /\ AllGot /\ \A i \in DOMAIN batch : Matches(i)
    /\ outcome' = "resolved"
    /\ contents' = got
    /\ UNCHANGED <<batch, attempt, pending, got, error, cause>>

AssembleThrows ==
    /\ AllGot /\ \E i \in DOMAIN batch : ~Matches(i)
    /\ outcome' = "rejected" /\ error' = Mismatch /\ cause' = NoFailure
    /\ UNCHANGED <<batch, attempt, pending, got, contents>>

(* External: the loop of ApiService.fetchBlocks tries the batch again.     *)
Retry ==
    /\ outcome = "rejected" /\ attempt < MaxAttempts
    /\ attempt' = attempt + 1
    /\ pending' = pending \cup Ask(attempt + 1, batch)
    /\ got' = NothingGot(batch)
    /\ outcome' = "running"
    /\ error' = NoError /\ cause' = NoFailure
    /\ UNCHANGED <<batch, contents>>

Settle == \E r \in pending :
    \/ \E n \in Counts : Answer(r, n)
    \/ \E f \in Failures : Fail(r, f)

FetchNext == Settle \/ Assemble \/ AssembleThrows \/ Retry

(* No fairness: no request has a timeout, so that an endpoint which does   *)
(* not answer keeps the fetch waiting.                                     *)
FetchSpec == FetchInit /\ [][FetchNext]_fetchVars

-----------------------------------------------------------------------------
(* Requests belong to this call, answers are kept by height and part.      *)
FetchTypeOK ==
    /\ batch \in Batches
    /\ attempt \in 1..MaxAttempts
    /\ \A r \in pending :
          /\ r.attempt \in 1..attempt
          /\ r.at \in DOMAIN batch
          /\ r.part \in Parts
    /\ got \in [DOMAIN batch -> [Parts -> [attempt : Nat, height : Nat, count : Nat]]]
    /\ outcome \in {"running", "resolved", "rejected"}

(* What is kept of answers is of the current attempt and in its place.     *)
GotFresh ==
    \A i \in DOMAIN batch : \A p \in Parts :
        got[i][p] # NoBody =>
            got[i][p].attempt = attempt /\ got[i][p].height = batch[i]

(* A batch that resolves holds, in the order of the heights asked for, one *)
(* block for each, made of answers to this very attempt and with as many   *)
(* results as transactions: what wrapTx relies on when it pairs them by    *)
(* position.  No late answer of an earlier attempt is mixed in.            *)
BatchComplete ==
    outcome = "resolved" =>
        /\ DOMAIN contents = DOMAIN batch
        /\ \A i \in DOMAIN batch :
              /\ \A p \in Parts :
                    /\ contents[i][p].height = batch[i]
                    /\ contents[i][p].attempt = attempt
              /\ contents[i]["info"].count = contents[i]["results"].count

(* The type the pool is to be told, by how the request failed.             *)
TypeOf(f) == IF f.status = "429" THEN "RateLimit" ELSE "Default"

(* The pool backs off from an endpoint when, and only when, the request    *)
(* that ended the attempt was turned away by a rate limit: thrown by the   *)
(* client as text, named by CosmosClient.handleError, whose other branch   *)
(* rewords messages, and read back by the connection from how the message  *)
(* starts, a rate limit stays one and nothing else becomes one.  Every     *)
(* other failure is told as Default, a timeout and a lost connection too:  *)
(* the phrases that would make them Timeout and Connection come from no    *)
(* client (see ExecuteError).                                              *)
ErrorTypeTold == outcome = "rejected" => ConnectionHandleError(error).type = TypeOf(cause)

=============================================================================
