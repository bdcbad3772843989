----------------------------- MODULE RpcClient ------------------------------
(***************************************************************************)
(* The calls of a client of packages/node/src/indexer/rpc-clients/         *)
(* RpcClient.ts: execute(request) is a promise of the response to that     *)
(* request.  What disconnect() does to the promises is not declared there: *)
(* that they are rejected, and all later ones, is the promise of a client  *)
(* whose connection disconnect() closes, as the websocket client is.  That *)
(* of HttpClient does nothing.                                             *)
(***************************************************************************)
CONSTANT Calls      \* the requests given to execute

VARIABLES
    promise,        \* of each call: "idle", "waiting" or how it settled
    disconnected

rpcVars == <<promise, disconnected>>

Waits == {c \in Calls : promise[c] = "waiting"}

RpcInit == promise = [c \in Calls |-> "idle"] /\ disconnected = FALSE

Asked(c) ==
    /\ promise[c] = "idle"
    /\ promise' = [promise EXCEPT ![c] = IF disconnected THEN "rejected" ELSE "waiting"]
    /\ UNCHANGED disconnected

(* The response to this very call: its result, or the error it reports.    *)
Answered(c, how) ==
    /\ c \in Waits
    /\ promise' = [promise EXCEPT ![c] = how]
    /\ UNCHANGED disconnected

(* The connection fails them: all that wait at once.                       *)
Rejected ==
    /\ promise' = [c \in Calls |-> IF c \in Waits THEN "rejected" ELSE promise[c]]
    /\ UNCHANGED disconnected

Disconnected ==
    /\ ~disconnected
    /\ disconnected' = TRUE
    /\ promise' = [c \in Calls |-> IF c \in Waits THEN "rejected" ELSE promise[c]]

RpcNext ==
    \/ \E c \in Calls : Asked(c) \/ \E how \in {"ok", "failed"} : Answered(c, how)
    \/ Rejected
    \/ Disconnected

RpcSpec == RpcInit /\ [][RpcNext]_rpcVars

=============================================================================
