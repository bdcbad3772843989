----------------------------- MODULE HttpClient -----------------------------
(***************************************************************************)
(* packages/node/src/indexer/rpc-clients/HttpClient.ts: where a client of  *)
(* an endpoint sends its requests, and the error execute() throws for each *)
(* way a POST can end.                                                     *)
(*                                                                         *)
(* An endpoint is its scheme and the names of its query parameters, in     *)
(* order.                                                                  *)
(***************************************************************************)
EXTENDS Sequences

(* endpoint.includes('ws://') || endpoint.includes('wss://')               *)
IsWebsocket(endpoint) == endpoint.scheme \in {"ws", "wss"}

(* Faulty variant: a key that is not the first parameter is looked for in  *)
(* vain and nothing is cut off.                                            *)
CutAtApikeyNever(params) == params

(* url.slice(0, url.indexOf('?apikey')): everything from the key on; when  *)
(* the key is not the first parameter the index is -1 and the last         *)
(* character of the URL goes, which spoils the last parameter.             *)
CutAtApikey(params) ==
    IF Head(params) = "apikey" THEN <<>>
    ELSE [params EXCEPT ![Len(params)] = "spoilt"]

(* The constructor of HttpClient: requests go to the URL without the       *)
(* OnFinality api key, which becomes a header beside the given ones.       *)
HttpTarget(endpoint) ==
    IF \E i \in DOMAIN endpoint.params : endpoint.params[i] = "apikey"
    THEN [params |-> CutAtApikey(endpoint.params), headers |-> {"User-Agent", "apikey"}]
    ELSE [params |-> endpoint.params, headers |-> {"User-Agent"}]

(* The WebsocketClient keeps the URL as it is and sends no headers.        *)
WebsocketTarget(endpoint) == [params |-> endpoint.params, headers |-> {}]

(* CosmosClientConnection.create picks the client.                         *)
Target(endpoint) ==
    IF IsWebsocket(endpoint) THEN WebsocketTarget(endpoint) ELSE HttpTarget(endpoint)

-----------------------------------------------------------------------------
(* How a POST fails.  status: the HTTP status, or what happened to the     *)
(* connection; body: of an answer with status "200", a JSON-RPC error or   *)
(* something else; data: the phrases in the data of the error; rest: those *)
(* in the other text.                                                      *)
Phrases == {"pruned", "large"}

FailureRecord ==
    [status : {"timeout", "disconnected", "429", "403", "other", "200"},
     body : {"error", "junk"}, data : SUBSET Phrases, rest : SUBSET Phrases]

(* Errors.  A message is abstracted to what the code looks for in it:      *)
(*   start  the phrase it starts with: "timeout" is "No response received  *)
(*          from RPC endpoint in", "disconnected" is "disconnected from "  *)
(*   exact  it is nothing but that phrase                                  *)
(*   json   it is a JSON object, as RPC errors are                         *)
(*   data   the phrases in the data of that object                         *)
(*   rest   the phrases anywhere else                                      *)
ErrorRecord ==
    [start : {"none", "timeout", "disconnected", "429", "403", "other", "txInfos"},
     exact : BOOLEAN, json : BOOLEAN,
     data : SUBSET Phrases, rest : SUBSET Phrases,
     name : {"Error", "AssertionError", "RateLimitError", "Forbidden"}]

(* execute(): axios throws "Request failed with status code ..." for a     *)
(* status, and for a connection that timed out or was lost a text of its   *)
(* own ("timeout of ...", "socket hang up", "read ECONNRESET") which is    *)
(* none of the phrases the code looks for: start "timeout" and             *)
(* "disconnected" stand for those phrases, and nothing here throws them.   *)
(* A JSON-RPC error is thrown as its JSON text, which starts with a brace; *)
(* parseJsonRpcResponse throws on anything else.                           *)
ExecuteError(f) ==
    [start |-> IF f.status \in {"429", "403"} THEN f.status ELSE "other",
     exact |-> f.status \in {"429", "403"},
     json |-> f.status = "200" /\ f.body = "error",
     data |-> IF f.status = "200" /\ f.body = "error" THEN f.data ELSE {},
     rest |-> f.rest,
     name |-> "Error"]

=============================================================================
