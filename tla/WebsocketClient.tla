-------------------------- MODULE WebsocketClient ---------------------------
(***************************************************************************)
(* packages/node/src/indexer/rpc-clients/WebsocketClient.ts: JSON-RPC      *)
(* calls and one event subscription over one reconnecting websocket.       *)
(*                                                                         *)
(* The client's own steps are execute, the arrival of a message (which     *)
(* runs every subscriber of socket.events in turn), start and stop of the  *)
(* event producer, and disconnect.  The ReconnectingSocket of              *)
(* @cosmjs/socket, the xstream scheduler and the server are external: a    *)
(* queue that survives a drop, a connection that forgets what it carried,  *)
(* answers in any order.                                                   *)
(***************************************************************************)
EXTENDS Integers, Sequences, SequencesExt, FiniteSets

CONSTANTS
    Calls,      \* requests given to execute, each with its own JSON-RPC id
    SubId,      \* the id of the subscribe request
    MaxEvents,  \* bound on the events the server emits
    MaxDrops,   \* bound on the connections lost and messages garbled
    MaxListens  \* bound on how often the consumer subscribes

ASSUME ClientAssumption ==
    /\ SubId \notin Calls
    /\ MaxEvents \in Nat /\ MaxDrops \in Nat /\ MaxListens \in Nat

VARIABLES
    sock,       \* "connecting", "connected", "closed" (by disconnect)
    queue,      \* requests not sent yet
    atServer,   \* requests not answered yet on this connection, equal ones
                \* counting once
    subscribed, \* the server emits events on this connection
    inbox,      \* messages on their way to the client
    call,       \* state of each execute promise
    answer,     \* the id of the response that settled it
    lost,       \* history: calls whose request or response a drop took
    running,    \* RpcEventProducer.running
    subs,       \* live subscription sets in RpcEventProducer.subscriptions
    timer,      \* the stop xstream has put off: "none", "filter", "producer"
    consumer,   \* "none", "listening", "errored", "completed"
    delivered,  \* history: the events the consumer was given
    emitted, drops, listens

net == <<sock, queue, atServer, subscribed, inbox, lost, drops>>
executions == <<call, answer>>
producer == <<running, subs, timer>>
history == <<delivered, emitted, listens>>
clientVars == <<net, executions, producer, consumer, history>>

Request(id, method) == [id |-> id, method |-> method]
Message(id, kind, n) == [id |-> id, kind |-> kind, n |-> n]

ClientInit ==
    /\ sock = "connecting" /\ queue = <<>> /\ atServer = {}
    /\ subscribed = FALSE /\ inbox = <<>> /\ lost = {} /\ drops = 0
    /\ call = [c \in Calls |-> "idle"]
    /\ answer = [c \in Calls |-> c]
    /\ running = FALSE /\ subs = 0 /\ timer = "none"
    /\ consumer = "none" /\ delivered = <<>> /\ emitted = 0 /\ listens = 0

-----------------------------------------------------------------------------
(* Faulty variant: a request made while the socket reconnects is dropped.  *)
ExecuteUnqueued(c) ==
    /\ call[c] = "idle"
    /\ call' = [call EXCEPT ![c] = "waiting"]
    /\ queue' = IF sock = "connected" THEN Append(queue, Request(c, "call"))
                ELSE queue
    /\ UNCHANGED <<sock, atServer, subscribed, inbox, lost, drops, answer,
                   producer, consumer, history>>

(* execute: wait for the id, then queue.  After disconnect() queueRequest  *)
(* throws and the promise rejects.                                         *)
Execute(c) ==
    /\ call[c] = "idle"
    /\ IF sock = "closed"
       THEN /\ call' = [call EXCEPT ![c] = "rejected"]
            /\ UNCHANGED queue
       ELSE /\ call' = [call EXCEPT ![c] = "waiting"]
            /\ queue' = Append(queue, Request(c, "call"))
    /\ UNCHANGED <<sock, atServer, subscribed, inbox, lost, drops, answer,
                   producer, consumer, history>>

Waiting == {c \in Calls : call[c] = "waiting"}

(* firstEvent rejects when the stream errs or completes without event.     *)
RejectAll == call' = [c \in Calls |-> IF c \in Waiting THEN "rejected" ELSE call[c]]

(* Faulty variants: the first response that arrives settles the promise,   *)
(* and error responses are not listened to.                                *)
AwaitedByAny(m) == Waiting
AwaitedByIfResult(m) == {c \in Waiting : m.id = c /\ m.kind # "error"}

(* jsonRpcResponseStream.filter((r) => r.id === id)                        *)
AwaitedBy(m) == {c \in Waiting : m.id = c}

(* The promise of the call settles: response, or throw of response.error.  *)
Settle(m) ==
    /\ call' = [c \in Calls |->
          IF c \notin AwaitedBy(m) THEN call[c]
          ELSE IF m.kind = "error" THEN "failed" ELSE "ok"]
    /\ answer' = [c \in Calls |-> IF c \in AwaitedBy(m) THEN m.id ELSE answer[c]]

-----------------------------------------------------------------------------
(* RpcEventProducer                                                        *)

(* listener.next for every live idEventSubscription; listen() then drops   *)
(* the responses without query: the answers to (un)subscribe.              *)
Given(m) ==
    IF consumer = "listening" /\ m.kind = "event"
    THEN [k \in 1..subs |-> m.n]
    ELSE <<>>

(* start(): connectToClient pushes its subscriptions, then the request.    *)
(* After disconnect() queueRequest throws, with the rest done.             *)
Start ==
    /\ running' = TRUE
    /\ subs' = subs + 1
    /\ queue' = IF sock = "closed" THEN queue
                ELSE Append(queue, Request(SubId, "subscribe"))

(* Faulty variant: the subscriptions are not closed with the stream.       *)
CloseSubscriptionsNone == subs' = subs

CloseSubscriptions == subs' = 0

(* stop(): the request to end is queued if that is still possible; the     *)
(* subscriptions to socket.events stay.                                    *)
QueueUnsubscribe ==
    queue' = IF sock = "closed" THEN queue
             ELSE Append(queue, Request(SubId, "unsubscribe"))

(* The consumer adds its listener to a new listen(request): xstream starts *)
(* the producer for the first listener of its stream.  While an earlier    *)
(* listener is not gone yet, or the stop is still put off, start() is not  *)
(* called and the stop is off.                                             *)
Listen ==
    /\ consumer # "listening" /\ listens < MaxListens
    /\ consumer' = "listening"
    /\ listens' = listens + 1
    /\ timer' = "none"
    /\ IF timer = "none" THEN Start ELSE UNCHANGED <<running, subs, queue>>
    /\ UNCHANGED <<sock, atServer, subscribed, inbox, lost, drops, executions,
                   delivered, emitted>>

(* The listener is removed.  xstream stops a stream without listeners in a *)
(* timer, and messages may arrive before it.                               *)
Unlisten ==
    /\ consumer = "listening"
    /\ consumer' = "none"
    /\ timer' = "filter"
    /\ UNCHANGED <<net, executions, running, subs, history>>

(* The timer of the stream listen() returned: it leaves the stream of the  *)
(* producer, which is now without listeners and puts off its own stop.     *)
FilterStops ==
    /\ timer = "filter"
    /\ timer' = "producer"
    /\ UNCHANGED <<net, executions, running, subs, consumer, history>>

(* Faulty variants: the producer still counts as running after stop(), and *)
(* stop() detaches a set that an error may already have taken.             *)
ProducerStopsStaysRunning ==
    /\ timer = "producer"
    /\ timer' = "none"
    /\ QueueUnsubscribe
    /\ UNCHANGED <<sock, atServer, subscribed, inbox, lost, drops, executions,
                   running, subs, consumer, history>>
ProducerStopsDetaches ==
    /\ timer = "producer"
    /\ timer' = "none"
    /\ running' = FALSE /\ subs' = subs - 1
    /\ QueueUnsubscribe
    /\ UNCHANGED <<sock, atServer, subscribed, inbox, lost, drops, executions,
                   consumer, history>>

(* The timer of the producer's stream: stop().                             *)
ProducerStops ==
    /\ timer = "producer"
    /\ timer' = "none"
    /\ running' = FALSE
    /\ QueueUnsubscribe
    /\ UNCHANGED <<sock, atServer, subscribed, inbox, lost, drops, executions,
                   subs, consumer, history>>

-----------------------------------------------------------------------------
(* A message arrives.                                                      *)

(* A well-formed response: the awaiting call and the live subscriptions    *)
(* for its id get it.                                                      *)
ReceiveResponse ==
    /\ inbox # <<>> /\ Head(inbox).kind \in {"result", "event"}
    /\ inbox' = Tail(inbox)
    /\ Settle(Head(inbox))
    /\ delivered' = delivered \o
          (IF Head(inbox).id = SubId THEN Given(Head(inbox)) ELSE <<>>)
    /\ UNCHANGED <<sock, queue, atServer, subscribed, lost, drops, producer,
                   consumer, emitted, listens>>

ReceiveCallError ==
    /\ inbox # <<>> /\ Head(inbox).kind = "error" /\ Head(inbox).id # SubId
    /\ inbox' = Tail(inbox)
    /\ Settle(Head(inbox))
    /\ UNCHANGED <<sock, queue, atServer, subscribed, lost, drops, producer,
                   consumer, history>>

(* The stream of the producer has a listener: the consumer, or a filter    *)
(* that has lost its own.                                                  *)
Attached == consumer = "listening" \/ timer = "filter"

(* The stream of events ends with err or complete: the subscriptions, sets *)
(* an earlier stop() left included, are closed; xstream calls stop() at    *)
(* once and tells the listeners, if there are any.  What it does with an   *)
(* error that nobody listens for is not followed.                          *)
EndStream(how) ==
    /\ CloseSubscriptions
    /\ IF Attached
       THEN /\ running' = FALSE /\ timer' = "none"
            /\ consumer' = IF consumer = "listening" THEN how ELSE consumer
       ELSE UNCHANGED <<running, timer, consumer>>

(* What ends every subscription ends the stream, if one is left.           *)
StreamEnds(how) ==
    IF subs > 0 THEN EndStream(how) ELSE UNCHANGED <<producer, consumer>>

Unsubscribes ==
    IF subs > 0 /\ Attached THEN QueueUnsubscribe ELSE UNCHANGED queue

(* An error response to subscribe or unsubscribe.                          *)
ReceiveSubscribeError ==
    /\ inbox # <<>> /\ Head(inbox).kind = "error" /\ Head(inbox).id = SubId
    /\ inbox' = Tail(inbox)
    /\ StreamEnds("errored") /\ Unsubscribes
    /\ UNCHANGED <<sock, atServer, subscribed, lost, drops, executions, history>>

(* toJsonRpcResponse throws on it: the mapped streams err.                 *)
ReceiveMalformed ==
    /\ inbox # <<>> /\ Head(inbox).kind = "malformed"
    /\ inbox' = Tail(inbox)
    /\ RejectAll
    /\ StreamEnds("errored") /\ Unsubscribes
    /\ UNCHANGED <<sock, atServer, subscribed, lost, drops, answer, history>>

(* disconnect(): socket.events completes; stop() finds the socket closed   *)
(* and ignores that.                                                       *)
Disconnect ==
    /\ sock # "closed"
    /\ sock' = "closed" /\ queue' = <<>> /\ atServer' = {}
    /\ subscribed' = FALSE /\ inbox' = <<>>
    /\ RejectAll
    /\ StreamEnds("completed")
    /\ UNCHANGED <<lost, drops, answer, history>>

-----------------------------------------------------------------------------
(* External: ReconnectingSocket and the server.                            *)

outside == <<executions, producer, consumer, delivered, listens>>

Connect ==
    /\ sock = "connecting"
    /\ sock' = "connected"
    /\ UNCHANGED <<queue, atServer, subscribed, inbox, lost, drops, emitted, outside>>

(* processQueue: requests leave in order while the socket is connected.    *)
ProcessQueue ==
    /\ sock = "connected" /\ queue # <<>>
    /\ atServer' = atServer \cup {Head(queue)}
    /\ queue' = Tail(queue)
    /\ UNCHANGED <<sock, subscribed, inbox, lost, drops, emitted, outside>>

(* The connection is lost: the queue stays, what was on the way is gone    *)
(* and nobody sends it again.                                              *)
Drop ==
    /\ sock = "connected" /\ drops < MaxDrops
    /\ sock' = "connecting" /\ atServer' = {} /\ subscribed' = FALSE
    /\ inbox' = <<>>
    /\ lost' = lost \cup
          (Calls \cap ({r.id : r \in atServer} \cup {m.id : m \in ToSet(inbox)}))
    /\ drops' = drops + 1
    /\ UNCHANGED <<queue, emitted, outside>>

(* Answers come in any order, as result or as error.                       *)
Respond(r, kind) ==
    /\ r \in atServer
    /\ atServer' = atServer \ {r}
    /\ inbox' = Append(inbox, Message(r.id, kind, 0))
    /\ subscribed' = IF kind = "error" \/ r.method = "call" THEN subscribed
                     ELSE r.method = "subscribe"
    /\ UNCHANGED <<sock, queue, lost, drops, emitted, outside>>

Emit ==
    /\ subscribed /\ emitted < MaxEvents
    /\ emitted' = emitted + 1
    /\ inbox' = Append(inbox, Message(SubId, "event", emitted + 1))
    /\ UNCHANGED <<sock, queue, atServer, subscribed, lost, drops, outside>>

(* Something that is no JSON-RPC response.                                 *)
Garble ==
    /\ sock = "connected" /\ drops < MaxDrops
    /\ drops' = drops + 1
    /\ inbox' = Append(inbox, Message(SubId, "malformed", 0))
    /\ UNCHANGED <<sock, queue, atServer, subscribed, lost, emitted, outside>>

Receive ==
    \/ ReceiveResponse \/ ReceiveCallError
    \/ ReceiveSubscribeError \/ ReceiveMalformed

Respond1 == \E r \in atServer : \E kind \in {"result", "error"} : Respond(r, kind)

ClientNext ==
    \/ \E c \in Calls : Execute(c)
    \/ Listen \/ Unlisten \/ FilterStops \/ ProducerStops
    \/ Receive
    \/ Disconnect
    \/ Connect \/ ProcessQueue \/ Drop \/ Respond1 \/ Emit \/ Garble

(* ReconnectingSocket retries until it is connected and empties its queue, *)
(* the server answers, arrived messages are dispatched by the event loop.  *)
ClientSpec ==
    /\ ClientInit /\ [][ClientNext]_clientVars
    /\ WF_clientVars(Connect) /\ WF_clientVars(ProcessQueue)
    /\ WF_clientVars(Respond1) /\ WF_clientVars(Receive)

-----------------------------------------------------------------------------
ClientTypeOK ==
    /\ sock \in {"connecting", "connected", "closed"}
    /\ queue \in Seq([id : Calls \cup {SubId},
                      method : {"call", "subscribe", "unsubscribe"}])
    /\ atServer \subseteq [id : Calls \cup {SubId},
                           method : {"call", "subscribe", "unsubscribe"}]
    /\ call \in [Calls -> {"idle", "waiting", "ok", "failed", "rejected"}]
    /\ answer \in [Calls -> Calls \cup {SubId}]
    /\ lost \subseteq Calls
    /\ running \in BOOLEAN /\ subs \in Nat /\ timer \in {"none", "filter", "producer"}
    /\ consumer \in {"none", "listening", "errored", "completed"}

(* A request that waits is somewhere: still queued (across reconnects), at *)
(* the server, its response on the way, or taken by a lost connection.     *)
WaitingIsAccountedFor ==
    \A c \in Waiting :
        \/ \E k \in DOMAIN queue : queue[k].id = c
        \/ \E r \in atServer : r.id = c
        \/ \E k \in DOMAIN inbox : inbox[k].id = c
        \/ c \in lost

(* start() never finds the producer running ("Already started. Please stop *)
(* first before restarting."): wherever a listener that comes back makes   *)
(* xstream call start(), which it does unless a stop is still put off, the *)
(* producer was stopped, by its timer or by an error, a garbled message or *)
(* disconnect() that came before it.                                       *)
StartNeverThrows == consumer # "listening" /\ timer = "none" => ~running

(* Once the consumer was told that the stream of events has ended nothing  *)
(* of it stays attached to the socket.                                     *)
EndedStreamIsDetached ==
    consumer \in {"errored", "completed"} => subs = 0 /\ ~running

(* The promises of execute, one that another call's response settled told  *)
(* apart.                                                                  *)
Promised == [c \in Calls |->
    IF call[c] \in {"ok", "failed"} /\ answer[c] # c THEN "mixed up" ELSE call[c]]

Rpc == INSTANCE RpcClient WITH promise <- Promised, disconnected <- (sock = "closed")

(* Whatever the socket drops, reorders or garbles, a promise of execute is *)
(* settled once, for good, and by its own response, as RpcClient.ts        *)
(* declares it; after disconnect() of this client nothing waits, and what  *)
(* is asked is rejected.                                                   *)
ImplementsRpcClient == Rpc!RpcSpec

(* Every call settles unless a dropped connection took its request or its  *)
(* response: the client has no timeout of its own and sends nothing twice. *)
CallsSettle ==
    \A c \in Calls :
        call[c] = "waiting" ~> call[c] # "waiting" \/ c \in lost

(* "unsubscribe all the subscriptions!": the consumer is given each event  *)
(* once.                                                                   *)
EventsGivenOnce ==
    \A j, k \in DOMAIN delivered : delivered[j] = delivered[k] => j = k

=============================================================================
