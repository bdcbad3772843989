----------------------- MODULE WebsocketClientProofs ------------------------
(***************************************************************************)
(* Proofs about WebsocketClient, for every set of calls and any number of  *)
(* drops, events and subscriptions.                                        *)
(***************************************************************************)
EXTENDS WebsocketClient, TLAPS

Ids == Calls \cup {SubId}
Requests == [id : Ids, method : {"call", "subscribe", "unsubscribe"}]
Kinds == {"result", "error", "event", "malformed"}
MessageType == [id : Ids, kind : Kinds, n : Nat]

(* The bounds of the environment are no part of it.                        *)
InboxTypeOK == inbox \in Seq(MessageType) /\ emitted \in Nat

(* What settled a promise is its own response: AwaitedBy lets no other     *)
(* through.  Without it Promised would not be the state of the promises.   *)
OwnAnswers == \A c \in Calls : answer[c] = c

(* Inductive.  The streams need each other: that a stream ended and        *)
(* detached does not start again follows from what start() may find.       *)
ClientInv ==
    /\ ClientTypeOK /\ InboxTypeOK
    /\ OwnAnswers
    /\ WaitingIsAccountedFor
    /\ StartNeverThrows /\ EndedStreamIsDetached

LEMMA ClientInvInit == ClientInit => ClientInv
<1> SUFFICES ASSUME ClientInit PROVE ClientInv
  OBVIOUS
<1>1. ClientTypeOK /\ InboxTypeOK
  <2>1. queue = <<>> /\ inbox = <<>> /\ atServer = {} /\ lost = {} /\ running = FALSE
    BY DEF ClientInit
  <2>2. /\ sock \in {"connecting", "connected", "closed"}
        /\ call \in [Calls -> {"idle", "waiting", "ok", "failed", "rejected"}]
        /\ answer \in [Calls -> Calls \cup {SubId}]
        /\ subs \in Nat /\ emitted \in Nat /\ timer \in {"none", "filter", "producer"}
        /\ consumer \in {"none", "listening", "errored", "completed"}
    BY DEF ClientInit
  <2>3. \A S : queue \in Seq(S) /\ inbox \in Seq(S)
    BY <2>1
  <2> QED
    BY <2>1, <2>2, <2>3 DEF ClientTypeOK, InboxTypeOK
<1>2. OwnAnswers
  BY DEF ClientInit, OwnAnswers
<1>3. WaitingIsAccountedFor
  BY DEF ClientInit, WaitingIsAccountedFor, Waiting
<1>4. StartNeverThrows /\ EndedStreamIsDetached
  BY DEF ClientInit, StartNeverThrows, EndedStreamIsDetached
<1> QED
  BY <1>1, <1>2, <1>3, <1>4 DEF ClientInv

-----------------------------------------------------------------------------
(* Requests are only ever appended, or taken from the front.               *)

Holds(s, c) == \E k \in DOMAIN s : s[k].id = c

LEMMA AppendHolds ==
    ASSUME NEW S, NEW s \in Seq(S), NEW x \in S, NEW c
    PROVE  /\ Append(s, x) \in Seq(S)
           /\ Holds(s, c) => Holds(Append(s, x), c)
           /\ x.id = c => Holds(Append(s, x), c)
<1>1. /\ Append(s, x) \in Seq(S)
      /\ DOMAIN Append(s, x) = 1..(Len(s) + 1) /\ DOMAIN s = 1..Len(s) /\ Len(s) \in Nat
  OBVIOUS
<1>2. \A k \in 1..Len(s) : Append(s, x)[k] = s[k]
  OBVIOUS
<1>3. Append(s, x)[Len(s) + 1] = x
  OBVIOUS
<1> QED
  BY <1>1, <1>2, <1>3 DEF Holds

LEMMA HeadTail ==
    ASSUME NEW S, NEW s \in Seq(S), s # <<>>
    PROVE  Head(s) \in S /\ Tail(s) \in Seq(S)
OBVIOUS

LEMMA TailHolds ==
    ASSUME NEW S, NEW s \in Seq(S), s # <<>>, NEW c, Holds(s, c)
    PROVE  Tail(s) \in Seq(S) /\ Head(s) \in S /\ (Head(s).id = c \/ Holds(Tail(s), c))
<1>1. /\ Len(s) \in Nat /\ Len(s) > 0 /\ DOMAIN s = 1..Len(s)
      /\ Tail(s) \in Seq(S) /\ DOMAIN Tail(s) = 1..(Len(s) - 1)
      /\ Head(s) = s[1] /\ Head(s) \in S
  OBVIOUS
<1>2. PICK k \in 1..Len(s) : s[k].id = c
  BY <1>1 DEF Holds
<1>3. CASE k = 1
  BY <1>1, <1>2, <1>3
<1>4. CASE k # 1
  <2>1. k - 1 \in 1..(Len(s) - 1) /\ Tail(s)[k - 1] = s[k]
    BY <1>1, <1>4
  <2> QED
    BY <1>1, <1>2, <2>1 DEF Holds
<1> QED
  BY <1>3, <1>4

-----------------------------------------------------------------------------
(* Every action that queues a request, or none.                            *)
Queues == queue' = queue \/ \E r \in Requests : queue' = Append(queue, r)

LEMMA QueuesType ==
    ASSUME ClientTypeOK, Queues
    PROVE  /\ queue' \in Seq(Requests)
           /\ \A c : Holds(queue, c) => Holds(queue', c)
<1>1. queue \in Seq(Requests)
  BY DEF ClientTypeOK, Requests, Ids
<1>2. CASE queue' = queue
  BY <1>1, <1>2
<1>3. CASE \E r \in Requests : queue' = Append(queue, r)
  BY <1>1, <1>3, AppendHolds
<1> QED
  BY <1>2, <1>3 DEF Queues

(* What the arrival of a message does to the stream of events.             *)
LEMMA StreamEndsType ==
    ASSUME ClientTypeOK, NEW how \in {"errored", "completed"}, StreamEnds(how)
    PROVE  /\ running' \in BOOLEAN /\ subs' \in Nat
           /\ timer' \in {"none", "filter", "producer"}
           /\ consumer' \in {"none", "listening", "errored", "completed"}
<1>2. CASE EndStream(how)
  <2>1. timer' = "none" \/ timer' = timer
    BY <1>2 DEF EndStream
  <2>2. subs' \in Nat
    BY <1>2 DEF EndStream, CloseSubscriptions
  <2>3. consumer' \in {"none", "listening", "errored", "completed"}
    BY <1>2 DEF EndStream, ClientTypeOK
  <2>4. running' = FALSE \/ running' = running
    BY <1>2 DEF EndStream
  <2> QED
    BY <2>1, <2>2, <2>3, <2>4 DEF ClientTypeOK
<1>3. CASE UNCHANGED <<producer, consumer>>
  BY <1>3 DEF producer, ClientTypeOK
<1> QED
  BY <1>2, <1>3 DEF StreamEnds

LEMMA UnsubscribesQueues == Unsubscribes => Queues
<1>1. Request(SubId, "unsubscribe") \in Requests
  BY DEF Request, Requests, Ids
<1> QED
  BY <1>1 DEF Unsubscribes, QueueUnsubscribe, Queues

(* The arrival of a message takes it from the inbox and sends nothing of   *)
(* its own but the end of a subscription.                                  *)
LEMMA ReceiveEffect ==
    ASSUME ClientTypeOK, InboxTypeOK, Receive
    PROVE  /\ inbox # <<>> /\ Head(inbox) \in MessageType
           /\ inbox' = Tail(inbox) /\ inbox' \in Seq(MessageType)
           /\ Queues
           /\ UNCHANGED <<sock, atServer, subscribed, lost, drops, emitted, listens>>
           /\ running' \in BOOLEAN /\ subs' \in Nat
           /\ timer' \in {"none", "filter", "producer"}
           /\ consumer' \in {"none", "listening", "errored", "completed"}
           /\ \/ Settle(Head(inbox)) /\ Head(inbox).kind # "malformed"
              \/ Head(inbox).id = SubId /\ UNCHANGED executions
              \/ RejectAll /\ UNCHANGED answer
<1>1. inbox # <<>> /\ inbox' = Tail(inbox)
  BY DEF Receive, ReceiveResponse, ReceiveCallError, ReceiveSubscribeError,
         ReceiveMalformed
<1>2. Head(inbox) \in MessageType /\ inbox' \in Seq(MessageType)
  BY <1>1 DEF InboxTypeOK
<1>3. CASE ReceiveResponse \/ ReceiveCallError
  BY <1>1, <1>2, <1>3 DEF ReceiveResponse, ReceiveCallError, Queues, producer, history,
                          ClientTypeOK
<1>4. CASE ReceiveSubscribeError \/ ReceiveMalformed
  <2>1. StreamEnds("errored") /\ Unsubscribes
    BY <1>4 DEF ReceiveSubscribeError, ReceiveMalformed
  <2>2. /\ UNCHANGED <<sock, atServer, subscribed, lost, drops, emitted, listens>>
        /\ \/ Head(inbox).id = SubId /\ UNCHANGED executions
           \/ RejectAll /\ UNCHANGED answer
    BY <1>4 DEF ReceiveSubscribeError, ReceiveMalformed, history
  <2> QED
    BY <1>1, <1>2, <2>1, <2>2, StreamEndsType, UnsubscribesQueues
<1> QED
  BY <1>3, <1>4 DEF Receive

LEMMA SettleType ==
    ASSUME ClientTypeOK, NEW m \in MessageType, Settle(m)
    PROVE  /\ call' \in [Calls -> {"idle", "waiting", "ok", "failed", "rejected"}]
           /\ answer' \in [Calls -> Calls \cup {SubId}]
BY DEF ClientTypeOK, Settle, AwaitedBy, Waiting, MessageType, Ids

LEMMA RejectAllType ==
    ASSUME ClientTypeOK, RejectAll
    PROVE  call' \in [Calls -> {"idle", "waiting", "ok", "failed", "rejected"}]
BY DEF ClientTypeOK, RejectAll, Waiting

LEMMA TypeStep ==
    ASSUME ClientTypeOK, InboxTypeOK, [ClientNext]_clientVars
    PROVE  ClientTypeOK' /\ InboxTypeOK'
<1> USE DEF Requests, Ids
<1>1. ASSUME NEW c \in Calls, Execute(c) PROVE ClientTypeOK' /\ InboxTypeOK'
  <2>1. Queues
    BY <1>1 DEF Execute, Queues, Request
  <2>2. call' \in [Calls -> {"idle", "waiting", "ok", "failed", "rejected"}]
    BY <1>1 DEF Execute, ClientTypeOK
  <2> QED
    BY <1>1, <2>1, <2>2, QueuesType
       DEF Execute, ClientTypeOK, InboxTypeOK, producer, history
<1>2. CASE Listen
  <2>1. Queues
    BY <1>2 DEF Listen, Start, Queues, Request
  <2>2. subs' \in Nat /\ timer' = "none"
    BY <1>2 DEF Listen, Start, ClientTypeOK
  <2>3. running' \in BOOLEAN
    <3>1. running' = TRUE \/ running' = running
      BY <1>2 DEF Listen, Start
    <3> QED
      BY <3>1 DEF ClientTypeOK
  <2> QED
    BY <1>2, <2>1, <2>2, <2>3, QueuesType
       DEF Listen, Start, ClientTypeOK, InboxTypeOK, executions
<1>3. CASE Unlisten \/ FilterStops
  BY <1>3 DEF Unlisten, FilterStops, ClientTypeOK, InboxTypeOK, net, executions, history
<1>13. CASE ProducerStops
  <2>1. Queues
    BY <1>13 DEF ProducerStops, QueueUnsubscribe, Queues, Request
  <2> QED
    BY <1>13, <2>1, QueuesType
       DEF ProducerStops, ClientTypeOK, InboxTypeOK, executions, history
<1>4. CASE Receive
  <2>1. /\ call' \in [Calls -> {"idle", "waiting", "ok", "failed", "rejected"}]
        /\ answer' \in [Calls -> Calls \cup {SubId}]
    BY <1>4, ReceiveEffect, SettleType, RejectAllType DEF ClientTypeOK, executions
  <2> QED
    BY <1>4, <2>1, ReceiveEffect, QueuesType DEF ClientTypeOK, InboxTypeOK
<1>5. CASE Disconnect
  <2>1. call' \in [Calls -> {"idle", "waiting", "ok", "failed", "rejected"}]
    BY <1>5, RejectAllType DEF Disconnect
  <2>2. /\ sock' = "closed" /\ queue' = <<>> /\ inbox' = <<>> /\ atServer' = {}
        /\ StreamEnds("completed")
        /\ UNCHANGED <<lost, answer, emitted>>
    BY <1>5 DEF Disconnect, history
  <2>3. \A S : queue' \in Seq(S) /\ inbox' \in Seq(S)
    BY <2>2
  <2> QED
    BY <2>1, <2>2, <2>3, StreamEndsType DEF ClientTypeOK, InboxTypeOK
<1>6. CASE Connect
  BY <1>6 DEF Connect, ClientTypeOK, InboxTypeOK, outside, executions, producer
<1>7. CASE ProcessQueue
  <2>1. queue \in Seq(Requests) /\ queue # <<>>
    BY <1>7 DEF ProcessQueue, ClientTypeOK
  <2>2. Head(queue) \in Requests /\ Tail(queue) \in Seq(Requests)
    <3> HIDE DEF Requests
    <3> QED
      BY <2>1, HeadTail
  <2> QED
    BY <1>7, <2>2 DEF ProcessQueue, ClientTypeOK, InboxTypeOK, outside, executions, producer
<1>8. CASE Drop
  BY <1>8 DEF Drop, ClientTypeOK, InboxTypeOK, outside, executions, producer
<1>9. CASE Respond1
  <2>1. PICK r \in atServer, kind \in {"result", "error"} : Respond(r, kind)
    BY <1>9 DEF Respond1
  <2>2. Message(r.id, kind, 0) \in MessageType
    BY DEF Message, MessageType, Kinds, ClientTypeOK
  <2> QED
    BY <2>1, <2>2 DEF Respond, ClientTypeOK, InboxTypeOK, outside, executions, producer
<1>10. CASE Emit
  <2>1. Message(SubId, "event", emitted + 1) \in MessageType
    BY DEF Message, MessageType, Kinds, InboxTypeOK
  <2> QED
    BY <1>10, <2>1 DEF Emit, ClientTypeOK, InboxTypeOK, outside, executions, producer
<1>11. CASE Garble
  <2>1. Message(SubId, "malformed", 0) \in MessageType
    BY DEF Message, MessageType, Kinds
  <2> QED
    BY <1>11, <2>1 DEF Garble, ClientTypeOK, InboxTypeOK, outside, executions, producer
<1>12. CASE UNCHANGED clientVars
  BY <1>12 DEF clientVars, net, executions, producer, history, ClientTypeOK, InboxTypeOK
<1> QED
  BY <1>1, <1>2, <1>3, <1>13, <1>4, <1>5, <1>6, <1>7, <1>8, <1>9, <1>10, <1>11, <1>12
     DEF ClientNext

-----------------------------------------------------------------------------
(* Where the request of a call, or its response, is.                       *)
Accounted(c) ==
    \/ Holds(queue, c)
    \/ \E r \in atServer : r.id = c
    \/ Holds(inbox, c)
    \/ c \in lost

LEMMA AccountedStep ==
    ASSUME ClientTypeOK, InboxTypeOK, [ClientNext]_clientVars,
           NEW c \in Calls, Accounted(c), c \in Waiting, c \in Waiting'
    PROVE  Accounted(c)'
<1>1. ASSUME NEW d \in Calls, Execute(d) PROVE Accounted(c)'
  <2>1. Queues
    BY <1>1 DEF Execute, Queues, Request, Requests, Ids
  <2> QED
    BY <1>1, <2>1, QueuesType DEF Execute, Accounted
<1>2. CASE Listen \/ Unlisten \/ FilterStops \/ ProducerStops
  <2>1. Queues
    BY <1>2 DEF Listen, Unlisten, FilterStops, ProducerStops, Start, QueueUnsubscribe,
                Queues, Request, Requests, Ids, net
  <2>2. UNCHANGED <<atServer, inbox, lost>>
    BY <1>2 DEF Listen, Unlisten, FilterStops, ProducerStops, net
  <2> QED
    BY <2>1, <2>2, QueuesType DEF Accounted
<1>3. CASE Receive
  <2>1. Head(inbox).id # c
    <3> SUFFICES ASSUME Head(inbox).id = c PROVE FALSE
      OBVIOUS
    <3>1. c # SubId
      BY ClientAssumption
    <3>2. c \in AwaitedBy(Head(inbox))
      BY DEF AwaitedBy
    <3>3. call'[c] # "waiting"
      BY <1>3, <3>1, <3>2, ReceiveEffect DEF Settle, RejectAll
    <3> QED
      BY <3>3 DEF Waiting
  <2>2. Holds(inbox, c) => Holds(inbox', c)
    BY <1>3, <2>1, ReceiveEffect, TailHolds DEF InboxTypeOK
  <2> QED
    BY <1>3, <2>2, ReceiveEffect, QueuesType DEF Accounted
<1>4. CASE Disconnect
  BY <1>4 DEF Disconnect, RejectAll, Waiting
<1>5. CASE Connect
  BY <1>5 DEF Connect, Accounted
<1>6. CASE ProcessQueue
  <2>1. queue \in Seq(Requests) /\ queue # <<>>
    BY <1>6 DEF ProcessQueue, ClientTypeOK, Requests, Ids
  <2>2. Holds(queue, c) => Head(queue).id = c \/ Holds(queue', c)
    BY <1>6, <2>1, TailHolds DEF ProcessQueue
  <2> QED
    BY <1>6, <2>2 DEF ProcessQueue, Accounted
<1>7. CASE Drop
  <2>1. Holds(inbox, c) => c \in {m.id : m \in ToSet(inbox)}
    BY DEF Holds, ToSet
  <2> QED
    BY <1>7, <2>1 DEF Drop, Accounted
<1>8. CASE Respond1
  <2>1. PICK r \in atServer, kind \in {"result", "error"} : Respond(r, kind)
    BY <1>8 DEF Respond1
  <2>2. Message(r.id, kind, 0) \in MessageType /\ Message(r.id, kind, 0).id = r.id
    BY DEF Message, MessageType, Kinds, ClientTypeOK, Ids
  <2>3. /\ r.id = c => Holds(inbox', c)
        /\ Holds(inbox, c) => Holds(inbox', c)
    BY <2>1, <2>2, AppendHolds DEF Respond, InboxTypeOK
  <2> QED
    BY <2>1, <2>3 DEF Respond, Accounted
<1>9. CASE Emit
  <2>1. Message(SubId, "event", emitted + 1) \in MessageType
    BY DEF Message, MessageType, Kinds, InboxTypeOK, Ids
  <2> QED
    BY <1>9, <2>1, AppendHolds DEF Emit, InboxTypeOK, Accounted
<1>10. CASE Garble
  <2>1. Message(SubId, "malformed", 0) \in MessageType
    BY DEF Message, MessageType, Kinds, Ids
  <2> QED
    BY <1>10, <2>1, AppendHolds DEF Garble, InboxTypeOK, Accounted
<1>11. CASE UNCHANGED clientVars
  BY <1>11 DEF clientVars, net, Accounted
<1> QED
  BY <1>1, <1>2, <1>3, <1>4, <1>5, <1>6, <1>7, <1>8, <1>9, <1>10, <1>11 DEF ClientNext

(* A call that begins to wait has its request in the queue.                *)
LEMMA BeginsToWait ==
    ASSUME ClientTypeOK, InboxTypeOK, [ClientNext]_clientVars,
           NEW c \in Calls, c \notin Waiting, c \in Waiting'
    PROVE  Accounted(c)'
<1>1. CASE Execute(c)
  <2>1. Request(c, "call") \in Requests /\ Request(c, "call").id = c
    BY DEF Request, Requests, Ids
  <2>2. queue' = Append(queue, Request(c, "call"))
    BY <1>1 DEF Execute, Waiting, ClientTypeOK
  <2>3. Holds(queue', c)
    BY <2>1, <2>2, AppendHolds DEF ClientTypeOK, Requests, Ids
  <2> QED
    BY <2>3 DEF Accounted
<1>2. ASSUME NEW d \in Calls, d # c, Execute(d) PROVE FALSE
  BY <1>2 DEF Execute, Waiting, ClientTypeOK
<1>3. CASE Receive
  BY <1>3, ReceiveEffect DEF Settle, AwaitedBy, RejectAll, Waiting, executions
<1>4. CASE Disconnect
  BY <1>4 DEF Disconnect, RejectAll, Waiting
<1>5. CASE \/ Listen \/ Unlisten \/ FilterStops \/ ProducerStops
           \/ Connect \/ ProcessQueue \/ Drop \/ Respond1 \/ Emit
           \/ Garble \/ UNCHANGED clientVars
  <2>1. call' = call
    BY <1>5 DEF Listen, Unlisten, FilterStops, ProducerStops, Connect, ProcessQueue, Drop, Respond1, Respond, Emit,
                Garble, clientVars, outside, executions
  <2> QED
    BY <2>1 DEF Waiting
<1> QED
  BY <1>1, <1>2, <1>3, <1>4, <1>5 DEF ClientNext

LEMMA AccountedStays ==
    ASSUME ClientTypeOK, InboxTypeOK, WaitingIsAccountedFor, [ClientNext]_clientVars
    PROVE  WaitingIsAccountedFor'
<1>1. \A c \in Waiting : Accounted(c)
  BY DEF WaitingIsAccountedFor, Accounted, Holds
<1>2. ASSUME NEW c \in Waiting' PROVE Accounted(c)'
  <2>1. c \in Calls
    BY DEF Waiting
  <2> QED
    BY <1>1, <1>2, <2>1, AccountedStep, BeginsToWait
<1> QED
  BY <1>2 DEF WaitingIsAccountedFor, Accounted, Holds

-----------------------------------------------------------------------------
LEMMA StreamStep ==
    ASSUME ClientTypeOK, InboxTypeOK, StartNeverThrows, EndedStreamIsDetached,
           [ClientNext]_clientVars
    PROVE  StartNeverThrows' /\ EndedStreamIsDetached'
<1> USE DEF StartNeverThrows, EndedStreamIsDetached
<1>1. CASE Listen
  BY <1>1 DEF Listen
<1>2. CASE Unlisten
  <2>1. consumer' = "none" /\ timer' = "filter"
    BY <1>2 DEF Unlisten
  <2> QED
    BY <2>1
<1>10. CASE FilterStops
  <2>1. timer' = "producer" /\ UNCHANGED <<running, subs, consumer>>
    BY <1>10 DEF FilterStops
  <2> QED
    BY <2>1
<1>11. CASE ProducerStops
  <2>1. running' = FALSE /\ UNCHANGED <<subs, consumer>>
    BY <1>11 DEF ProducerStops
  <2> QED
    BY <2>1
<1>3. ASSUME NEW how \in {"errored", "completed"}, StreamEnds(how)
      PROVE  StartNeverThrows' /\ EndedStreamIsDetached'
  <2>1. CASE subs > 0 /\ Attached
    <3>1. running' = FALSE /\ subs' = 0
      BY <1>3, <2>1 DEF StreamEnds, EndStream, CloseSubscriptions
    <3> QED
      BY <3>1
  <2>2. CASE ~(subs > 0 /\ Attached)
    <3>1. UNCHANGED <<running, timer, consumer>> /\ subs' \in {0, subs}
      BY <1>3, <2>2 DEF StreamEnds, EndStream, CloseSubscriptions, producer
    <3> QED
      BY <3>1
  <2> QED
    BY <2>1, <2>2
<1>4. CASE ReceiveSubscribeError \/ ReceiveMalformed \/ Disconnect
  <2>1. StreamEnds("errored") \/ StreamEnds("completed")
    BY <1>4 DEF ReceiveSubscribeError, ReceiveMalformed, Disconnect
  <2> QED
    BY <1>3, <2>1
<1>5. ASSUME UNCHANGED <<producer, consumer>>
      PROVE  StartNeverThrows' /\ EndedStreamIsDetached'
  BY <1>5 DEF producer
<1>6. CASE \E c \in Calls : Execute(c)
  BY <1>5, <1>6 DEF Execute
<1>7. CASE ReceiveResponse \/ ReceiveCallError
  BY <1>5, <1>7 DEF ReceiveResponse, ReceiveCallError
<1>8. CASE Connect \/ ProcessQueue \/ Drop \/ Respond1 \/ Emit \/ Garble
  BY <1>5, <1>8 DEF Connect, ProcessQueue, Drop, Respond1, Respond, Emit, Garble, outside
<1>9. CASE UNCHANGED clientVars
  BY <1>5, <1>9 DEF clientVars
<1> QED
  BY <1>1, <1>2, <1>4, <1>6, <1>7, <1>8, <1>9, <1>10, <1>11 DEF ClientNext, Receive

LEMMA OwnAnswersStay ==
    ASSUME ClientTypeOK, InboxTypeOK, OwnAnswers, [ClientNext]_clientVars
    PROVE  OwnAnswers'
<1>1. CASE Receive
  BY <1>1, ReceiveEffect DEF OwnAnswers, Settle, AwaitedBy, executions
<1>2. ASSUME UNCHANGED answer PROVE OwnAnswers'
  BY <1>2 DEF OwnAnswers
<1>3. CASE \/ \E c \in Calls : Execute(c)
           \/ Listen \/ Unlisten \/ FilterStops \/ ProducerStops \/ Disconnect
  BY <1>2, <1>3 DEF Execute, Listen, Unlisten, FilterStops, ProducerStops, Disconnect,
                    executions
<1>4. CASE Connect \/ ProcessQueue \/ Drop \/ Respond1 \/ Emit \/ Garble
  BY <1>2, <1>4 DEF Connect, ProcessQueue, Drop, Respond1, Respond, Emit, Garble, outside,
                    executions
<1>5. CASE UNCHANGED clientVars
  BY <1>2, <1>5 DEF clientVars, executions
<1> QED
  BY <1>1, <1>3, <1>4, <1>5 DEF ClientNext

(* ClientInv is inductive.                                                 *)
THEOREM ClientInvHolds == ClientSpec => []ClientInv
<1>1. ClientInv /\ [ClientNext]_clientVars => ClientInv'
  BY TypeStep, AccountedStays, StreamStep, OwnAnswersStay DEF ClientInv
<1> QED
  BY <1>1, ClientInvInit, PTL DEF ClientSpec

(* The socket, the promises and the event producer keep their types.       *)
THEOREM ClientTypeCorrect == ClientSpec => []ClientTypeOK
<1>1. ClientInv => ClientTypeOK
  BY DEF ClientInv
<1> QED
  BY <1>1, ClientInvHolds, PTL

(* No call that waits is forgotten by the client: execute() queued its     *)
(* request, which is in the queue, at the server, answered or was taken by *)
(* a lost connection.                                                      *)
THEOREM NoCallIsForgotten == ClientSpec => []WaitingIsAccountedFor
<1>1. ClientInv => WaitingIsAccountedFor
  BY DEF ClientInv
<1> QED
  BY <1>1, ClientInvHolds, PTL

(* start() of the event producer never finds it running: when no stop is   *)
(* put off and nobody listens, the producer was stopped or never started.  *)
THEOREM ProducersAlwaysStart == ClientSpec => []StartNeverThrows
<1>1. ClientInv => StartNeverThrows
  BY DEF ClientInv
<1> QED
  BY <1>1, ClientInvHolds, PTL

(* A stream that has ended leaves nothing attached to the socket.          *)
THEOREM StreamsEndClean == ClientSpec => []EndedStreamIsDetached
<1>1. ClientInv => EndedStreamIsDetached
  BY DEF ClientInv
<1> QED
  BY <1>1, ClientInvHolds, PTL

-----------------------------------------------------------------------------
(* The refinement: as promises are settled by their own responses only,    *)
(* the abstract promises are the states of the calls.                      *)
LEMMA PromisedIsCall ==
    ASSUME ClientInv
    PROVE  Promised = call /\ Rpc!Waits = Waiting
BY DEF ClientInv, ClientTypeOK, OwnAnswers, Promised, Rpc!Waits, Waiting

LEMMA RefinementStep ==
    ASSUME ClientInv, ClientInv', [ClientNext]_clientVars
    PROVE  [Rpc!RpcNext]_(Rpc!rpcVars)
<1>0. /\ Promised = call /\ Promised' = call' /\ Rpc!Waits = Waiting
      /\ ClientTypeOK /\ InboxTypeOK
  <2>1. Promised = call /\ Rpc!Waits = Waiting
    BY PromisedIsCall
  <2>2. Promised' = call'
    BY DEF ClientInv, ClientTypeOK, OwnAnswers, Promised
  <2> QED
    BY <2>1, <2>2 DEF ClientInv
<1>1. ASSUME NEW c \in Calls, Execute(c) PROVE Rpc!Asked(c)
  BY <1>0, <1>1 DEF Execute, Rpc!Asked
<1>2. CASE Receive
  <2>1. ASSUME call' = call, sock' = sock PROVE UNCHANGED Rpc!rpcVars
    BY <1>0, <2>1 DEF Rpc!rpcVars
  <2>2. sock' = sock
    BY <1>0, <1>2, ReceiveEffect
  <2>3. CASE RejectAll
    <3>1. Rpc!Rejected
      BY <1>0, <2>2, <2>3 DEF RejectAll, Rpc!Rejected
    <3> QED
      BY <3>1 DEF Rpc!RpcNext
  <2>4. CASE UNCHANGED executions
    BY <2>1, <2>2, <2>4 DEF executions
  <2>5. CASE Settle(Head(inbox))
    <3> DEFINE m == Head(inbox)
               how == IF m.kind = "error" THEN "failed" ELSE "ok"
    <3>1. CASE m.id \in Waiting
      <4>1. call' = [call EXCEPT ![m.id] = how]
        BY <1>0, <2>5, <3>1 DEF Settle, AwaitedBy, ClientTypeOK, Waiting
      <4>2. Rpc!Answered(m.id, how) /\ m.id \in Calls /\ how \in {"ok", "failed"}
        BY <1>0, <2>2, <3>1, <4>1 DEF Rpc!Answered, Waiting
      <4> QED
        BY <4>2 DEF Rpc!RpcNext
    <3>2. CASE m.id \notin Waiting
      <4>1. call' = call
        BY <1>0, <2>5, <3>2 DEF Settle, AwaitedBy, ClientTypeOK
      <4> QED
        BY <2>1, <2>2, <4>1
    <3> QED
      BY <3>1, <3>2
  <2> QED
    BY <1>0, <1>2, <2>3, <2>4, <2>5, ReceiveEffect
<1>3. CASE Disconnect
  <2>1. Rpc!Disconnected
    BY <1>0, <1>3 DEF Disconnect, RejectAll, Rpc!Disconnected
  <2> QED
    BY <2>1 DEF Rpc!RpcNext
<1>4. CASE \/ Listen \/ Unlisten \/ FilterStops \/ ProducerStops
           \/ Connect \/ ProcessQueue \/ Drop \/ Respond1 \/ Emit
           \/ Garble \/ UNCHANGED clientVars
  <2>1. call' = call /\ (sock' = "closed") = (sock = "closed")
    BY <1>4 DEF Listen, Unlisten, FilterStops, ProducerStops, Connect, ProcessQueue, Drop, Respond1, Respond, Emit,
                Garble, clientVars, net, outside, executions
  <2> QED
    BY <1>0, <2>1 DEF Rpc!rpcVars
<1> QED
  BY <1>1, <1>2, <1>3, <1>4 DEF ClientNext, Rpc!RpcNext

(* The websocket client is an RpcClient: each step is one of the abstract  *)
(* client or invisible to it, whatever the socket drops, reorders or       *)
(* garbles.                                                                *)
THEOREM ClientImplementsRpcClient == ClientSpec => ImplementsRpcClient
<1>1. ClientInit => Rpc!RpcInit
  BY DEF ClientInit, Rpc!RpcInit, Promised
<1>2. ClientInv /\ ClientInv' /\ [ClientNext]_clientVars => [Rpc!RpcNext]_(Rpc!rpcVars)
  BY RefinementStep
<1> QED
  BY <1>1, <1>2, ClientInvHolds, PTL DEF ClientSpec, ImplementsRpcClient, Rpc!RpcSpec

=============================================================================
