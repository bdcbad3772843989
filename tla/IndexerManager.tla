--------------------------- MODULE IndexerManager ---------------------------
(***************************************************************************)
(* IndexerManager.indexBlockData of packages/node/src/indexer/             *)
(* indexer.manager.ts: one block is walked from its begin block events to  *)
(* its end block events and every item is given to every data source.      *)
(*                                                                         *)
(* Each awaited indexData call is one step: a handler runs in it, and may  *)
(* fail or create a dynamic data source.  The data sources are the array   *)
(* that internalIndexBlock of @subql/node-core filtered for this height    *)
(* and to which it appends what createDynamicDatasource creates, while the *)
(* for...of loops here run over that same array.                           *)
(*                                                                         *)
(* The items come from the getters of LazyBlockContent, read when the code *)
(* reads them.                                                             *)
(***************************************************************************)
EXTENDS LazyBlockContent

CONSTANTS
    StaticDs,   \* number of data sources of the project at this height
    MaxDs       \* bound on the data sources, the dynamic ones included

ASSUME DsAssumption ==
    StaticDs \in Nat \ {0} /\ MaxDs \in Nat /\ StaticDs <= MaxDs

VARIABLES
    stage,      \* the loop indexBlockData is in
    todo,       \* per loop, the elements it has still to visit
    item,       \* what is being indexed, NoItem between two items
    dsAt,       \* position of the inner loop in dataSources
    dss,        \* dataSources
    seen        \* history: the items each data source was given, in order

driver == <<stage, todo, item, dsAt, dss, seen>>
indexVars == <<vars, driver>>

Loops == {"begin", "txs", "msgs", "events", "end"}
Stages == Loops \cup {"start", "block", "done", "failed"}

Item(kind, obj) == [kind |-> kind, obj |-> obj]
NoItem == Item("none", [idx |-> 0])

IndexInit ==
    /\ Init
    /\ stage = "start"
    /\ todo = [l \in Loops |-> <<>>]
    /\ item = NoItem
    /\ dsAt = 1
    /\ dss = [d \in 1..StaticDs |-> d]
    /\ seen = [d \in 1..MaxDs |-> <<>>]

-----------------------------------------------------------------------------
(* for (const ds of dataSources) await this.indexData(...).  The loop ends *)
(* when it has passed the last element, elements pushed meanwhile included.*)

Indexing == stage # "failed" /\ item # NoItem /\ dsAt <= Len(dss)
Indexed(kind) == item.kind = kind /\ dsAt > Len(dss)

Give ==
    /\ Indexing
    /\ seen' = [seen EXCEPT ![dss[dsAt]] = Append(@, item)]
    /\ UNCHANGED <<vars, todo, item>>

IndexData ==
    /\ Give
    /\ dsAt' = dsAt + 1
    /\ UNCHANGED <<stage, dss>>

(* Faulty variant: the new data source waits for the next item.            *)
SkipsNewDs ==
    /\ Give
    /\ Len(dss) < MaxDs
    /\ dss' = Append(dss, Len(dss) + 1)
    /\ dsAt' = Len(dss) + 2
    /\ UNCHANGED stage

(* Faulty variant: the creating data source is appended a second time.     *)
PushesOldDs ==
    /\ Give
    /\ Len(dss) < MaxDs
    /\ dss' = Append(dss, dss[dsAt])
    /\ dsAt' = dsAt + 1
    /\ UNCHANGED stage

(* The handler called createDynamicDatasource: filteredDataSources.push.   *)
IndexDataCreatesDs ==
    /\ Give
    /\ Len(dss) < MaxDs
    /\ dss' = Append(dss, Len(dss) + 1)
    /\ dsAt' = dsAt + 1
    /\ UNCHANGED stage

(* The handler, its filter or the sandbox threw: indexBlockData rejects.   *)
IndexDataThrows ==
    /\ Give
    /\ stage' = "failed"
    /\ UNCHANGED <<dsAt, dss>>

-----------------------------------------------------------------------------
(* The loops of indexBlockData.                                            *)

(* The previous element of this loop, if any, has been indexed.            *)
Ready(l) == stage = l /\ (item = NoItem \/ Indexed("event"))

Visit(kind, obj) == item' = Item(kind, obj) /\ dsAt' = 1

(* for (const x of list): the next element.                                *)
Step(l, kind) ==
    /\ Ready(l)
    /\ todo[l] # <<>>
    /\ Visit(kind, Head(todo[l]))
    /\ todo' = [todo EXCEPT ![l] = Tail(@)]
    /\ UNCHANGED <<vars, stage, dss, seen>>

Exhausted(l) == Ready(l) /\ todo[l] = <<>>

(* The list a loop runs over is evaluated when the loop is entered.        *)
Enter(l, list) ==
    /\ stage' = l
    /\ todo' = [todo EXCEPT ![l] = list]
    /\ item' = NoItem
    /\ UNCHANGED <<dsAt, dss, seen>>

Leave(l) ==
    /\ stage' = l
    /\ item' = NoItem
    /\ UNCHANGED <<vars, todo, dsAt, dss, seen>>

StartBlock ==
    /\ stage = "start"
    /\ GetBlock
    /\ stage' = "block"
    /\ Visit("block", [idx |-> 0])
    /\ UNCHANGED <<todo, dss, seen>>

EnterBegin ==
    /\ stage = "block" /\ Indexed("block")
    /\ GetBeginBlockEvents
    /\ Enter("begin", memo'["beginBlockEvents"])

EnterTxs ==
    /\ Exhausted("begin")
    /\ GetTransactions
    /\ Enter("txs", memo'["transactions"])

(* list.filter(...): the elements that are kept, in their order.           *)
Keep(list, kept) ==
    FlattenSeq([k \in 1..Len(list) |-> IF list[k] \in kept THEN <<list[k]>> ELSE <<>>])

(* blockContent.messages.filter((msg) => msg.tx.hash === tx.hash)          *)
MsgsOf(tx, messages) ==
    Keep(messages, {m \in ToSet(messages) : m.hash = tx.hash})

EnterMsgs ==
    /\ stage = "txs" /\ Indexed("tx")
    /\ GetMessages
    /\ Enter("msgs", MsgsOf(item.obj, memo'["messages"]))

MessagesThrow ==
    /\ stage = "txs" /\ Indexed("tx")
    /\ GetMessagesThrows
    /\ stage' = "failed"
    /\ UNCHANGED <<todo, item, dsAt, dss, seen>>

(* Faulty variant: the events are matched by the transaction alone.        *)
EventsOfTx(msg, events) ==
    Keep(events, {e \in ToSet(events) : blk.txs[e.src.tx].hash = msg.hash})

(* blockContent.events.filter((event) =>                                   *)
(*   event.tx.hash === tx.hash && event.msg?.idx === msg.idx)              *)
EventsOf(msg, events) ==
    Keep(events, {e \in ToSet(events) :
        blk.txs[e.src.tx].hash = msg.hash /\ e.msg = msg.idx})

EnterEvents ==
    /\ stage = "msgs" /\ Indexed("msg")
    /\ GetEvents
    /\ Enter("events", EventsOf(item.obj, memo'["events"]))

EnterEnd ==
    /\ Exhausted("txs")
    /\ GetEndBlockEvents
    /\ Enter("end", memo'["endBlockEvents"])

NextBegin == Step("begin", "event")
NextTx == Step("txs", "tx")
NextMsg == Step("msgs", "msg")
NextEvent == Step("events", "event")
NextEnd == Step("end", "event")

(* Faulty variant: after the first transaction that was walked the loop    *)
(* over the transactions ends too.                                         *)
LeaveMsgsToEnd == Exhausted("msgs") /\ Leave("end")

LeaveEvents == Exhausted("events") /\ Leave("msgs")
LeaveMsgs == Exhausted("msgs") /\ Leave("txs")
LeaveEnd == Exhausted("end") /\ Leave("done")

(* The promise of indexBlockData is settled.                               *)
Settled == stage \in {"done", "failed"}
Rest == Settled /\ UNCHANGED indexVars

IndexStep ==
    \/ IndexData \/ IndexDataCreatesDs \/ IndexDataThrows
    \/ StartBlock
    \/ EnterBegin \/ EnterTxs \/ EnterMsgs \/ MessagesThrow
    \/ EnterEvents \/ EnterEnd
    \/ NextBegin \/ NextTx \/ NextMsg \/ NextEvent \/ NextEnd
    \/ LeaveEvents \/ LeaveMsgs \/ LeaveEnd

IndexNext == IndexStep \/ Rest

(* No fairness: whether a walk ends is up to the handlers, since one that  *)
(* creates a data source of its own kind keeps the inner loop going.       *)
IndexSpec == IndexInit /\ [][IndexNext]_indexVars

-----------------------------------------------------------------------------
(* Messages and events are selected by the hash of their transaction: what *)
(* identifies a transaction only if no two of the block share it.          *)
DistinctHashes(b) ==
    \A t, u \in 1..Len(b.txs) : b.txs[t].hash = b.txs[u].hash => t = u

(* The logs of a transaction follow its messages, as the chain writes them.*)
LogsInOrder(b) ==
    \A t \in 1..Len(b.results) : \A l, m \in 1..Len(b.results[t].logs) :
        l <= m => b.results[t].logs[l].msg_index <= b.results[t].logs[m].msg_index

(* The reference order of a block: the block, its begin block events, then *)
(* each transaction followed by each of its messages with the events       *)
(* logged for that message, then the end block events.  Items are named by *)
(* kind and place.                                                         *)

Name(kind, t, i, e) == [kind |-> kind, tx |-> t, at |-> i, ev |-> e]

Names(kind, n) == [e \in 1..n |-> Name(kind, 0, 0, e)]

MsgOrder(b, t, i) ==
    LET logs == b.results[t].logs
    IN  <<Name("msg", t, i, 0)>> \o
        IF b.results[t].parsed
        THEN FlattenSeq([l \in 1..Len(logs) |->
                IF logs[l].msg_index = i
                THEN [e \in 1..logs[l].events |-> Name("event", t, l, e)]
                ELSE <<>>])
        ELSE <<>>

TxOrder(b, t) ==
    <<Name("tx", t, 0, 0)>> \o
    FlattenSeq([i \in 1..b.txs[t].msgs |-> MsgOrder(b, t, i - 1)])

ChainOrder(b) ==
    <<Name("block", 0, 0, 0)>>
    \o Names("begin", b.begin)
    \o FlattenSeq([t \in 1..Len(b.txs) |-> TxOrder(b, t)])
    \o Names("end", b.end)

NameOf(it) ==
    CASE it.kind = "block" -> Name("block", 0, 0, 0)
      [] it.kind = "tx" -> Name("tx", it.obj.idx + 1, 0, 0)
      [] it.kind = "msg" -> Name("msg", it.obj.tx, it.obj.idx, 0)
      [] it.kind = "event" ->
            IF it.obj.src.at = "tx"
            THEN Name("event", it.obj.src.tx, it.obj.src.log, it.obj.src.ev)
            ELSE Name(it.obj.src.at, 0, 0, it.obj.src.ev)

Given(d) == [k \in DOMAIN seen[d] |-> NameOf(seen[d][k])]

-----------------------------------------------------------------------------
IndexTypeOK ==
    /\ TypeOK
    /\ stage \in Stages
    /\ DOMAIN todo = Loops
    /\ dss = [d \in 1..Len(dss) |-> d]
    /\ Len(dss) \in StaticDs..MaxDs
    /\ dsAt \in 1..(MaxDs + 1)
    /\ DOMAIN seen = 1..MaxDs

(* Every data source of the project is given the items of a block whose    *)
(* transactions differ in chain order, none skipped, repeated or out of    *)
(* turn, at every moment of the walk, a failing handler's last included.   *)
GivenInChainOrder ==
    DistinctHashes(blk) => \A d \in 1..StaticDs : IsPrefix(Given(d), ChainOrder(blk))

(* When indexBlockData returns, every data source of the project was given *)
(* the whole block.                                                        *)
WholeBlockGiven ==
    stage = "done" /\ DistinctHashes(blk) =>
        \A d \in 1..StaticDs : Given(d) = ChainOrder(blk)

(* A data source created by a handler joins at the very item that created  *)
(* it and misses nothing after it: once the loop over the data sources has *)
(* ended, what it was given is a non-empty tail of what the first one was. *)
NewDsJoinsAtOnce ==
    stage # "failed" /\ item # NoItem /\ dsAt > Len(dss) =>
        \A d \in (StaticDs + 1)..Len(dss) :
            seen[d] # <<>> /\ IsSuffix(seen[d], seen[1])

(* Events reach a data source by increasing idx, begin block events before *)
(* transaction events before end block events: the lazy reads happen in    *)
(* the order that makes idx an order of the block.                         *)
EventIdxIncreases ==
    DistinctHashes(blk) /\ LogsInOrder(blk) =>
        \A d \in 1..Len(dss) : \A j, k \in 1..Len(seen[d]) :
            j < k /\ seen[d][j].kind = "event" /\ seen[d][k].kind = "event" =>
                seen[d][j].obj.idx < seen[d][k].obj.idx

=============================================================================
