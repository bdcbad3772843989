-------------------------- MODULE LazyBlockContent --------------------------
(***************************************************************************)
(* The lazily wrapped content of one block: class LazyBlockContent of      *)
(* packages/node/src/utils/cosmos.ts and the wrap functions its getters    *)
(* call.                                                                   *)
(*                                                                         *)
(* A getter is a synchronous piece of JavaScript, so reading one is one    *)
(* step.  Nothing orders the reads: the class offers six getters and the   *)
(* three that wrap events share one running counter, _eventIdx.            *)
(*                                                                         *)
(* A raw block is a record                                                 *)
(*   begin, end : how many begin/end block events its results list         *)
(*   txs        : the raw transactions, [hash, decodable, msgs], msgs the  *)
(*                number of messages the decoded body holds                *)
(*   results    : the transaction results, [code, parsed, logs], where     *)
(*                parsed says whether parseRawLog accepts the raw log and  *)
(*                logs is what it returns, [msg_index, events]             *)
(***************************************************************************)
EXTENDS Integers, Sequences, SequencesExt

CONSTANT Blocks         \* the raw blocks the endpoint may answer with

VARIABLES
    blk,        \* _blockInfo and _results
    wrapped,    \* the getters whose _wrapped... field is set
    memo,       \* the value of those fields (<<>> while unset)
    eventIdx,   \* _eventIdx
    result      \* how the last read ended: "none", "ok" or "throw"

vars == <<blk, wrapped, memo, eventIdx, result>>

EventGetters == {"beginBlockEvents", "events", "endBlockEvents"}
Getters == {"block", "transactions", "messages"} \cup EventGetters

(* msg of an event that belongs to no message: null for begin and end      *)
(* block events, undefined when wrapCosmosMsg threw.                       *)
NoMsg == -1

-----------------------------------------------------------------------------
(* The wrap functions.  Objects are named by their place in the block: a   *)
(* transaction by its 1-based position, a message by its transaction and   *)
(* its idx, a raw event by where it is listed.                             *)

Source(at, t, l, e) == [at |-> at, tx |-> t, log |-> l, ev |-> e]

WrapBlock(b) == b.results

WrapTx(b) ==
    [t \in 1..Len(b.results) |-> [idx |-> t - 1, hash |-> b.txs[t].hash]]

(* wrapCosmosMsg throws when the body cannot be decoded and when it has no *)
(* message at that index.                                                  *)
HasCosmosMsg(b, t, i) == b.txs[t].decodable /\ i < b.txs[t].msgs

(* wrapMsg decodes every transaction and does not catch.                   *)
WrapMsgThrows(b) == \E t \in 1..Len(b.results) : ~b.txs[t].decodable

WrapMsg(b) ==
    FlattenSeq([t \in 1..Len(b.results) |->
        [i \in 1..b.txs[t].msgs |->
            [idx |-> i - 1, tx |-> t, hash |-> b.txs[t].hash]]])

(* Faulty variants: the offset ignored, and incremented too late.          *)
WrapFromZero(at, n, idxOffset) ==
    [i \in 1..n |->
        [idx |-> i - 1, src |-> Source(at, 0, 0, i), msg |-> NoMsg]]
WrapFromOneBefore(at, n, idxOffset) ==
    [i \in 1..n |->
        [idx |-> idxOffset + i - 2, src |-> Source(at, 0, 0, i), msg |-> NoMsg]]

WrapBlockBeginAndEndEvents(at, n, idxOffset) ==
    [i \in 1..n |->
        [idx |-> idxOffset + i - 1, src |-> Source(at, 0, 0, i), msg |-> NoMsg]]

(* The raw events wrapEvent visits: those of every parsed log, a           *)
(* transaction whose raw log does not parse being skipped.                 *)
LogSources(b, t) ==
    IF b.results[t].parsed
    THEN FlattenSeq([l \in 1..Len(b.results[t].logs) |->
            [e \in 1..b.results[t].logs[l].events |-> Source("tx", t, l, e)]])
    ELSE <<>>

EventSources(b) ==
    FlattenSeq([t \in 1..Len(b.results) |-> LogSources(b, t)])

(* msg stays undefined when wrapCosmosMsg threw.                           *)
EventMsg(b, s) ==
    LET i == b.results[s.tx].logs[s.log].msg_index
    IN  IF HasCosmosMsg(b, s.tx, i) THEN i ELSE NoMsg

WrapEvent(b, idxOffset) ==
    LET srcs == EventSources(b)
    IN  [i \in 1..Len(srcs) |->
            [idx |-> idxOffset + i - 1,
             src |-> srcs[i],
             msg |-> EventMsg(b, srcs[i])]]

-----------------------------------------------------------------------------
SourceType == [at : {"begin", "tx", "end"}, tx : Nat, log : Nat, ev : Nat]
EventType == [idx : Nat, src : SourceType, msg : Int]

(* What the endpoint answers with: finite lists and non-negative counts.   *)
ASSUME BlocksAssumption ==
    \A b \in Blocks :
        /\ b.begin \in Nat /\ b.end \in Nat
        /\ Len(b.results) \in Nat
        /\ \A t \in 1..Len(b.txs) : b.txs[t].msgs \in Nat
        /\ \A t \in 1..Len(b.results) :
              /\ Len(b.results[t].logs) \in Nat
              /\ \A l \in 1..Len(b.results[t].logs) :
                    /\ b.results[t].logs[l].msg_index \in Nat
                    /\ b.results[t].logs[l].events \in Nat

-----------------------------------------------------------------------------
(* fetchBlocksBatches only constructs the object when every transaction    *)
(* has its result.                                                         *)
Constructible(b) == Len(b.results) = Len(b.txs)

Init ==
    /\ blk \in {b \in Blocks : Constructible(b)}
    /\ wrapped = {}
    /\ memo = [g \in Getters |-> <<>>]
    /\ eventIdx = 0
    /\ result = "none"

(* Faulty variant: a list of events is made anew on every read.            *)
UnsetAlways(g) == g \notin wrapped \/ g \in EventGetters

(* if (!this._wrappedX): an empty array is set, and truthy.                *)
Unset(g) == g \notin wrapped

(* What each wrap function returns for the counter as it stands.           *)
Wrap(g) ==
    CASE g = "block" -> WrapBlock(blk)
      [] g = "transactions" -> WrapTx(blk)
      [] g = "messages" -> WrapMsg(blk)
      [] g = "beginBlockEvents" ->
            WrapBlockBeginAndEndEvents("begin", blk.begin, eventIdx)
      [] g = "events" -> WrapEvent(blk, eventIdx)
      [] g = "endBlockEvents" ->
            WrapBlockBeginAndEndEvents("end", blk.end, eventIdx)

(* A getter sets its own field and those of the getters it reads.          *)
Fill(gs) ==
    LET new == {g \in gs : Unset(g)}
    IN  /\ memo' = [g \in Getters |-> IF g \in new THEN Wrap(g) ELSE memo[g]]
        /\ wrapped' = wrapped \cup new

(* Faulty variant: the counter is advanced by the next read only.          *)
AllotOnReread(g) ==
    eventIdx' = IF Unset(g) THEN eventIdx ELSE eventIdx + Len(memo[g])

(* this._eventIdx += this._wrapped....length, when the list was just made. *)
Allot(g) ==
    eventIdx' = IF Unset(g) THEN eventIdx + Len(Wrap(g)) ELSE eventIdx

GetBlock ==
    /\ Fill({"block"})
    /\ result' = "ok"
    /\ UNCHANGED <<blk, eventIdx>>

GetTransactions ==
    /\ Fill({"block", "transactions"})
    /\ result' = "ok"
    /\ UNCHANGED <<blk, eventIdx>>

GetMessages ==
    /\ Unset("messages") => ~WrapMsgThrows(blk)
    /\ Fill({"block", "transactions", "messages"})
    /\ result' = "ok"
    /\ UNCHANGED <<blk, eventIdx>>

(* The arguments of wrapMsg are read before it throws; the field of the    *)
(* messages stays unset, so a later read throws again.                     *)
GetMessagesThrows ==
    /\ Unset("messages") /\ WrapMsgThrows(blk)
    /\ Fill({"block", "transactions"})
    /\ result' = "throw"
    /\ UNCHANGED <<blk, eventIdx>>

GetEvents ==
    /\ Fill({"block", "transactions", "events"})
    /\ Allot("events")
    /\ result' = "ok"
    /\ UNCHANGED blk

GetBeginBlockEvents ==
    /\ Fill({"block", "beginBlockEvents"})
    /\ Allot("beginBlockEvents")
    /\ result' = "ok"
    /\ UNCHANGED blk

GetEndBlockEvents ==
    /\ Fill({"block", "endBlockEvents"})
    /\ Allot("endBlockEvents")
    /\ result' = "ok"
    /\ UNCHANGED blk

Next ==
    \/ GetBlock
    \/ GetTransactions
    \/ GetMessages
    \/ GetMessagesThrows
    \/ GetEvents
    \/ GetBeginBlockEvents
    \/ GetEndBlockEvents

Spec == Init /\ [][Next]_vars

-----------------------------------------------------------------------------
(* The fields hold what their types declare, begin and end block events    *)
(* and transaction events carrying a natural idx.                          *)
TypeOK ==
    /\ blk \in Blocks
    /\ wrapped \subseteq Getters
    /\ DOMAIN memo = Getters
    /\ \A g \in EventGetters : memo[g] \in Seq(EventType)
    /\ eventIdx \in Nat
    /\ result \in {"none", "ok", "throw"}

(* No event was given an index the counter has not passed yet.             *)
EventIdxBelow ==
    \A g \in EventGetters : \A i \in 1..Len(memo[g]) : memo[g][i].idx < eventIdx

(* Two events of the block never share an index, within a list or across   *)
(* the three lists, whichever getter was read first.                       *)
EventIdxUnique ==
    \A g, h \in EventGetters :
        \A i \in 1..Len(memo[g]), j \in 1..Len(memo[h]) :
            memo[g][i].idx = memo[h][j].idx => g = h /\ i = j

(* Within a list the indices follow the order of the events.               *)
EventIdxInOrder ==
    \A g \in EventGetters : \A i, j \in 1..Len(memo[g]) :
        memo[g][j].idx - memo[g][i].idx = j - i

(* No index is skipped: every number below the counter is some event's.    *)
EventIdxNoGap ==
    \A k \in 0..(eventIdx - 1) :
        \E g \in EventGetters : \E i \in 1..Len(memo[g]) : memo[g][i].idx = k

(* "To maintain a valid count over begin block events, tx events and end   *)
(* block events": _eventIdx numbers the events read so far without clash   *)
(* and without gap, in every order the getters can be read in.             *)
EventIdxValid ==
    /\ EventIdxBelow
    /\ EventIdxUnique
    /\ EventIdxInOrder
    /\ EventIdxNoGap

(* A list handed out once is the list every later read returns: the        *)
(* objects a handler kept, and the idx it stored, never change under it,   *)
(* a throwing read of the messages in between included.                    *)
MemoStable ==
    [][\A g \in wrapped : g \in wrapped' /\ memo'[g] = memo[g]]_vars

=============================================================================
