----------------------- MODULE LazyBlockContentProofs -----------------------
(* Proofs, for every set of raw blocks, of the type invariant, the event   *)
(* numbering and the stability of the lists of LazyBlockContent.           *)
EXTENDS LazyBlockContent, DataLemmas

(* What the argument needs of a wrapped list of events: naturally typed    *)
(* and numbered consecutively from the offset it was wrapped with.         *)
Consecutive(s, off) ==
    /\ s \in Seq(EventType)
    /\ Len(s) \in Nat
    /\ \A i \in 1..Len(s) : s[i].idx = off + i - 1

(* wrapBlockBeginAndEndEvents numbers n events from idxOffset on.          *)
LEMMA WrapBeginEndConsecutive ==
    ASSUME NEW at \in {"begin", "end"}, NEW n \in Nat, NEW off \in Nat
    PROVE  Consecutive(WrapBlockBeginAndEndEvents(at, n, off), off)
<1> DEFINE s == WrapBlockBeginAndEndEvents(at, n, off)
<1>1. \A i \in 1..n :
        [idx |-> off + i - 1, src |-> Source(at, 0, 0, i), msg |-> NoMsg]
            \in EventType
  BY DEF Source, EventType, SourceType, NoMsg
<1>2. s \in [1..n -> EventType]
  BY <1>1 DEF WrapBlockBeginAndEndEvents
<1>3. s \in Seq(EventType) /\ Len(s) = n
  BY <1>2
<1>4. \A i \in 1..n : s[i].idx = off + i - 1
  BY DEF WrapBlockBeginAndEndEvents
<1> QED BY <1>3, <1>4 DEF Consecutive

(* The raw events of a block, log by log and transaction by transaction.   *)
TxSource(b) ==
    {s \in SourceType :
        /\ s.at = "tx"
        /\ s.tx \in 1..Len(b.results)
        /\ s.log \in 1..Len(b.results[s.tx].logs)}

LogEvents(b, t, l) ==
    [e \in 1..b.results[t].logs[l].events |-> Source("tx", t, l, e)]
LogLists(b, t) == [l \in 1..Len(b.results[t].logs) |-> LogEvents(b, t, l)]
TxLists(b) == [t \in 1..Len(b.results) |-> LogSources(b, t)]

LEMMA LogListsType ==
    ASSUME NEW b \in Blocks, NEW t \in 1..Len(b.results)
    PROVE  /\ LogLists(b, t) \in Seq(Seq(TxSource(b)))
           /\ Len(LogLists(b, t)) = Len(b.results[t].logs)
           /\ \A l \in 1..Len(b.results[t].logs) :
                 /\ LogLists(b, t)[l] = LogEvents(b, t, l)
                 /\ LogEvents(b, t, l) \in Seq(TxSource(b))
                 /\ Len(LogEvents(b, t, l)) = b.results[t].logs[l].events
                 /\ \A e \in 1..b.results[t].logs[l].events :
                       LogEvents(b, t, l)[e] = Source("tx", t, l, e)
<1>1. Len(b.results) \in Nat /\ Len(b.results[t].logs) \in Nat
  BY BlocksAssumption
<1>2. ASSUME NEW l \in 1..Len(b.results[t].logs)
      PROVE  /\ LogEvents(b, t, l) \in Seq(TxSource(b))
             /\ Len(LogEvents(b, t, l)) = b.results[t].logs[l].events
             /\ \A e \in 1..b.results[t].logs[l].events :
                   LogEvents(b, t, l)[e] = Source("tx", t, l, e)
  <2> DEFINE n == b.results[t].logs[l].events
  <2>1. n \in Nat
    BY BlocksAssumption
  <2>2. \A e \in 1..n : Source("tx", t, l, e) \in TxSource(b)
    BY <1>1, <2>1 DEF Source, TxSource, SourceType
  <2>3. LogEvents(b, t, l) \in [1..n -> TxSource(b)]
    BY <2>2 DEF LogEvents
  <2>4. \A e \in 1..n : LogEvents(b, t, l)[e] = Source("tx", t, l, e)
    BY DEF LogEvents
  <2> HIDE DEF n
  <2>5. LogEvents(b, t, l) \in Seq(TxSource(b)) /\ Len(LogEvents(b, t, l)) = n
    BY <2>1, <2>3
  <2> QED
    BY <2>4, <2>5 DEF n
<1>3. LogLists(b, t) \in [1..Len(b.results[t].logs) -> Seq(TxSource(b))]
  BY <1>2 DEF LogLists
<1>4. \A l \in 1..Len(b.results[t].logs) : LogLists(b, t)[l] = LogEvents(b, t, l)
  BY DEF LogLists
<1>5. LogLists(b, t) \in Seq(Seq(TxSource(b))) /\ Len(LogLists(b, t)) = Len(b.results[t].logs)
  BY <1>1, <1>3
<1> QED
  BY <1>2, <1>4, <1>5

LEMMA TxListsType ==
    ASSUME NEW b \in Blocks
    PROVE  /\ TxLists(b) \in Seq(Seq(TxSource(b)))
           /\ Len(TxLists(b)) = Len(b.results)
           /\ \A t \in 1..Len(b.results) :
                 /\ TxLists(b)[t] = LogSources(b, t)
                 /\ LogSources(b, t) \in Seq(TxSource(b))
                 /\ LogSources(b, t) =
                       IF b.results[t].parsed THEN FlattenSeq(LogLists(b, t)) ELSE <<>>
<1>1. Len(b.results) \in Nat
  BY BlocksAssumption
<1>2. ASSUME NEW t \in 1..Len(b.results)
      PROVE  /\ LogSources(b, t) \in Seq(TxSource(b))
             /\ LogSources(b, t) =
                  IF b.results[t].parsed THEN FlattenSeq(LogLists(b, t)) ELSE <<>>
  <2>1. LogSources(b, t) = IF b.results[t].parsed THEN FlattenSeq(LogLists(b, t)) ELSE <<>>
    BY DEF LogSources, LogLists, LogEvents
  <2>2. FlattenSeq(LogLists(b, t)) \in Seq(TxSource(b)) /\ <<>> \in Seq(TxSource(b))
    BY LogListsType, FlattenType
  <2> QED
    BY <2>1, <2>2
<1>3. TxLists(b) \in [1..Len(b.results) -> Seq(TxSource(b))]
  BY <1>2 DEF TxLists
<1>4. \A t \in 1..Len(b.results) : TxLists(b)[t] = LogSources(b, t)
  BY DEF TxLists
<1>5. TxLists(b) \in Seq(Seq(TxSource(b))) /\ Len(TxLists(b)) = Len(b.results)
  BY <1>1, <1>3
<1> QED
  BY <1>2, <1>4, <1>5

LEMMA EventSourcesType ==
    ASSUME NEW b \in Blocks
    PROVE  EventSources(b) = FlattenSeq(TxLists(b)) /\ EventSources(b) \in Seq(TxSource(b))
<1>1. EventSources(b) = FlattenSeq(TxLists(b))
  BY DEF EventSources, TxLists
<1> QED
  BY <1>1, TxListsType, FlattenType

(* wrapEvent numbers the events of all parsed logs from idxOffset on.      *)
LEMMA WrapEventConsecutive ==
    ASSUME NEW b \in Blocks, NEW off \in Nat
    PROVE  Consecutive(WrapEvent(b, off), off)
<1> DEFINE srcs == EventSources(b)
           w == WrapEvent(b, off)
<1>1. srcs \in Seq(TxSource(b))
  BY EventSourcesType
<1>2. Len(srcs) \in Nat /\ \A i \in 1..Len(srcs) : srcs[i] \in TxSource(b)
  BY <1>1
<1>3. \A i \in 1..Len(srcs) : EventMsg(b, srcs[i]) \in Int
  <2> SUFFICES ASSUME NEW i \in 1..Len(srcs)
               PROVE  EventMsg(b, srcs[i]) \in Int
    OBVIOUS
  <2> DEFINE t == srcs[i].tx
             l == srcs[i].log
  <2>1. t \in 1..Len(b.results) /\ l \in 1..Len(b.results[t].logs)
    BY <1>2 DEF TxSource
  <2>2. b.results[t].logs[l].msg_index \in Nat
    BY <2>1, BlocksAssumption
  <2> QED BY <2>2 DEF EventMsg, NoMsg
<1>4. \A i \in 1..Len(srcs) :
        [idx |-> off + i - 1, src |-> srcs[i], msg |-> EventMsg(b, srcs[i])]
            \in EventType
  BY <1>2, <1>3 DEF EventType, TxSource
<1>5. w = [i \in 1..Len(srcs) |->
             [idx |-> off + i - 1, src |-> srcs[i], msg |-> EventMsg(b, srcs[i])]]
  BY DEF WrapEvent
<1> HIDE DEF srcs, w
<1>6. w \in [1..Len(srcs) -> EventType]
  BY <1>4, <1>5
<1>7. w \in Seq(EventType) /\ Len(w) = Len(srcs)
  BY <1>2, <1>6
<1>8. \A i \in 1..Len(srcs) : w[i].idx = off + i - 1
  BY <1>5
<1> QED BY <1>2, <1>7, <1>8 DEF Consecutive, w

(* Whatever getter of events wraps, it wraps consecutively from _eventIdx. *)
LEMMA WrapConsecutive ==
    ASSUME TypeOK, NEW g \in EventGetters
    PROVE  Consecutive(Wrap(g), eventIdx)
<1>1. blk.begin \in Nat /\ blk.end \in Nat /\ eventIdx \in Nat /\ blk \in Blocks
  BY BlocksAssumption DEF TypeOK
<1>2. CASE g = "beginBlockEvents"
  BY <1>1, <1>2, WrapBeginEndConsecutive DEF Wrap
<1>3. CASE g = "events"
  BY <1>1, <1>3, WrapEventConsecutive DEF Wrap
<1>4. CASE g = "endBlockEvents"
  BY <1>1, <1>4, WrapBeginEndConsecutive DEF Wrap
<1> QED BY <1>2, <1>3, <1>4 DEF EventGetters

(* A list of events whose field is unset is still empty.                   *)
UnsetEmpty == \A g \in EventGetters : g \notin wrapped => memo[g] = <<>>

IInv == TypeOK /\ UnsetEmpty /\ EventIdxValid

(* The effect of a step on the lists of events, as the proofs use it:      *)
(* either none changes, or one unset field gets a consecutive list and the *)
(* counter moves past it.                                                  *)
Quiet ==
    /\ eventIdx' = eventIdx
    /\ \A g \in EventGetters : memo'[g] = memo[g]

WrapsOne(g) ==
    /\ g \notin wrapped
    /\ g \in wrapped'
    /\ Consecutive(memo'[g], eventIdx)
    /\ eventIdx' = eventIdx + Len(memo'[g])
    /\ \A h \in EventGetters \ {g} : memo'[h] = memo[h]

LEMMA StepEffect ==
    ASSUME TypeOK, [Next]_vars
    PROVE  /\ blk' = blk
           /\ wrapped \subseteq wrapped'
           /\ wrapped' \subseteq Getters
           /\ DOMAIN memo' = Getters
           /\ \A g \in wrapped : memo'[g] = memo[g]
           /\ result' \in {"none", "ok", "throw"}
           /\ Quiet \/ \E g \in EventGetters : WrapsOne(g)
<1>1. CASE GetBlock
  BY <1>1 DEF GetBlock, Fill, Unset, TypeOK, Getters, EventGetters, Quiet
<1>2. CASE GetTransactions
  BY <1>2 DEF GetTransactions, Fill, Unset, TypeOK, Getters, EventGetters, Quiet
<1>3. CASE GetMessages
  BY <1>3 DEF GetMessages, Fill, Unset, TypeOK, Getters, EventGetters, Quiet
<1>4. CASE GetMessagesThrows
  BY <1>4 DEF GetMessagesThrows, Fill, Unset, TypeOK, Getters, EventGetters, Quiet
<1>5. ASSUME NEW g \in EventGetters, NEW gs \in SUBSET Getters,
             g \in gs, gs \cap EventGetters = {g},
             Fill(gs), Allot(g), result' = "ok", UNCHANGED blk
      PROVE  /\ blk' = blk
             /\ wrapped \subseteq wrapped'
             /\ wrapped' \subseteq Getters
             /\ DOMAIN memo' = Getters
             /\ \A h \in wrapped : memo'[h] = memo[h]
             /\ result' \in {"none", "ok", "throw"}
             /\ Quiet \/ WrapsOne(g)
  <2>1. /\ blk' = blk
        /\ wrapped \subseteq wrapped'
        /\ wrapped' \subseteq Getters
        /\ DOMAIN memo' = Getters
        /\ \A h \in wrapped : memo'[h] = memo[h]
        /\ \A h \in EventGetters \ {g} : memo'[h] = memo[h]
    BY <1>5 DEF Fill, Unset, TypeOK, Getters, EventGetters
  <2>2. CASE g \in wrapped
    BY <1>5, <2>1, <2>2 DEF Fill, Allot, Unset, Quiet, TypeOK
  <2>3. CASE g \notin wrapped
    <3>1. memo'[g] = Wrap(g) /\ g \in wrapped'
      BY <1>5, <2>3 DEF Fill, Unset, Getters, EventGetters
    <3>2. eventIdx' = eventIdx + Len(memo'[g])
      BY <1>5, <2>3, <3>1 DEF Allot, Unset
    <3>3. Consecutive(memo'[g], eventIdx)
      BY <3>1, WrapConsecutive
    <3> QED BY <1>5, <2>1, <2>3, <3>1, <3>2, <3>3 DEF WrapsOne
  <2> QED BY <1>5, <2>1, <2>2, <2>3
<1>6. CASE GetEvents
  <2>1. {"block", "transactions", "events"} \in SUBSET Getters
        /\ {"block", "transactions", "events"} \cap EventGetters = {"events"}
        /\ "events" \in EventGetters
    BY DEF Getters, EventGetters
  <2> QED BY <1>5, <1>6, <2>1 DEF GetEvents
<1>7. CASE GetBeginBlockEvents
  <2>1. {"block", "beginBlockEvents"} \in SUBSET Getters
        /\ {"block", "beginBlockEvents"} \cap EventGetters = {"beginBlockEvents"}
        /\ "beginBlockEvents" \in EventGetters
    BY DEF Getters, EventGetters
  <2> QED BY <1>5, <1>7, <2>1 DEF GetBeginBlockEvents
<1>8. CASE GetEndBlockEvents
  <2>1. {"block", "endBlockEvents"} \in SUBSET Getters
        /\ {"block", "endBlockEvents"} \cap EventGetters = {"endBlockEvents"}
        /\ "endBlockEvents" \in EventGetters
    BY DEF Getters, EventGetters
  <2> QED BY <1>5, <1>8, <2>1 DEF GetEndBlockEvents
<1>9. CASE UNCHANGED vars
  BY <1>9 DEF vars, TypeOK, Quiet
<1> QED BY <1>1, <1>2, <1>3, <1>4, <1>6, <1>7, <1>8, <1>9 DEF Next

LEMMA InitIInv == Init => IInv
<1> SUFFICES ASSUME Init PROVE IInv
  OBVIOUS
<1>1. \A g \in EventGetters : memo[g] = <<>>
  BY DEF Init, Getters, EventGetters
<1>2. TypeOK
  BY <1>1 DEF Init, TypeOK, Getters
<1>3. UnsetEmpty
  BY <1>1 DEF UnsetEmpty
<1>4. EventIdxValid
  BY <1>1 DEF Init, EventIdxValid, EventIdxBelow, EventIdxUnique,
              EventIdxInOrder, EventIdxNoGap
<1> QED BY <1>2, <1>3, <1>4 DEF IInv

LEMMA QuietPreserves ==
    ASSUME IInv, TypeOK', wrapped \subseteq wrapped', Quiet
    PROVE  IInv'
<1>1. UnsetEmpty'
  BY DEF IInv, UnsetEmpty, Quiet
<1>2. /\ eventIdx' = eventIdx
      /\ \A g \in EventGetters : memo'[g] = memo[g]
      /\ EventIdxBelow /\ EventIdxUnique /\ EventIdxInOrder /\ EventIdxNoGap
  BY DEF IInv, Quiet, EventIdxValid
<1>3. EventIdxBelow'
  BY <1>2 DEF EventIdxBelow
<1>4. EventIdxUnique'
  BY <1>2 DEF EventIdxUnique
<1>5. EventIdxInOrder'
  BY <1>2 DEF EventIdxInOrder
<1>6. EventIdxNoGap'
  BY <1>2 DEF EventIdxNoGap
<1> QED BY <1>1, <1>3, <1>4, <1>5, <1>6 DEF IInv, EventIdxValid

(* The new list takes the numbers from the old counter up to the new one:  *)
(* above every number already given, so neither a clash nor a gap.         *)
LEMMA WrapsOnePreserves ==
    ASSUME IInv, TypeOK', wrapped \subseteq wrapped',
           NEW g \in EventGetters, WrapsOne(g)
    PROVE  IInv'
<1> DEFINE n == Len(memo'[g])
<1>1. /\ n \in Nat /\ eventIdx \in Nat
      /\ eventIdx' = eventIdx + n
      /\ \A i \in 1..n : memo'[g][i].idx = eventIdx + i - 1
      /\ \A h \in EventGetters : h # g => memo'[h] = memo[h]
      /\ memo[g] = <<>>
  BY DEF IInv, TypeOK, WrapsOne, Consecutive, UnsetEmpty
<1>2. \A h \in EventGetters : \A i \in 1..Len(memo[h]) :
        memo[h][i].idx \in Nat /\ memo[h][i].idx < eventIdx
  <2> SUFFICES ASSUME NEW h \in EventGetters, NEW i \in 1..Len(memo[h])
               PROVE  memo[h][i].idx \in Nat /\ memo[h][i].idx < eventIdx
    OBVIOUS
  <2>1. memo[h] \in Seq(EventType)
    BY DEF IInv, TypeOK
  <2>2. memo[h][i] \in EventType
    BY <2>1
  <2>3. EventIdxBelow
    BY DEF IInv, EventIdxValid
  <2> QED BY <2>2, <2>3 DEF EventType, EventIdxBelow
<1>3. UnsetEmpty'
  BY DEF IInv, UnsetEmpty, WrapsOne
<1>4. EventIdxBelow'
  <2> SUFFICES ASSUME NEW h \in EventGetters, NEW i \in 1..Len(memo'[h])
               PROVE  memo'[h][i].idx < eventIdx'
    BY DEF EventIdxBelow
  <2>1. CASE h = g
    BY <1>1, <2>1
  <2>2. CASE h # g
    BY <1>1, <1>2, <2>2
  <2> QED BY <2>1, <2>2
<1>5. EventIdxUnique'
  <2> SUFFICES ASSUME NEW h1 \in EventGetters, NEW h2 \in EventGetters,
                      NEW i \in 1..Len(memo'[h1]), NEW j \in 1..Len(memo'[h2]),
                      memo'[h1][i].idx = memo'[h2][j].idx
               PROVE  h1 = h2 /\ i = j
    BY DEF EventIdxUnique
  <2>1. CASE h1 = g /\ h2 = g
    BY <1>1, <2>1
  <2>2. CASE h1 = g /\ h2 # g
    <3>1. memo'[h1][i].idx >= eventIdx
      BY <1>1, <2>2
    <3>2. memo'[h2][j].idx \in Nat /\ memo'[h2][j].idx < eventIdx
      BY <1>1, <1>2, <2>2
    <3> QED BY <1>1, <3>1, <3>2
  <2>3. CASE h1 # g /\ h2 = g
    <3>1. memo'[h2][j].idx >= eventIdx
      BY <1>1, <2>3
    <3>2. memo'[h1][i].idx \in Nat /\ memo'[h1][i].idx < eventIdx
      BY <1>1, <1>2, <2>3
    <3> QED BY <1>1, <3>1, <3>2
  <2>4. CASE h1 # g /\ h2 # g
    <3>1. EventIdxUnique
      BY DEF IInv, EventIdxValid
    <3>2. memo'[h1] = memo[h1] /\ memo'[h2] = memo[h2]
      BY <1>1, <2>4
    <3> QED BY <3>1, <3>2 DEF EventIdxUnique
  <2> QED BY <2>1, <2>2, <2>3, <2>4
<1>6. EventIdxInOrder'
  <2> SUFFICES ASSUME NEW h \in EventGetters,
                      NEW i \in 1..Len(memo'[h]), NEW j \in 1..Len(memo'[h])
               PROVE  memo'[h][j].idx - memo'[h][i].idx = j - i
    BY DEF EventIdxInOrder
  <2>1. CASE h = g
    BY <1>1, <2>1
  <2>2. CASE h # g
    <3>1. EventIdxInOrder
      BY DEF IInv, EventIdxValid
    <3>2. memo'[h] = memo[h]
      BY <1>1, <2>2
    <3> QED BY <3>1, <3>2 DEF EventIdxInOrder
  <2> QED BY <2>1, <2>2
<1>7. EventIdxNoGap'
  <2> SUFFICES ASSUME NEW k \in 0..(eventIdx' - 1)
               PROVE  \E h \in EventGetters : \E i \in 1..Len(memo'[h]) :
                         memo'[h][i].idx = k
    BY DEF EventIdxNoGap
  <2>1. CASE k < eventIdx
    <3>1. EventIdxNoGap /\ k \in 0..(eventIdx - 1)
      BY <1>1, <2>1 DEF IInv, EventIdxValid
    <3>2. PICK h \in EventGetters : \E i \in 1..Len(memo[h]) : memo[h][i].idx = k
      BY <3>1 DEF EventIdxNoGap
    <3>3. h # g
      BY <1>1, <3>2
    <3>4. memo'[h] = memo[h]
      BY <1>1, <3>3
    <3> QED BY <3>2, <3>4
  <2>2. CASE k >= eventIdx
    <3>1. k - eventIdx + 1 \in 1..n
      BY <1>1, <2>2
    <3>2. memo'[g][k - eventIdx + 1].idx = k
      BY <1>1, <3>1
    <3> QED BY <3>1, <3>2
  <2> QED BY <1>1, <2>1, <2>2
<1> QED BY <1>3, <1>4, <1>5, <1>6, <1>7 DEF IInv, EventIdxValid

LEMMA NextIInv == IInv /\ [Next]_vars => IInv'
<1> SUFFICES ASSUME IInv, [Next]_vars PROVE IInv'
  OBVIOUS
<1>1. TypeOK
  BY DEF IInv
<1>2. /\ blk' = blk
      /\ wrapped \subseteq wrapped'
      /\ wrapped' \subseteq Getters
      /\ DOMAIN memo' = Getters
      /\ result' \in {"none", "ok", "throw"}
      /\ Quiet \/ \E g \in EventGetters : WrapsOne(g)
  BY <1>1, StepEffect
<1>3. CASE Quiet
  <2>1. TypeOK'
    BY <1>1, <1>2, <1>3 DEF TypeOK, Quiet
  <2> QED BY <1>2, <1>3, <2>1, QuietPreserves
<1>4. CASE \E g \in EventGetters : WrapsOne(g)
  <2>1. PICK g \in EventGetters : WrapsOne(g)
    BY <1>4
  <2>2. TypeOK'
    <3>1. \A h \in EventGetters : memo'[h] \in Seq(EventType)
      BY <1>1, <2>1 DEF TypeOK, WrapsOne, Consecutive
    <3>2. eventIdx' \in Nat
      BY <1>1, <2>1 DEF TypeOK, WrapsOne, Consecutive
    <3> QED BY <1>1, <1>2, <3>1, <3>2 DEF TypeOK
  <2> QED BY <1>2, <2>1, <2>2, WrapsOnePreserves
<1> QED BY <1>2, <1>3, <1>4

(* The fields of LazyBlockContent stay well typed whatever is read.        *)
THEOREM TypeCorrect == Spec => []TypeOK
<1>1. IInv => TypeOK
  BY DEF IInv
<1> QED BY <1>1, InitIInv, NextIInv, PTL DEF Spec

(* The events of a block are numbered without clash and without gap, for   *)
(* every block and every order in which the getters are read.              *)
THEOREM EventNumbering == Spec => []EventIdxValid
<1>1. IInv => EventIdxValid
  BY DEF IInv
<1> QED BY <1>1, InitIInv, NextIInv, PTL DEF Spec

(* A list, once handed out, is never replaced by a later read.             *)
THEOREM ListsAreStable == Spec => MemoStable
<1>1. TypeOK /\ [Next]_vars
        => [\A g \in wrapped : g \in wrapped' /\ memo'[g] = memo[g]]_vars
  <2> SUFFICES ASSUME TypeOK, [Next]_vars
               PROVE  \A g \in wrapped : g \in wrapped' /\ memo'[g] = memo[g]
    OBVIOUS
  <2> QED BY StepEffect
<1> QED BY <1>1, TypeCorrect, PTL DEF Spec, MemoStable

-----------------------------------------------------------------------------
(* A field that is set holds what its wrap function makes of the block,    *)
(* for the counter as it stood.                                            *)
ContentInv ==
    /\ Constructible(blk)
    /\ "transactions" \in wrapped => memo["transactions"] = WrapTx(blk)
    /\ "messages" \in wrapped => memo["messages"] = WrapMsg(blk) /\ ~WrapMsgThrows(blk)
    /\ "events" \in wrapped => \E off \in Nat : memo["events"] = WrapEvent(blk, off)
    /\ "beginBlockEvents" \in wrapped => \E off \in Nat :
          memo["beginBlockEvents"] = WrapBlockBeginAndEndEvents("begin", blk.begin, off)
    /\ "endBlockEvents" \in wrapped => \E off \in Nat :
          memo["endBlockEvents"] = WrapBlockBeginAndEndEvents("end", blk.end, off)

LEMMA FillKeepsContent ==
    ASSUME TypeOK, ContentInv, NEW gs \in SUBSET Getters, Fill(gs), blk' = blk,
           "messages" \in gs /\ "messages" \notin wrapped => ~WrapMsgThrows(blk)
    PROVE  ContentInv'
<1>1. /\ wrapped' = wrapped \cup gs
      /\ \A g \in wrapped : memo'[g] = memo[g]
      /\ \A g \in wrapped' : g \notin wrapped => memo'[g] = Wrap(g)
      /\ eventIdx \in Nat
  BY DEF Fill, Unset, TypeOK
<1>2. /\ Wrap("transactions") = WrapTx(blk)
      /\ Wrap("messages") = WrapMsg(blk)
      /\ Wrap("events") = WrapEvent(blk, eventIdx)
      /\ Wrap("beginBlockEvents") = WrapBlockBeginAndEndEvents("begin", blk.begin, eventIdx)
      /\ Wrap("endBlockEvents") = WrapBlockBeginAndEndEvents("end", blk.end, eventIdx)
  BY DEF Wrap
<1>3. Constructible(blk)'
  BY DEF ContentInv, Constructible
<1>4. "transactions" \in wrapped' => memo'["transactions"] = WrapTx(blk)
  BY <1>1, <1>2 DEF ContentInv
<1>5. "messages" \in wrapped' => memo'["messages"] = WrapMsg(blk) /\ ~WrapMsgThrows(blk)
  BY <1>1, <1>2 DEF ContentInv
<1>6. "events" \in wrapped' => \E off \in Nat : memo'["events"] = WrapEvent(blk, off)
  BY <1>1, <1>2 DEF ContentInv
<1>7. "beginBlockEvents" \in wrapped' => \E off \in Nat :
        memo'["beginBlockEvents"] = WrapBlockBeginAndEndEvents("begin", blk.begin, off)
  BY <1>1, <1>2 DEF ContentInv
<1>8. "endBlockEvents" \in wrapped' => \E off \in Nat :
        memo'["endBlockEvents"] = WrapBlockBeginAndEndEvents("end", blk.end, off)
  BY <1>1, <1>2 DEF ContentInv
<1> QED
  BY <1>3, <1>4, <1>5, <1>6, <1>7, <1>8 DEF ContentInv

LEMMA ContentInvInductive == TypeOK /\ ContentInv /\ [Next]_vars => ContentInv'
<1> SUFFICES ASSUME TypeOK, ContentInv, [Next]_vars PROVE ContentInv'
  OBVIOUS
<1>0. \A gs \in SUBSET Getters :
        /\ Fill(gs) /\ blk' = blk
        /\ "messages" \in gs /\ "messages" \notin wrapped => ~WrapMsgThrows(blk)
        => ContentInv'
  BY FillKeepsContent
<1>1. CASE GetBlock
  BY <1>0, <1>1 DEF GetBlock, Getters
<1>2. CASE GetTransactions
  BY <1>0, <1>2 DEF GetTransactions, Getters
<1>3. CASE GetMessages
  BY <1>0, <1>3 DEF GetMessages, Getters, Unset
<1>4. CASE GetMessagesThrows
  BY <1>0, <1>4 DEF GetMessagesThrows, Getters
<1>5. CASE GetEvents
  BY <1>0, <1>5 DEF GetEvents, Getters, EventGetters
<1>6. CASE GetBeginBlockEvents
  BY <1>0, <1>6 DEF GetBeginBlockEvents, Getters, EventGetters
<1>7. CASE GetEndBlockEvents
  BY <1>0, <1>7 DEF GetEndBlockEvents, Getters, EventGetters
<1>8. CASE UNCHANGED vars
  BY <1>8 DEF vars, ContentInv, Constructible, WrapMsgThrows
<1> QED
  BY <1>1, <1>2, <1>3, <1>4, <1>5, <1>6, <1>7, <1>8 DEF Next

LEMMA ContentInvInit == Init => ContentInv
BY DEF Init, ContentInv

=============================================================================
