------------------------ MODULE IndexerManagerProofs ------------------------
(***************************************************************************)
(* Proofs about IndexerManager, for every set of blocks and every number   *)
(* of data sources.                                                        *)
(***************************************************************************)
EXTENDS IndexerManager, LazyBlockContentProofs

(* Every step of the walk reads the content through one of its getters, or *)
(* leaves it alone.                                                        *)
LEMMA StepReadsContent == [IndexNext]_indexVars => [Next]_vars
<1> SUFFICES ASSUME [IndexNext]_indexVars PROVE [Next]_vars
  OBVIOUS
<1>1. CASE IndexData \/ IndexDataCreatesDs \/ IndexDataThrows
  BY <1>1 DEF IndexData, IndexDataCreatesDs, IndexDataThrows, Give
<1>2. CASE StartBlock
  BY <1>2 DEF StartBlock, Next
<1>3. CASE EnterBegin \/ EnterTxs \/ EnterMsgs \/ MessagesThrow \/ EnterEvents \/ EnterEnd
  BY <1>3 DEF EnterBegin, EnterTxs, EnterMsgs, MessagesThrow, EnterEvents,
              EnterEnd, Next
<1>4. CASE NextBegin \/ NextTx \/ NextMsg \/ NextEvent \/ NextEnd
  BY <1>4 DEF NextBegin, NextTx, NextMsg, NextEvent, NextEnd, Step
<1>5. CASE LeaveEvents \/ LeaveMsgs \/ LeaveEnd
  BY <1>5 DEF LeaveEvents, LeaveMsgs, LeaveEnd, Leave
<1>6. CASE Rest \/ UNCHANGED indexVars
  BY <1>6 DEF Rest, indexVars
<1> QED
  BY <1>1, <1>2, <1>3, <1>4, <1>5, <1>6 DEF IndexNext, IndexStep

(* The invariants proved of LazyBlockContent carry over to the walk.       *)
LEMMA WalkImplementsContent == IndexSpec => Spec
<1>1. IndexInit => Init
  BY DEF IndexInit
<1> QED
  BY <1>1, StepReadsContent, PTL DEF IndexSpec, Spec

(* Hence the events a walk hands out are numbered without clash or gap.    *)
THEOREM WalkNumbersEvents == IndexSpec => []EventIdxValid
BY WalkImplementsContent, EventNumbering, PTL

(* The part of IndexTypeOK that is the walk's own, inductive together with *)
(* the bound on the position in dataSources.                               *)
WalkInv ==
    /\ stage \in Stages
    /\ DOMAIN todo = Loops
    /\ dss \in Seq(Nat)
    /\ \A d \in 1..Len(dss) : dss[d] = d
    /\ Len(dss) \in StaticDs..MaxDs
    /\ dsAt \in 1..(MaxDs + 1)
    /\ DOMAIN seen = 1..MaxDs

LEMMA WalkInvInit == IndexInit => WalkInv
BY DsAssumption DEF IndexInit, WalkInv, Stages

(* The data sources grow only through createDynamicDatasource, which names *)
(* the new one after its position.                                         *)
LEMMA GiveKeepsWalkInv ==
    ASSUME WalkInv, IndexData \/ IndexDataCreatesDs \/ IndexDataThrows
    PROVE  WalkInv'
<1>1. /\ DOMAIN todo' = Loops
      /\ DOMAIN seen' = 1..MaxDs
      /\ dsAt <= Len(dss)
      /\ dsAt \in Nat /\ Len(dss) \in Nat /\ dsAt + 1 \in 1..(MaxDs + 1)
  BY DsAssumption DEF WalkInv, IndexData, IndexDataCreatesDs, IndexDataThrows,
                      Give, Indexing
<1>2. CASE IndexData
  BY <1>1, <1>2 DEF WalkInv, IndexData
<1>3. CASE IndexDataThrows
  BY <1>1, <1>3 DEF WalkInv, IndexDataThrows, Stages
<1>4. CASE IndexDataCreatesDs
  <2>1. /\ dss' = Append(dss, Len(dss) + 1) /\ Len(dss) < MaxDs
        /\ dsAt' = dsAt + 1 /\ stage' = stage
    BY <1>4 DEF IndexDataCreatesDs
  <2>2. /\ dss' \in Seq(Nat) /\ Len(dss') = Len(dss) + 1
        /\ \A d \in 1..Len(dss') : dss'[d] = d
    <3>1. dss \in Seq(Nat) /\ Len(dss) + 1 \in Nat
      BY <1>1 DEF WalkInv
    <3>2. dss' \in Seq(Nat) /\ Len(dss') = Len(dss) + 1
      BY <2>1, <3>1
    <3>3. ASSUME NEW d \in 1..Len(dss') PROVE dss'[d] = d
      <4>1. CASE d \in 1..Len(dss)
        BY <2>1, <3>1, <4>1 DEF WalkInv
      <4>2. CASE d = Len(dss) + 1
        BY <2>1, <3>1, <4>2
      <4> QED
        BY <1>1, <3>2, <3>3, <4>1, <4>2
    <3> QED
      BY <3>2, <3>3
  <2>3. Len(dss') \in StaticDs..MaxDs
    BY <1>1, <2>1, <2>2, DsAssumption DEF WalkInv
  <2> QED
    BY <1>1, <2>1, <2>2, <2>3 DEF WalkInv
<1> QED
  BY <1>2, <1>3, <1>4

LEMMA WalkInvInductive == WalkInv /\ [IndexNext]_indexVars => WalkInv'
<1> SUFFICES ASSUME WalkInv, [IndexNext]_indexVars PROVE WalkInv'
  OBVIOUS
<1>0. 1 \in 1..(MaxDs + 1)
  BY DsAssumption
<1>1. CASE IndexData \/ IndexDataCreatesDs \/ IndexDataThrows
  BY <1>1, GiveKeepsWalkInv
<1>2. CASE StartBlock
  BY <1>0, <1>2 DEF WalkInv, StartBlock, Visit, Stages
<1>3. CASE EnterBegin \/ EnterTxs \/ EnterMsgs \/ EnterEvents \/ EnterEnd
  <2>1. /\ stage' \in Loops
        /\ DOMAIN todo' = DOMAIN todo
        /\ UNCHANGED <<dsAt, dss, seen>>
    BY <1>3 DEF EnterBegin, EnterTxs, EnterMsgs, EnterEvents, EnterEnd, Enter, Loops
  <2> QED
    BY <2>1 DEF WalkInv, Stages
<1>4. CASE MessagesThrow
  BY <1>4 DEF WalkInv, MessagesThrow, Stages
<1>5. CASE NextBegin \/ NextTx \/ NextMsg \/ NextEvent \/ NextEnd
  <2>1. /\ stage' = stage
        /\ DOMAIN todo' = DOMAIN todo
        /\ dsAt' = 1
        /\ UNCHANGED <<dss, seen>>
    BY <1>5 DEF NextBegin, NextTx, NextMsg, NextEvent, NextEnd, Step, Visit
  <2> QED
    BY <1>0, <2>1 DEF WalkInv
<1>6. CASE LeaveEvents \/ LeaveMsgs \/ LeaveEnd
  <2>1. /\ stage' \in Loops \cup {"done"}
        /\ UNCHANGED <<todo, dsAt, dss, seen>>
    BY <1>6 DEF LeaveEvents, LeaveMsgs, LeaveEnd, Leave, Loops
  <2> QED
    BY <2>1 DEF WalkInv, Stages
<1>7. CASE Rest \/ UNCHANGED indexVars
  BY <1>7 DEF Rest, indexVars, driver, WalkInv
<1> QED
  BY <1>1, <1>2, <1>3, <1>4, <1>5, <1>6, <1>7 DEF IndexNext, IndexStep

(* The walk keeps its types: dataSources stays the sequence it was, with   *)
(* the dynamic ones behind, and the loop over it never runs past its end.  *)
THEOREM WalkTypeCorrect == IndexSpec => []IndexTypeOK
<1>1. TypeOK /\ WalkInv => IndexTypeOK
  <2> SUFFICES ASSUME TypeOK, WalkInv PROVE IndexTypeOK
    OBVIOUS
  <2>1. dss = [d \in 1..Len(dss) |-> d]
    BY DEF WalkInv
  <2> QED
    BY <2>1 DEF WalkInv, IndexTypeOK
<1>2. IndexSpec => []TypeOK
  BY WalkImplementsContent, TypeCorrect, PTL
<1>3. IndexSpec => []WalkInv
  BY WalkInvInit, WalkInvInductive, PTL DEF IndexSpec
<1> QED
  BY <1>1, <1>2, <1>3, PTL

-----------------------------------------------------------------------------
(* The items visited so far, the one that is being indexed included: what  *)
(* the first data source, one of the project, was or is about to be given. *)
Walked == IF item # NoItem /\ dsAt = 1 THEN Append(seen[1], item) ELSE seen[1]

(* How many of them a data source still lacks, and how many it missed      *)
(* because it did not exist yet.                                           *)
Behind(d) == IF item # NoItem /\ d >= dsAt THEN 1 ELSE 0
Missed(d) == Len(Walked) - Len(seen[d]) - Behind(d)

(* Every data source is given a tail of the walk, those of the project all *)
(* of it and a later one at least the item it was created on.              *)
Follows(d) ==
    /\ Missed(d) \in Nat
    /\ \A i \in 1..Len(seen[d]) : seen[d][i] = Walked[Missed(d) + i]
    /\ IF d <= StaticDs THEN Missed(d) = 0 ELSE Missed(d) < Len(Walked)

SeenShape == \E S : \A d \in 1..MaxDs : seen[d] \in Seq(S)

FollowInv ==
    stage # "failed" =>
        /\ \A d \in 1..Len(dss) : Follows(d)
        /\ \A d \in 1..MaxDs : d > Len(dss) => seen[d] = <<>>
        /\ item # NoItem => Walked # <<>> /\ Walked[Len(Walked)] = item
        /\ stage = "start" => item = NoItem

LEMMA SeenShapeStep == SeenShape /\ WalkInv /\ [IndexNext]_indexVars => SeenShape'
<1> SUFFICES ASSUME SeenShape, WalkInv, [IndexNext]_indexVars PROVE SeenShape'
  OBVIOUS
<1>1. PICK S : \A d \in 1..MaxDs : seen[d] \in Seq(S)
  BY DEF SeenShape
<1>2. CASE Give
  <2>1. \A d \in 1..MaxDs : seen'[d] \in Seq(S \cup {item})
    <3>1. ASSUME NEW d \in 1..MaxDs PROVE seen'[d] \in Seq(S \cup {item})
      <4>1. seen[d] \in Seq(S \cup {item})
        BY <1>1
      <4>2. seen'[d] = seen[d] \/ seen'[d] = Append(seen[d], item)
        BY <1>2 DEF Give, WalkInv
      <4> QED
        BY <4>1, <4>2
    <3> QED
      BY <3>1
  <2> QED
    BY <2>1 DEF SeenShape
<1>3. CASE seen' = seen
  BY <1>3 DEF SeenShape
<1> QED
  BY <1>2, <1>3 DEF IndexNext, IndexStep, IndexData, IndexDataCreatesDs, IndexDataThrows,
     StartBlock, EnterBegin, EnterTxs, EnterMsgs, MessagesThrow, EnterEvents, EnterEnd, Enter,
     NextBegin, NextTx, NextMsg, NextEvent, NextEnd, Step, LeaveEvents, LeaveMsgs, LeaveEnd,
     Leave, Rest, indexVars, driver

(* A handler ran: the item was given to the data source at dsAt, and a new *)
(* one may have been pushed.                                               *)
LEMMA GiveFollows ==
    ASSUME WalkInv, SeenShape, FollowInv, IndexData \/ IndexDataCreatesDs
    PROVE  FollowInv'
<1>1. /\ item # NoItem /\ item' = item /\ stage # "failed" /\ stage' = stage
      /\ dsAt \in 1..Len(dss) /\ dsAt' = dsAt + 1 /\ dss[dsAt] = dsAt
      /\ Len(dss) \in Nat /\ MaxDs \in Nat /\ Len(dss) <= MaxDs /\ StaticDs \in Nat
      /\ StaticDs >= 1 /\ StaticDs <= Len(dss)
  BY DsAssumption DEF IndexData, IndexDataCreatesDs, Give, Indexing, WalkInv
<1>2. /\ seen'[dsAt] = Append(seen[dsAt], item)
      /\ \A d \in 1..MaxDs : d # dsAt => seen'[d] = seen[d]
  <2>1. seen' = [seen EXCEPT ![dsAt] = Append(seen[dsAt], item)]
    BY <1>1 DEF IndexData, IndexDataCreatesDs, Give
  <2>2. DOMAIN seen = 1..MaxDs /\ dsAt \in 1..MaxDs
    BY <1>1 DEF WalkInv
  <2> QED
    BY <2>1, <2>2
<1>3. PICK S : \A d \in 1..MaxDs : seen[d] \in Seq(S \cup {item})
  <2>1. PICK S : \A d \in 1..MaxDs : seen[d] \in Seq(S)
    BY DEF SeenShape
  <2>2. \A d \in 1..MaxDs : seen[d] \in Seq(S \cup {item})
    BY <2>1
  <2> QED
    BY <2>2
<1>4. Len(dss') = Len(dss) \/ (Len(dss') = Len(dss) + 1 /\ Len(dss') <= MaxDs)
  <2>1. CASE IndexData
    BY <2>1 DEF IndexData
  <2>2. CASE IndexDataCreatesDs
    BY <1>1, <2>2 DEF IndexDataCreatesDs, WalkInv
  <2> QED
    BY <2>1, <2>2
<1>5. Walked' = Walked
  <2>1. CASE dsAt = 1
    BY <1>1, <1>2, <2>1 DEF Walked
  <2>2. CASE dsAt # 1
    <3>1. seen'[1] = seen[1]
      BY <1>1, <1>2, <2>2
    <3> QED
      BY <1>1, <2>2, <3>1 DEF Walked
  <2> QED
    BY <2>1, <2>2
<1>6. Walked \in Seq(S \cup {item}) /\ Len(Walked) \in Nat /\ Len(Walked) >= 1
  <2>1. Walked \in Seq(S \cup {item})
    BY <1>1, <1>3 DEF Walked
  <2> QED
    BY <1>1, <2>1 DEF FollowInv
<1>7. ASSUME NEW d \in 1..Len(dss')
      PROVE  Follows(d)'
  <2>1. CASE d = dsAt
    <3>1. /\ Len(seen[d]) \in Nat /\ Len(seen'[d]) = Len(seen[d]) + 1
          /\ \A i \in 1..Len(seen[d]) : seen'[d][i] = seen[d][i]
          /\ seen'[d][Len(seen[d]) + 1] = item
      <4>1. seen[d] \in Seq(S \cup {item}) /\ seen'[d] = Append(seen[d], item)
        BY <1>1, <1>2, <1>3, <2>1
      <4> QED
        BY <4>1
    <3>2. Behind(d) = 1 /\ Behind(d)' = 0
      BY <1>1, <2>1 DEF Behind
    <3>3. Missed(d)' = Missed(d) /\ Follows(d)
      BY <1>1, <1>5, <1>6, <2>1, <3>1, <3>2 DEF Missed, FollowInv
    <3>4. Missed(d) + Len(seen[d]) + 1 = Len(Walked)
      BY <1>6, <3>1, <3>2 DEF Missed
    <3>5. ASSUME NEW i \in 1..Len(seen'[d])
          PROVE  seen'[d][i] = Walked'[Missed(d)' + i]
      <4>1. CASE i \in 1..Len(seen[d])
        BY <1>5, <3>1, <3>3, <4>1 DEF Follows
      <4>2. CASE i = Len(seen[d]) + 1
        <5>1. Missed(d) + i = Len(Walked)
          <6>1. Missed(d) = Len(Walked) - Len(seen[d]) - 1
            BY <3>2 DEF Missed
          <6>2. Len(seen[d]) \in Nat /\ Len(Walked) \in Nat
            BY <1>6, <3>1
          <6>3. \A w, l \in Nat : (w - l - 1) + (l + 1) = w
            OBVIOUS
          <6> QED
            BY <4>2, <6>1, <6>2, <6>3
        <5>2. Walked[Len(Walked)] = item
          BY <1>1 DEF FollowInv
        <5>3. seen'[d][i] = item
          BY <3>1, <4>2
        <5>4. Walked'[Missed(d)' + i] = Walked[Missed(d) + i]
          BY <1>5, <3>3
        <5> QED
          BY <5>1, <5>2, <5>3, <5>4
      <4> QED
        BY <3>1, <4>1, <4>2
    <3> QED
      BY <1>5, <3>3, <3>5 DEF Follows
  <2>2. CASE d # dsAt /\ d \in 1..Len(dss)
    <3>1. seen'[d] = seen[d] /\ Behind(d)' = Behind(d)
      BY <1>1, <1>2, <2>2 DEF Behind
    <3>2. Missed(d)' = Missed(d) /\ Follows(d)
      BY <1>1, <1>5, <2>2, <3>1 DEF Missed, FollowInv
    <3> QED
      BY <1>5, <3>1, <3>2 DEF Follows
  <2>3. CASE d = Len(dss) + 1
    <3>1. seen'[d] = <<>> /\ Behind(d)' = 1
      BY <1>1, <1>2, <1>4, <2>3 DEF Behind, FollowInv
    <3>2. Missed(d)' = Len(Walked) - 1
      BY <1>5, <1>6, <3>1 DEF Missed
    <3> QED
      BY <1>1, <1>5, <1>6, <2>3, <3>1, <3>2 DEF Follows
  <2> QED
    BY <1>1, <1>4, <2>1, <2>2, <2>3
<1>8. \A d \in 1..MaxDs : d > Len(dss') => seen'[d] = <<>>
  BY <1>1, <1>2, <1>4 DEF FollowInv
<1> QED
  BY <1>1, <1>5, <1>7, <1>8 DEF FollowInv

(* The loop over the data sources has ended, or not begun.                 *)
AllGiven == item = NoItem \/ dsAt > Len(dss)

LEMMA AllGivenFollow ==
    ASSUME WalkInv, FollowInv, stage # "failed", AllGiven
    PROVE  /\ Walked = seen[1]
           /\ \A d \in 1..Len(dss) : Missed(d) = Len(seen[1]) - Len(seen[d]) - 0
<1>1. Len(dss) \in Nat /\ Len(dss) >= 1 /\ dsAt \in Nat
  BY DsAssumption DEF WalkInv
<1>2. Walked = seen[1]
  BY <1>1 DEF AllGiven, Walked
<1>3. \A d \in 1..Len(dss) : Behind(d) = 0
  BY <1>1 DEF AllGiven, Behind
<1> QED
  BY <1>2, <1>3 DEF Missed

(* A loop is entered or left.                                              *)
LEMMA PauseFollows ==
    ASSUME WalkInv, SeenShape, FollowInv, stage # "failed", AllGiven,
           item' = NoItem, UNCHANGED <<dss, seen>>
    PROVE  FollowInv'
<1>1. /\ Walked = seen[1] /\ Walked' = seen[1]
  BY AllGivenFollow DEF Walked
<1>2. ASSUME NEW d \in 1..Len(dss) PROVE Follows(d)'
  <2>1. Behind(d)' = 0
    BY DEF Behind
  <2>2. Missed(d)' = Missed(d)
    BY <1>1, <2>1, AllGivenFollow DEF Missed
  <2> QED
    BY <1>1, <2>2 DEF FollowInv, Follows
<1> QED
  BY <1>2 DEF FollowInv

(* The next element is visited: all are behind by one.                     *)
LEMMA VisitFollows ==
    ASSUME WalkInv, SeenShape, FollowInv, stage # "failed", AllGiven,
           item' # NoItem, dsAt' = 1, stage' # "start", UNCHANGED <<dss, seen>>
    PROVE  FollowInv'
<1>1. Walked = seen[1] /\ Walked' = Append(seen[1], item')
  BY AllGivenFollow DEF Walked
<1>2. PICK S : \A d \in 1..MaxDs : seen[d] \in Seq(S \cup {item'})
  <2>1. PICK S : \A d \in 1..MaxDs : seen[d] \in Seq(S)
    BY DEF SeenShape
  <2>2. \A d \in 1..MaxDs : seen[d] \in Seq(S \cup {item'})
    BY <2>1
  <2> QED
    BY <2>2
<1>3. Len(dss) \in Nat /\ Len(dss) >= 1 /\ MaxDs \in Nat /\ Len(dss) <= MaxDs
  BY DsAssumption DEF WalkInv
<1>4. /\ Len(seen[1]) \in Nat
      /\ Len(Walked') = Len(seen[1]) + 1 /\ Walked'[Len(seen[1]) + 1] = item'
      /\ \A i \in 1..Len(seen[1]) : Walked'[i] = seen[1][i]
  <2>1. seen[1] \in Seq(S \cup {item'})
    BY <1>2, <1>3
  <2> QED
    BY <1>1, <2>1
<1>5. ASSUME NEW d \in 1..Len(dss) PROVE Follows(d)'
  <2>1. Behind(d)' = 1
    BY <1>3 DEF Behind
  <2>2. Len(seen[d]) \in Nat
    BY <1>2, <1>3
  <2>3. /\ Missed(d)' = Missed(d) /\ Missed(d) \in Nat
        /\ Missed(d) + Len(seen[d]) = Len(seen[1]) /\ Follows(d)
    <3>1. Follows(d) /\ Missed(d) \in Nat
      BY DEF FollowInv, Follows
    <3>2. Missed(d) = Len(seen[1]) - Len(seen[d]) - 0
      BY AllGivenFollow
    <3>3. Missed(d)' = (Len(seen[1]) + 1) - Len(seen[d]) - 1
      BY <1>4, <2>1 DEF Missed
    <3> QED
      BY <1>4, <2>2, <3>1, <3>2, <3>3
  <2>4. ASSUME NEW i \in 1..Len(seen[d])
        PROVE  seen[d][i] = Walked'[Missed(d) + i]
    <3>1. Missed(d) + i \in 1..Len(seen[1])
      BY <1>4, <2>2, <2>3
    <3> QED
      BY <1>1, <1>4, <2>3, <3>1 DEF Follows
  <2>5. IF d <= StaticDs THEN Missed(d) = 0 ELSE Missed(d) < Len(Walked')
    BY <1>1, <1>4, <2>3 DEF Follows
  <2> QED
    BY <2>3, <2>4, <2>5 DEF Follows
<1>6. Walked' # <<>> /\ Walked'[Len(Walked')] = item'
  BY <1>4
<1> QED
  BY <1>5, <1>6 DEF FollowInv

LEMMA FollowInvStep == SeenShape /\ WalkInv /\ FollowInv /\ [IndexNext]_indexVars => FollowInv'
<1> SUFFICES ASSUME SeenShape, WalkInv, FollowInv, [IndexNext]_indexVars PROVE FollowInv'
  OBVIOUS
<1>1. CASE IndexData \/ IndexDataCreatesDs
  BY <1>1, GiveFollows
<1>2. CASE IndexDataThrows \/ MessagesThrow
  BY <1>2 DEF IndexDataThrows, MessagesThrow, FollowInv
<1>3. CASE StartBlock
  <2>1. stage # "failed" /\ AllGiven
    BY <1>3 DEF StartBlock, FollowInv, AllGiven
  <2>2. item' # NoItem /\ dsAt' = 1 /\ stage' # "start" /\ UNCHANGED <<dss, seen>>
    BY <1>3 DEF StartBlock, Visit, Item, NoItem
  <2> QED
    BY <2>1, <2>2, VisitFollows
<1>4. CASE EnterBegin \/ EnterTxs \/ EnterMsgs \/ EnterEvents \/ EnterEnd
  <2>1. stage # "failed" /\ AllGiven
    BY <1>4 DEF EnterBegin, EnterTxs, EnterMsgs, EnterEvents, EnterEnd, Exhausted, Ready,
                Indexed, AllGiven
  <2>2. item' = NoItem /\ UNCHANGED <<dss, seen>>
    BY <1>4 DEF EnterBegin, EnterTxs, EnterMsgs, EnterEvents, EnterEnd, Enter
  <2> QED
    BY <2>1, <2>2, PauseFollows
<1>5. CASE LeaveEvents \/ LeaveMsgs \/ LeaveEnd
  <2>1. stage # "failed" /\ AllGiven
    BY <1>5 DEF LeaveEvents, LeaveMsgs, LeaveEnd, Exhausted, Ready, Indexed, AllGiven
  <2>2. item' = NoItem /\ UNCHANGED <<dss, seen>>
    BY <1>5 DEF LeaveEvents, LeaveMsgs, LeaveEnd, Leave
  <2> QED
    BY <2>1, <2>2, PauseFollows
<1>6. CASE NextBegin \/ NextTx \/ NextMsg \/ NextEvent \/ NextEnd
  <2>1. /\ stage \in Loops /\ stage' = stage /\ AllGiven
        /\ dsAt' = 1 /\ UNCHANGED <<dss, seen>>
    BY <1>6 DEF NextBegin, NextTx, NextMsg, NextEvent, NextEnd, Step, Visit, Ready, Indexed,
                AllGiven, Loops
  <2>2. item' # NoItem
    BY <1>6 DEF NextBegin, NextTx, NextMsg, NextEvent, NextEnd, Step, Visit, Item, NoItem
  <2> QED
    BY <2>1, <2>2, VisitFollows DEF Loops
<1>7. CASE Rest \/ UNCHANGED indexVars
  <2>1. UNCHANGED <<stage, item, dsAt, dss, seen>>
    BY <1>7 DEF Rest, indexVars, driver
  <2> QED
    BY <2>1 DEF FollowInv, Follows, Missed, Behind, Walked
<1> QED
  BY <1>1, <1>2, <1>3, <1>4, <1>5, <1>6, <1>7 DEF IndexNext, IndexStep

(* A tail, place by place, is a suffix.                                    *)
LEMMA TailIsSuffix ==
    ASSUME NEW S, NEW s \in Seq(S), NEW t \in Seq(S), NEW o \in Nat, o + Len(s) = Len(t),
           \A i \in 1..Len(s) : s[i] = t[o + i]
    PROVE  IsSuffix(s, t)
<1> DEFINE r == Reverse(s)
           q == Reverse(t)
<1>1. Len(s) \in Nat /\ Len(t) \in Nat /\ Len(s) <= Len(t)
  OBVIOUS
<1>2. r \in [1..Len(s) -> S] /\ \A i \in 1..Len(s) : r[i] = s[(Len(s) - i) + 1]
  BY <1>1 DEF Reverse
<1>3. q \in [1..Len(t) -> S] /\ \A i \in 1..Len(t) : q[i] = t[(Len(t) - i) + 1]
  BY <1>1 DEF Reverse
<1> HIDE DEF r, q
<1>4. r \in Seq(S) /\ q \in Seq(S) /\ Len(r) = Len(s) /\ Len(q) = Len(t)
  <2>1. r \in Seq(S) /\ Len(r) = Len(s)
    BY <1>1, <1>2
  <2>2. q \in Seq(S) /\ Len(q) = Len(t)
    BY <1>1, <1>3
  <2> QED
    BY <2>1, <2>2
<1>5. ASSUME NEW i \in 1..Len(s) PROVE r[i] = q[i]
  <2>1. /\ (Len(s) - i) + 1 \in 1..Len(s)
        /\ o + ((Len(s) - i) + 1) = (Len(t) - i) + 1 /\ i \in 1..Len(t)
    <3>1. \A n, m \in Nat : o + n = m /\ i \in 1..n =>
            (n - i) + 1 \in 1..n /\ o + ((n - i) + 1) = (m - i) + 1 /\ i \in 1..m
      OBVIOUS
    <3> QED
      BY <1>1, <3>1
  <2> QED
    BY <1>2, <1>3, <2>1
<1>6. SubSeq(r, 1, Len(r)) = SubSeq(q, 1, Len(r))
  <2>1. /\ SubSeq(r, 1, Len(s)) = [i \in 1..Len(s) |-> r[i]]
        /\ SubSeq(q, 1, Len(s)) = [i \in 1..Len(s) |-> q[i]]
    BY <1>1, <1>4
  <2> QED
    BY <1>4, <1>5, <2>1
<1> QED
  BY <1>1, <1>4, <1>6 DEF IsSuffix, IsPrefix, r, q

LEMMA FollowInvariant == IndexSpec => [](WalkInv /\ SeenShape /\ FollowInv)
<1>1. IndexInit => WalkInv /\ SeenShape /\ FollowInv
  <2> SUFFICES ASSUME IndexInit PROVE WalkInv /\ SeenShape /\ FollowInv
    OBVIOUS
  <2>1. WalkInv
    BY WalkInvInit
  <2>2. /\ item = NoItem /\ 1 \in 1..MaxDs /\ Len(dss) = StaticDs
        /\ \A d \in 1..MaxDs : seen[d] = <<>>
        /\ \A d \in 1..Len(dss) : d \in 1..MaxDs /\ d <= StaticDs
    BY DsAssumption DEF IndexInit
  <2>3. SeenShape
    <3>1. <<>> \in Seq(Nat)
      OBVIOUS
    <3>2. \A d \in 1..MaxDs : seen[d] \in Seq(Nat)
      BY <2>2, <3>1
    <3> QED
      BY <3>2 DEF SeenShape
  <2>4. Walked = <<>> /\ \A d \in 1..MaxDs : Behind(d) = 0
    BY <2>2 DEF Walked, Behind
  <2>5. ASSUME NEW d \in 1..Len(dss) PROVE Follows(d)
    BY <2>2, <2>4 DEF Follows, Missed
  <2> QED
    BY <2>1, <2>2, <2>3, <2>5 DEF FollowInv
<1>2. WalkInv /\ SeenShape /\ FollowInv /\ [IndexNext]_indexVars
        => (WalkInv /\ SeenShape /\ FollowInv)'
  BY WalkInvInductive, SeenShapeStep, FollowInvStep
<1> QED
  BY <1>1, <1>2, PTL DEF IndexSpec

(* A data source created by a handler joins at the item that created it    *)
(* and misses nothing after it, however many are created and by whichever  *)
(* data source.                                                            *)
THEOREM CreatedDsJoinsAtOnce == IndexSpec => []NewDsJoinsAtOnce
<1>1. WalkInv /\ SeenShape /\ FollowInv => NewDsJoinsAtOnce
  <2> SUFFICES ASSUME WalkInv, SeenShape, FollowInv, stage # "failed", item # NoItem,
                      dsAt > Len(dss), NEW d \in (StaticDs + 1)..Len(dss)
               PROVE  seen[d] # <<>> /\ IsSuffix(seen[d], seen[1])
    BY DEF NewDsJoinsAtOnce
  <2>1. /\ d \in 1..Len(dss) /\ d \in 1..MaxDs /\ 1 \in 1..MaxDs /\ ~(d <= StaticDs)
    BY DsAssumption DEF WalkInv
  <2>2. PICK S : seen[d] \in Seq(S) /\ seen[1] \in Seq(S)
    BY <2>1 DEF SeenShape
  <2>3. Walked = seen[1] /\ Missed(d) = Len(seen[1]) - Len(seen[d]) - 0
    BY <2>1, AllGivenFollow DEF AllGiven
  <2>4. Follows(d)
    BY <2>1 DEF FollowInv
  <2>5. /\ Missed(d) \in Nat /\ Missed(d) + Len(seen[d]) = Len(seen[1])
        /\ Missed(d) < Len(seen[1])
        /\ \A i \in 1..Len(seen[d]) : seen[d][i] = seen[1][Missed(d) + i]
    <3>1. /\ Missed(d) \in Nat /\ Missed(d) < Len(seen[1])
          /\ \A i \in 1..Len(seen[d]) : seen[d][i] = seen[1][Missed(d) + i]
      BY <2>1, <2>3, <2>4 DEF Follows
    <3>2. Len(seen[d]) \in Nat /\ Len(seen[1]) \in Nat
      BY <2>2
    <3>3. \A k, m, n \in Nat : k = m - n - 0 => k + n = m
      OBVIOUS
    <3>4. Missed(d) + Len(seen[d]) = Len(seen[1])
      BY <2>3, <3>1, <3>2, <3>3
    <3> QED
      BY <3>1, <3>2, <3>4
  <2>6. seen[d] # <<>>
    BY <2>2, <2>5
  <2> QED
    BY <2>2, <2>5, <2>6, TailIsSuffix
<1> QED
  BY <1>1, FollowInvariant, PTL

(* Whenever the loop over the data sources has ended, those of the project *)
(* were all given the same: no handler, failure apart, makes another miss  *)
(* or repeat an item.                                                      *)
THEOREM ProjectDsAreGivenTheSame ==
    IndexSpec => [](stage # "failed" /\ AllGiven => \A d \in 1..StaticDs : seen[d] = seen[1])
<1>1. WalkInv /\ SeenShape /\ FollowInv =>
        (stage # "failed" /\ AllGiven => \A d \in 1..StaticDs : seen[d] = seen[1])
  <2> SUFFICES ASSUME WalkInv, SeenShape, FollowInv, stage # "failed", AllGiven,
                      NEW d \in 1..StaticDs
               PROVE  seen[d] = seen[1]
    OBVIOUS
  <2>1. d \in 1..Len(dss) /\ d \in 1..MaxDs /\ 1 \in 1..MaxDs /\ d <= StaticDs
    BY DsAssumption DEF WalkInv
  <2>2. PICK S : seen[d] \in Seq(S) /\ seen[1] \in Seq(S)
    BY <2>1 DEF SeenShape
  <2>3. Walked = seen[1] /\ Missed(d) = Len(seen[1]) - Len(seen[d]) - 0 /\ Follows(d)
    BY <2>1, AllGivenFollow DEF FollowInv
  <2>4. Len(seen[d]) = Len(seen[1]) /\ \A i \in 1..Len(seen[d]) : seen[d][i] = seen[1][i]
    <3>1. /\ Missed(d) = 0 /\ \A i \in 1..Len(seen[d]) : seen[d][i] = seen[1][Missed(d) + i]
      BY <2>1, <2>3 DEF Follows
    <3>2. Len(seen[d]) \in Nat /\ Len(seen[1]) \in Nat
      BY <2>2
    <3>3. \A k, m, n \in Nat : k = m - n - 0 => k + n = m
      OBVIOUS
    <3>4. Missed(d) + Len(seen[d]) = Len(seen[1])
      BY <2>3, <3>1, <3>2, <3>3
    <3> QED
      BY <3>1, <3>2, <3>4
  <2> QED
    BY <2>2, <2>4
<1> QED
  BY <1>1, FollowInvariant, PTL

-----------------------------------------------------------------------------
(* What Array.filter keeps: of one element, and of a list.                 *)
One(x, kept) == IF x \in kept THEN <<x>> ELSE <<>>
KeepLists(list, kept) == [k \in 1..Len(list) |-> One(list[k], kept)]

LEMMA OneIs ==
    ASSUME NEW S, NEW x \in S, NEW E
    PROVE  /\ One(x, E) \in Seq(S) /\ Len(One(x, E)) \in 0..1
           /\ \A p \in 1..Len(One(x, E)) : One(x, E)[p] = x
           /\ x \in E => One(x, E) = <<x>> /\ Len(One(x, E)) = 1
           /\ x \notin E => One(x, E) = <<>> /\ Len(One(x, E)) = 0
<1>1. CASE x \in E
  BY <1>1 DEF One
<1>2. CASE x \notin E
  BY <1>2 DEF One
<1> QED
  BY <1>1, <1>2

LEMMA KeepIs ==
    ASSUME NEW S, NEW s \in Seq(S), NEW E
    PROVE  /\ KeepLists(s, E) \in Seq(Seq(S)) /\ Len(KeepLists(s, E)) = Len(s)
           /\ \A k \in 1..Len(s) : KeepLists(s, E)[k] = One(s[k], E)
           /\ Keep(s, E) = FlattenSeq(KeepLists(s, E))
           /\ Keep(s, E) \in Seq(S)
<1>1. Len(s) \in Nat /\ \A k \in 1..Len(s) : s[k] \in S
  OBVIOUS
<1>2. \A k \in 1..Len(s) : One(s[k], E) \in Seq(S)
  BY <1>1, OneIs
<1>3. KeepLists(s, E) \in [1..Len(s) -> Seq(S)]
  BY <1>2 DEF KeepLists
<1>4. KeepLists(s, E) \in Seq(Seq(S)) /\ Len(KeepLists(s, E)) = Len(s)
  BY <1>1, <1>3
<1>5. \A k \in 1..Len(s) : KeepLists(s, E)[k] = One(s[k], E)
  BY DEF KeepLists
<1>6. Keep(s, E) = FlattenSeq(KeepLists(s, E))
  BY DEF Keep, KeepLists, One
<1>7. Keep(s, E) \in Seq(S)
  BY <1>4, <1>6, FlattenType
<1> QED
  BY <1>4, <1>5, <1>6, <1>7

LEMMA KeepEmpty == ASSUME NEW E PROVE Keep(<<>>, E) = <<>>
<1>1. <<>> \in Seq(Nat) /\ Len(<<>>) = 0
  OBVIOUS
<1>2. /\ KeepLists(<<>>, E) \in Seq(Seq(Nat)) /\ Len(KeepLists(<<>>, E)) = 0
      /\ Keep(<<>>, E) = FlattenSeq(KeepLists(<<>>, E))
  BY <1>1, KeepIs
<1> QED
  BY <1>2, FlattenEmpty

LEMMA KeepSame ==
    ASSUME NEW S, NEW s \in Seq(S), NEW E, NEW F, \A k \in 1..Len(s) : s[k] \in E <=> s[k] \in F
    PROVE  Keep(s, E) = Keep(s, F)
<1>1. KeepLists(s, E) = KeepLists(s, F)
  BY DEF KeepLists, One
<1> QED
  BY <1>1, KeepIs

LEMMA KeepNone ==
    ASSUME NEW S, NEW s \in Seq(S), NEW E, \A k \in 1..Len(s) : s[k] \notin E
    PROVE  Keep(s, E) = <<>>
<1>1. /\ KeepLists(s, E) \in Seq(Seq(S)) /\ Len(KeepLists(s, E)) = Len(s)
      /\ Keep(s, E) = FlattenSeq(KeepLists(s, E))
      /\ \A k \in 1..Len(s) : KeepLists(s, E)[k] = <<>>
  <2>1. /\ KeepLists(s, E) \in Seq(Seq(S)) /\ Len(KeepLists(s, E)) = Len(s)
        /\ Keep(s, E) = FlattenSeq(KeepLists(s, E))
        /\ \A k \in 1..Len(s) : KeepLists(s, E)[k] = One(s[k], E)
    BY KeepIs
  <2>2. \A k \in 1..Len(s) : One(s[k], E) = <<>>
    BY DEF One
  <2> QED
    BY <2>1, <2>2
<1>2. CASE Len(s) = 0
  BY <1>1, <1>2, FlattenEmpty
<1>3. CASE Len(s) # 0
  <2>1. 1 \in 1..Len(s)
    BY <1>3
  <2> QED
    BY <1>1, <2>1, FlattenSingle
<1> QED
  BY <1>2, <1>3

(* One element more.                                                       *)
LEMMA KeepNext ==
    ASSUME NEW S, NEW s \in Seq(S), NEW t \in Seq(S), NEW E, Len(t) = Len(s) + 1,
           \A k \in 1..Len(s) : t[k] = s[k]
    PROVE  Keep(t, E) = Cat(Keep(s, E), One(t[Len(t)], E))
<1>1. /\ KeepLists(s, E) \in Seq(Seq(S)) /\ Len(KeepLists(s, E)) = Len(s)
      /\ \A k \in 1..Len(s) : KeepLists(s, E)[k] = One(s[k], E)
      /\ Keep(s, E) = FlattenSeq(KeepLists(s, E))
  BY KeepIs
<1>2. /\ KeepLists(t, E) \in Seq(Seq(S)) /\ Len(KeepLists(t, E)) = Len(s) + 1
      /\ \A k \in 1..Len(t) : KeepLists(t, E)[k] = One(t[k], E)
      /\ Keep(t, E) = FlattenSeq(KeepLists(t, E))
  BY KeepIs
<1>3. \A k \in 1..Len(s) : KeepLists(t, E)[k] = KeepLists(s, E)[k]
  BY <1>1, <1>2
<1>4. FlattenSeq(KeepLists(t, E)) = Cat(FlattenSeq(KeepLists(s, E)), KeepLists(t, E)[Len(KeepLists(t, E))])
  BY <1>1, <1>2, <1>3, FlattenNext
<1>5. KeepLists(t, E)[Len(KeepLists(t, E))] = One(t[Len(t)], E)
  BY <1>2
<1> QED
  BY <1>1, <1>2, <1>4, <1>5

LEMMA KeepAll ==
    ASSUME NEW S, NEW s \in Seq(S), NEW E, \A k \in 1..Len(s) : s[k] \in E
    PROVE  Keep(s, E) = s
<1> DEFINE T == {n \in Nat : n <= Len(s) => Keep(Firsts(s, n), E) = Firsts(s, n)}
<1>0. Len(s) \in Nat
  OBVIOUS
<1>1. 0 \in T
  <2>1. Firsts(s, 0) = <<>>
    BY DEF Firsts
  <2> QED
    BY <2>1, KeepEmpty
<1>2. ASSUME NEW n \in Nat, n \in T PROVE n + 1 \in T
  <2> SUFFICES ASSUME n + 1 <= Len(s) PROVE Keep(Firsts(s, n + 1), E) = Firsts(s, n + 1)
    OBVIOUS
  <2>1. n \in 0..Len(s) /\ n + 1 \in 0..Len(s) /\ s[n + 1] \in E /\ s[n + 1] \in S
    BY <1>0
  <2> DEFINE f == Firsts(s, n)
             g == Firsts(s, n + 1)
  <2>2. f \in Seq(S) /\ Len(f) = n /\ \A i \in 1..n : f[i] = s[i]
    BY <2>1, FirstsIs
  <2>3. g \in Seq(S) /\ Len(g) = n + 1 /\ \A i \in 1..(n + 1) : g[i] = s[i]
    BY <2>1, FirstsIs
  <2>4. Keep(f, E) = f
    BY <1>0, <1>2
  <2> HIDE DEF f, g
  <2>5. \A i \in 1..Len(f) : g[i] = f[i]
    BY <2>2, <2>3
  <2>6. g[Len(g)] = s[n + 1]
    BY <2>3
  <2> DEFINE w == One(s[n + 1], E)
  <2>7. w \in Seq(S) /\ Len(w) = 1 /\ w[1] = s[n + 1]
    BY <2>1, OneIs
  <2>8. Keep(g, E) = Cat(Keep(f, E), w)
    BY <2>2, <2>3, <2>5, <2>6, KeepNext
  <2> HIDE DEF w
  <2>9. Cat(f, w) = g
    <3>1. /\ Cat(f, w) \in Seq(S) /\ Len(Cat(f, w)) = n + 1
          /\ \A i \in 1..(n + 1) : Cat(f, w)[i] = s[i]
      <4>1. /\ Cat(f, w) \in Seq(S)
            /\ Len(f) \in Nat /\ Len(w) \in Nat /\ Len(Cat(f, w)) = Len(f) + Len(w)
            /\ \A k \in 1..Len(f) : Cat(f, w)[k] = f[k]
            /\ \A k \in 1..(Len(f) + Len(w)) : k > Len(f) =>
                  k - Len(f) \in 1..Len(w) /\ Cat(f, w)[k] = w[k - Len(f)]
        BY <2>2, <2>7, CatIs
      <4>2. ASSUME NEW i \in 1..(n + 1) PROVE Cat(f, w)[i] = s[i]
        <5>1. CASE i \in 1..n
          BY <2>2, <4>1, <5>1
        <5>2. CASE i = n + 1
          <6>1. i \in 1..(Len(f) + Len(w)) /\ i > Len(f) /\ i - Len(f) = 1
            BY <2>2, <2>7, <5>2
          <6> QED
            BY <2>7, <4>1, <5>2, <6>1
        <5> QED
          BY <5>1, <5>2
      <4> QED
        BY <2>2, <2>7, <4>1, <4>2
    <3> QED
      BY <2>3, <3>1, SeqEqual
  <2> QED
    BY <2>4, <2>8, <2>9 DEF g
<1> HIDE DEF T
<1>3. Len(s) \in T
  BY <1>0, <1>1, <1>2, NatSetInduction
<1> QED
  BY <1>0, <1>3, FirstsAll DEF T

LEMMA KeepConcat ==
    ASSUME NEW S, NEW s \in Seq(S), NEW t \in Seq(S), NEW E
    PROVE  Keep(Cat(s, t), E) = Cat(Keep(s, E), Keep(t, E))
<1> DEFINE T == {n \in Nat : n <= Len(t) =>
                    Keep(Cat(s, Firsts(t, n)), E) = Cat(Keep(s, E), Keep(Firsts(t, n), E))}
<1>0. Len(s) \in Nat /\ Len(t) \in Nat /\ Keep(s, E) \in Seq(S)
  BY KeepIs
<1>1. 0 \in T
  <2>1. Firsts(t, 0) = <<>>
    BY DEF Firsts
  <2>2. Cat(s, <<>>) = s /\ Cat(Keep(s, E), <<>>) = Keep(s, E)
    BY <1>0, CatEmpty
  <2> QED
    BY <2>1, <2>2, KeepEmpty
<1>2. ASSUME NEW n \in Nat, n \in T PROVE n + 1 \in T
  <2> SUFFICES ASSUME n + 1 <= Len(t)
               PROVE  Keep(Cat(s, Firsts(t, n + 1)), E)
                        = Cat(Keep(s, E), Keep(Firsts(t, n + 1), E))
    OBVIOUS
  <2>1. n \in 0..Len(t) /\ n + 1 \in 0..Len(t) /\ t[n + 1] \in S
    BY <1>0
  <2> DEFINE f == Firsts(t, n)
             g == Firsts(t, n + 1)
             w == One(t[n + 1], E)
             a == Cat(s, f)
             c == Cat(s, g)
  <2>2. f \in Seq(S) /\ Len(f) = n /\ \A i \in 1..n : f[i] = t[i]
    BY <2>1, FirstsIs
  <2>3. g \in Seq(S) /\ Len(g) = n + 1 /\ \A i \in 1..(n + 1) : g[i] = t[i]
    BY <2>1, FirstsIs
  <2>4. Keep(a, E) = Cat(Keep(s, E), Keep(f, E))
    BY <1>0, <1>2
  <2> HIDE DEF f, g
  <2>5. (\A i \in 1..Len(f) : g[i] = f[i]) /\ g[Len(g)] = t[n + 1]
    BY <2>2, <2>3
  <2>6. /\ a \in Seq(S) /\ Len(a) = Len(s) + n
        /\ \A k \in 1..Len(s) : a[k] = s[k]
        /\ \A k \in 1..(Len(s) + n) : k > Len(s) => k - Len(s) \in 1..n /\ a[k] = f[k - Len(s)]
    <3>0. f \in Seq(S)
      BY <2>2
    <3>1. /\ Cat(s, f) \in Seq(S)
          /\ Len(s) \in Nat /\ Len(f) \in Nat /\ Len(Cat(s, f)) = Len(s) + Len(f)
          /\ \A k \in 1..Len(s) : Cat(s, f)[k] = s[k]
          /\ \A k \in 1..(Len(s) + Len(f)) : k > Len(s) =>
                k - Len(s) \in 1..Len(f) /\ Cat(s, f)[k] = f[k - Len(s)]
      BY <3>0, CatIs
    <3> QED
      BY <2>2, <3>1
  <2>7. /\ c \in Seq(S) /\ Len(c) = Len(s) + (n + 1)
        /\ \A k \in 1..Len(s) : c[k] = s[k]
        /\ \A k \in 1..(Len(s) + (n + 1)) : k > Len(s) =>
              k - Len(s) \in 1..(n + 1) /\ c[k] = g[k - Len(s)]
    <3>0. g \in Seq(S)
      BY <2>3
    <3>1. /\ Cat(s, g) \in Seq(S)
          /\ Len(s) \in Nat /\ Len(g) \in Nat /\ Len(Cat(s, g)) = Len(s) + Len(g)
          /\ \A k \in 1..Len(s) : Cat(s, g)[k] = s[k]
          /\ \A k \in 1..(Len(s) + Len(g)) : k > Len(s) =>
                k - Len(s) \in 1..Len(g) /\ Cat(s, g)[k] = g[k - Len(s)]
      BY <3>0, CatIs
    <3> QED
      BY <2>3, <3>1
  <2> HIDE DEF a, c
  <2>8. Len(c) = Len(a) + 1 /\ c[Len(c)] = t[n + 1]
    <3>1. /\ Len(c) = Len(a) + 1 /\ Len(c) \in 1..(Len(s) + (n + 1)) /\ Len(c) > Len(s)
          /\ Len(c) - Len(s) = n + 1
      BY <1>0, <2>6, <2>7
    <3>2. c[Len(c)] = g[Len(c) - Len(s)]
      BY <2>7, <3>1
    <3> QED
      BY <2>3, <2>5, <3>1, <3>2
  <2>9. ASSUME NEW k \in 1..Len(a) PROVE c[k] = a[k]
    <3>1. CASE k \in 1..Len(s)
      BY <2>6, <2>7, <3>1
    <3>2. CASE k \notin 1..Len(s)
      <4>1. k \in 1..(Len(s) + n) /\ k \in 1..(Len(s) + (n + 1)) /\ k > Len(s)
        BY <1>0, <2>6, <3>2
      <4>2. a[k] = f[k - Len(s)] /\ c[k] = g[k - Len(s)] /\ k - Len(s) \in 1..n
        BY <2>6, <2>7, <4>1
      <4> QED
        BY <2>2, <2>5, <4>2
    <3> QED
      BY <3>1, <3>2
  <2>10. Keep(f, E) \in Seq(S) /\ w \in Seq(S)
    BY <2>1, <2>2, KeepIs, OneIs
  <2>11. Keep(g, E) = Cat(Keep(f, E), w)
    BY <2>2, <2>3, <2>5, KeepNext
  <2>12. Keep(c, E) = Cat(Keep(a, E), w)
    BY <2>6, <2>7, <2>8, <2>9, KeepNext
  <2> HIDE DEF w
  <2>13. Cat(Cat(Keep(s, E), Keep(f, E)), w) = Cat(Keep(s, E), Cat(Keep(f, E), w))
    BY <1>0, <2>10, CatAssociative
  <2>14. Keep(c, E) = Cat(Keep(s, E), Keep(g, E))
    BY <2>4, <2>11, <2>12, <2>13
  <2> QED
    BY <2>14 DEF c, g
<1> HIDE DEF T
<1>3. Len(t) \in T
  BY <1>0, <1>1, <1>2, NatSetInduction
<1> QED
  BY <1>0, <1>3, FirstsAll DEF T

(* Filtering lists one after the other.                                    *)
LEMMA KeepFlatten ==
    ASSUME NEW S, NEW ss \in Seq(Seq(S)), NEW uu \in Seq(Seq(S)), NEW E, Len(uu) = Len(ss),
           \A t \in 1..Len(ss) : uu[t] = Keep(ss[t], E)
    PROVE  Keep(FlattenSeq(ss), E) = FlattenSeq(uu)
<1> DEFINE F(n) == FlattenSeq(Firsts(ss, n))
           G(n) == FlattenSeq(Firsts(uu, n))
           T == {n \in Nat : n <= Len(ss) => Keep(F(n), E) = G(n)}
<1>0. Len(ss) \in Nat
  OBVIOUS
<1>1. 0 \in T
  <2>1. F(0) = <<>> /\ G(0) = <<>>
    BY FlattenNone
  <2> QED
    BY <2>1, KeepEmpty
<1>2. ASSUME NEW n \in Nat, n \in T PROVE n + 1 \in T
  <2> SUFFICES ASSUME n + 1 <= Len(ss) PROVE Keep(F(n + 1), E) = G(n + 1)
    OBVIOUS
  <2>1. /\ n \in 0..Len(ss) /\ n + 1 <= Len(uu)
        /\ ss[n + 1] \in Seq(S) /\ uu[n + 1] = Keep(ss[n + 1], E)
    BY <1>0
  <2>2. F(n) \in Seq(S)
    BY <2>1, FirstsIs, FlattenType
  <2>3. F(n + 1) = Cat(F(n), ss[n + 1])
    BY FlattenFirsts
  <2>4. G(n + 1) = Cat(G(n), uu[n + 1])
    BY <2>1, FlattenFirsts
  <2>5. Keep(F(n), E) = G(n)
    BY <1>0, <1>2
  <2> HIDE DEF F, G
  <2>6. Keep(Cat(F(n), ss[n + 1]), E) = Cat(Keep(F(n), E), Keep(ss[n + 1], E))
    BY <2>1, <2>2, KeepConcat
  <2> QED
    BY <2>1, <2>3, <2>4, <2>5, <2>6
<1> HIDE DEF T
<1>3. Len(ss) \in T
  BY <1>0, <1>1, <1>2, NatSetInduction
<1>4. Keep(F(Len(ss)), E) = G(Len(uu))
  BY <1>0, <1>3 DEF T
<1> QED
  BY <1>4, FirstsAll

LEMMA KeepMaps ==
    ASSUME NEW S, NEW R, NEW f, NEW s \in Seq(S), NEW u \in Seq(R), NEW E, NEW F,
           Maps(f, s, u), \A k \in 1..Len(s) : s[k] \in E <=> u[k] \in F
    PROVE  Maps(f, Keep(s, E), Keep(u, F))
<1>1. /\ KeepLists(s, E) \in Seq(Seq(S)) /\ Len(KeepLists(s, E)) = Len(s)
      /\ \A k \in 1..Len(s) : KeepLists(s, E)[k] = One(s[k], E)
      /\ Keep(s, E) = FlattenSeq(KeepLists(s, E))
  BY KeepIs
<1>2. /\ KeepLists(u, F) \in Seq(Seq(R)) /\ Len(KeepLists(u, F)) = Len(u)
      /\ \A k \in 1..Len(u) : KeepLists(u, F)[k] = One(u[k], F)
      /\ Keep(u, F) = FlattenSeq(KeepLists(u, F))
  BY KeepIs
<1>3. Len(u) = Len(s) /\ \A k \in 1..Len(s) : u[k] = f[s[k]]
  BY DEF Maps
<1>4. ASSUME NEW k \in 1..Len(s) PROVE Maps(f, KeepLists(s, E)[k], KeepLists(u, F)[k])
  <2>1. Maps(f, One(s[k], E), One(u[k], F))
    <3>1. CASE s[k] \in E
      <4>1. One(s[k], E) = <<s[k]>> /\ One(u[k], F) = <<u[k]>> /\ u[k] = f[s[k]]
        BY <1>3, <3>1 DEF One
      <4>2. Maps(f, <<s[k]>>, <<u[k]>>)
        BY <4>1 DEF Maps
      <4> QED
        BY <4>1, <4>2
    <3>2. CASE s[k] \notin E
      <4>1. One(s[k], E) = <<>> /\ One(u[k], F) = <<>>
        BY <1>3, <3>2 DEF One
      <4>2. Maps(f, <<>>, <<>>)
        BY DEF Maps
      <4> QED
        BY <4>1, <4>2
    <3> QED
      BY <3>1, <3>2
  <2> QED
    BY <1>1, <1>2, <1>3, <2>1
<1>5. Maps(f, FlattenSeq(KeepLists(s, E)), FlattenSeq(KeepLists(u, F)))
  BY <1>1, <1>2, <1>3, <1>4, MapsFlatten
<1> QED
  BY <1>1, <1>2, <1>5

(* What is kept was there.                                                 *)
LEMMA KeepFrom ==
    ASSUME NEW S, NEW s \in Seq(S), NEW E, NEW j \in 1..Len(Keep(s, E))
    PROVE  \E k \in 1..Len(s) : Keep(s, E)[j] = s[k] /\ s[k] \in E
<1> DEFINE ks == KeepLists(s, E)
<1>1. /\ ks \in Seq(Seq(S)) /\ Len(ks) = Len(s) /\ Len(s) \in Nat
      /\ \A k \in 1..Len(s) : ks[k] = One(s[k], E)
      /\ Keep(s, E) = FlattenSeq(ks)
  BY KeepIs
<1> HIDE DEF ks
<1>2. Firsts(ks, Len(ks)) = ks /\ Len(ks) \in Nat /\ Len(ks) <= Len(ks)
  BY <1>1, FirstsAll
<1>3. From(ks, Len(ks), Keep(s, E)[j])
  BY <1>1, <1>2, FlattenFrom
<1>4. PICK k \in 1..Len(s) : \E p \in 1..Len(ks[k]) : Keep(s, E)[j] = ks[k][p]
  BY <1>1, <1>3 DEF From
<1>5. PICK p \in 1..Len(ks[k]) : Keep(s, E)[j] = ks[k][p]
  BY <1>4
<1>6. s[k] \in S /\ ks[k] = One(s[k], E)
  BY <1>1
<1>7. s[k] \in E /\ ks[k][p] = s[k]
  BY <1>5, <1>6, OneIs
<1> QED
  BY <1>5, <1>7

-----------------------------------------------------------------------------
(* The names of a block, part by part, and how far a walk has come in them.*)
NameType ==
    [kind : {"block", "begin", "end", "tx", "msg", "event"}, tx : Nat, at : Nat, ev : Nat]

LogNames(b, t, l) == [e \in 1..b.results[t].logs[l].events |-> Name("event", t, l, e)]
EvLists(b, t, i) ==
    [l \in 1..Len(b.results[t].logs) |->
        IF b.results[t].logs[l].msg_index = i THEN LogNames(b, t, l) ELSE <<>>]
EvNames(b, t, i) == IF b.results[t].parsed THEN FlattenSeq(EvLists(b, t, i)) ELSE <<>>
MsgLists(b, t) == [i \in 1..b.txs[t].msgs |-> MsgOrder(b, t, i - 1)]
TxOrders(b) == [t \in 1..Len(b.txs) |-> TxOrder(b, t)]

BlockNames == <<Name("block", 0, 0, 0)>>
AfterBegin(b, n) == Upto(BlockNames, Names("begin", b.begin), n)
AfterTxs(b, n) == UptoLists(AfterBegin(b, b.begin), TxOrders(b), n)
InTx(b, t) == Cat(AfterTxs(b, t - 1), <<Name("tx", t, 0, 0)>>)
AfterMsgs(b, t, n) == UptoLists(InTx(b, t), MsgLists(b, t), n)
InMsg(b, t, i) == Cat(AfterMsgs(b, t, i - 1), <<Name("msg", t, i - 1, 0)>>)
AfterEvents(b, t, i, n) == Upto(InMsg(b, t, i), EvNames(b, t, i - 1), n)
AfterEnd(b, n) == Upto(AfterTxs(b, Len(b.txs)), Names("end", b.end), n)

LEMMA NameIsName ==
    ASSUME NEW k \in {"block", "begin", "end", "tx", "msg", "event"},
           NEW t \in Nat, NEW i \in Nat, NEW e \in Nat
    PROVE  Name(k, t, i, e) \in NameType /\ <<Name(k, t, i, e)>> \in Seq(NameType)
BY DEF Name, NameType

LEMMA NamesIs ==
    ASSUME NEW k \in {"begin", "end"}, NEW n \in Nat
    PROVE  /\ Names(k, n) \in Seq(NameType) /\ Len(Names(k, n)) = n
           /\ \A e \in 1..n : Names(k, n)[e] = Name(k, 0, 0, e)
<1>1. \A e \in 1..n : Name(k, 0, 0, e) \in NameType
  BY NameIsName
<1>2. Names(k, n) \in [1..n -> NameType]
  BY <1>1 DEF Names
<1>3. \A e \in 1..n : Names(k, n)[e] = Name(k, 0, 0, e)
  BY DEF Names
<1> QED
  BY <1>2, <1>3

(* A block the walk is given: as many results as transactions.             *)
LEMMA BlockIs ==
    ASSUME NEW b \in Blocks, Constructible(b)
    PROVE  /\ b.begin \in Nat /\ b.end \in Nat
           /\ Len(b.txs) \in Nat /\ Len(b.results) = Len(b.txs)
           /\ \A t \in 1..Len(b.txs) : b.txs[t].msgs \in Nat /\ Len(b.results[t].logs) \in Nat
BY BlocksAssumption DEF Constructible

LEMMA EvListsIs ==
    ASSUME NEW b \in Blocks, Constructible(b), NEW t \in 1..Len(b.txs), NEW i
    PROVE  /\ EvLists(b, t, i) \in Seq(Seq(NameType))
           /\ Len(EvLists(b, t, i)) = Len(b.results[t].logs)
           /\ \A l \in 1..Len(b.results[t].logs) :
                 /\ LogNames(b, t, l) \in Seq(NameType)
                 /\ Len(LogNames(b, t, l)) = b.results[t].logs[l].events
                 /\ \A e \in 1..b.results[t].logs[l].events :
                       LogNames(b, t, l)[e] = Name("event", t, l, e)
                 /\ b.results[t].logs[l].msg_index = i => EvLists(b, t, i)[l] = LogNames(b, t, l)
                 /\ b.results[t].logs[l].msg_index # i => EvLists(b, t, i)[l] = <<>>
           /\ EvNames(b, t, i) \in Seq(NameType)
<1>1. Len(b.results[t].logs) \in Nat /\ t \in Nat /\ t \in 1..Len(b.results)
  BY BlockIs
<1>2. ASSUME NEW l \in 1..Len(b.results[t].logs)
      PROVE  /\ LogNames(b, t, l) \in Seq(NameType)
             /\ Len(LogNames(b, t, l)) = b.results[t].logs[l].events
             /\ \A e \in 1..b.results[t].logs[l].events :
                   LogNames(b, t, l)[e] = Name("event", t, l, e)
  <2> DEFINE n == b.results[t].logs[l].events
  <2>1. n \in Nat /\ l \in Nat
    <3>1. n \in Nat
      BY <1>1, BlocksAssumption
    <3>2. l \in Nat
      BY <1>1
    <3> QED
      BY <3>1, <3>2
  <2>2. \A e \in 1..n : Name("event", t, l, e) \in NameType
    BY <1>1, <2>1, NameIsName
  <2>3. LogNames(b, t, l) \in [1..n -> NameType]
    BY <2>2 DEF LogNames
  <2>4. \A e \in 1..n : LogNames(b, t, l)[e] = Name("event", t, l, e)
    BY DEF LogNames
  <2> HIDE DEF n
  <2>5. LogNames(b, t, l) \in Seq(NameType) /\ Len(LogNames(b, t, l)) = n
    BY <2>1, <2>3
  <2> QED
    BY <2>4, <2>5 DEF n
<1>3. <<>> \in Seq(NameType)
  OBVIOUS
<1>4. EvLists(b, t, i) \in [1..Len(b.results[t].logs) -> Seq(NameType)]
  BY <1>2, <1>3 DEF EvLists
<1>5. EvLists(b, t, i) \in Seq(Seq(NameType)) /\ Len(EvLists(b, t, i)) = Len(b.results[t].logs)
  BY <1>1, <1>4
<1>6. \A l \in 1..Len(b.results[t].logs) :
        /\ b.results[t].logs[l].msg_index = i => EvLists(b, t, i)[l] = LogNames(b, t, l)
        /\ b.results[t].logs[l].msg_index # i => EvLists(b, t, i)[l] = <<>>
  BY DEF EvLists
<1>7. FlattenSeq(EvLists(b, t, i)) \in Seq(NameType)
  BY <1>5, FlattenType
<1>8. EvNames(b, t, i) \in Seq(NameType)
  BY <1>3, <1>7 DEF EvNames
<1> QED
  BY <1>2, <1>5, <1>6, <1>8

LEMMA MsgListsIs ==
    ASSUME NEW b \in Blocks, Constructible(b), NEW t \in 1..Len(b.txs)
    PROVE  /\ MsgLists(b, t) \in Seq(Seq(NameType))
           /\ Len(MsgLists(b, t)) = b.txs[t].msgs
           /\ \A i \in 1..b.txs[t].msgs :
                 /\ MsgLists(b, t)[i] = Cat(<<Name("msg", t, i - 1, 0)>>, EvNames(b, t, i - 1))
                 /\ <<Name("msg", t, i - 1, 0)>> \in Seq(NameType)
<1>1. b.txs[t].msgs \in Nat /\ t \in Nat
  <2>1. b.txs[t].msgs \in Nat
    BY BlockIs
  <2>2. t \in Nat
    OBVIOUS
  <2> QED
    BY <2>1, <2>2
<1>2. ASSUME NEW i \in 1..b.txs[t].msgs
      PROVE  /\ MsgOrder(b, t, i - 1) = Cat(<<Name("msg", t, i - 1, 0)>>, EvNames(b, t, i - 1))
             /\ <<Name("msg", t, i - 1, 0)>> \in Seq(NameType)
             /\ MsgOrder(b, t, i - 1) \in Seq(NameType)
  <2>1. MsgOrder(b, t, i - 1) = Cat(<<Name("msg", t, i - 1, 0)>>, EvNames(b, t, i - 1))
    BY DEF MsgOrder, EvNames, EvLists, LogNames, Cat
  <2>2. i - 1 \in Nat
    BY <1>1
  <2>3. <<Name("msg", t, i - 1, 0)>> \in Seq(NameType) /\ EvNames(b, t, i - 1) \in Seq(NameType)
    BY <1>1, <2>2, NameIsName, EvListsIs
  <2>4. Cat(<<Name("msg", t, i - 1, 0)>>, EvNames(b, t, i - 1)) \in Seq(NameType)
    BY <2>3, CatIs
  <2> QED
    BY <2>1, <2>3, <2>4
<1>3. MsgLists(b, t) \in [1..b.txs[t].msgs -> Seq(NameType)]
  BY <1>2 DEF MsgLists
<1>4. \A i \in 1..b.txs[t].msgs : MsgLists(b, t)[i] = MsgOrder(b, t, i - 1)
  BY DEF MsgLists
<1>5. MsgLists(b, t) \in Seq(Seq(NameType)) /\ Len(MsgLists(b, t)) = b.txs[t].msgs
  BY <1>1, <1>3
<1> QED
  BY <1>2, <1>4, <1>5

LEMMA TxOrdersIs ==
    ASSUME NEW b \in Blocks, Constructible(b)
    PROVE  /\ TxOrders(b) \in Seq(Seq(NameType))
           /\ Len(TxOrders(b)) = Len(b.txs)
           /\ \A t \in 1..Len(b.txs) :
                 /\ TxOrders(b)[t] = Cat(<<Name("tx", t, 0, 0)>>, FlattenSeq(MsgLists(b, t)))
                 /\ <<Name("tx", t, 0, 0)>> \in Seq(NameType)
                 /\ FlattenSeq(MsgLists(b, t)) \in Seq(NameType)
<1>1. Len(b.txs) \in Nat
  BY BlockIs
<1>2. ASSUME NEW t \in 1..Len(b.txs)
      PROVE  /\ TxOrder(b, t) = Cat(<<Name("tx", t, 0, 0)>>, FlattenSeq(MsgLists(b, t)))
             /\ <<Name("tx", t, 0, 0)>> \in Seq(NameType)
             /\ FlattenSeq(MsgLists(b, t)) \in Seq(NameType)
             /\ TxOrder(b, t) \in Seq(NameType)
  <2>1. TxOrder(b, t) = Cat(<<Name("tx", t, 0, 0)>>, FlattenSeq(MsgLists(b, t)))
    BY DEF TxOrder, MsgLists, Cat
  <2>2. <<Name("tx", t, 0, 0)>> \in Seq(NameType)
    BY <1>1, NameIsName
  <2>3. FlattenSeq(MsgLists(b, t)) \in Seq(NameType)
    BY MsgListsIs, FlattenType
  <2>4. Cat(<<Name("tx", t, 0, 0)>>, FlattenSeq(MsgLists(b, t))) \in Seq(NameType)
    BY <2>2, <2>3, CatIs
  <2> QED
    BY <2>1, <2>2, <2>3, <2>4
<1>3. TxOrders(b) \in [1..Len(b.txs) -> Seq(NameType)]
  BY <1>2 DEF TxOrders
<1>4. \A t \in 1..Len(b.txs) : TxOrders(b)[t] = TxOrder(b, t)
  BY DEF TxOrders
<1>5. TxOrders(b) \in Seq(Seq(NameType)) /\ Len(TxOrders(b)) = Len(b.txs)
  BY <1>1, <1>3
<1> QED
  BY <1>2, <1>4, <1>5

LEMMA BeginPart ==
    ASSUME NEW b \in Blocks, Constructible(b)
    PROVE  /\ BlockNames \in Seq(NameType)
           /\ AfterBegin(b, 0) = BlockNames
           /\ AfterBegin(b, b.begin) \in Seq(NameType)
           /\ AfterBegin(b, b.begin) = Cat(BlockNames, Names("begin", b.begin))
           /\ \A n \in 0..b.begin : /\ AfterBegin(b, n) \in Seq(NameType)
                                    /\ IsPrefix(AfterBegin(b, n), AfterBegin(b, b.begin))
<1> DEFINE L == Names("begin", b.begin)
<1>0. b.begin \in Nat
  BY BlockIs
<1>1. L \in Seq(NameType) /\ Len(L) = b.begin
  BY <1>0, NamesIs
<1>2. BlockNames \in Seq(NameType)
  BY NameIsName DEF BlockNames
<1> HIDE DEF L
<1>3. /\ Upto(BlockNames, L, 0) = BlockNames
      /\ Upto(BlockNames, L, b.begin) = Cat(BlockNames, L)
      /\ Upto(BlockNames, L, b.begin) \in Seq(NameType)
  BY <1>1, <1>2, UptoIs
<1>4. \A n \in 0..b.begin : /\ Upto(BlockNames, L, n) \in Seq(NameType)
                            /\ IsPrefix(Upto(BlockNames, L, n), Upto(BlockNames, L, b.begin))
  BY <1>1, <1>2, UptoPrefix
<1> QED
  BY <1>2, <1>3, <1>4 DEF AfterBegin, L

LEMMA TxsPart ==
    ASSUME NEW b \in Blocks, Constructible(b)
    PROVE  /\ AfterTxs(b, 0) = AfterBegin(b, b.begin)
           /\ AfterTxs(b, Len(b.txs)) = Cat(AfterBegin(b, b.begin), FlattenSeq(TxOrders(b)))
           /\ \A n \in 0..Len(b.txs) : /\ AfterTxs(b, n) \in Seq(NameType)
                                       /\ IsPrefix(AfterTxs(b, n), AfterTxs(b, Len(b.txs)))
           /\ \A t \in 1..Len(b.txs) : InTx(b, t) \in Seq(NameType)
<1> DEFINE X == AfterBegin(b, b.begin)
<1>0. Len(b.txs) \in Nat
  BY BlockIs
<1>1. X \in Seq(NameType)
  BY BeginPart
<1>2. TxOrders(b) \in Seq(Seq(NameType)) /\ Len(TxOrders(b)) = Len(b.txs)
  BY TxOrdersIs
<1> HIDE DEF X
<1>3. /\ UptoLists(X, TxOrders(b), 0) = X
      /\ UptoLists(X, TxOrders(b), Len(b.txs)) = Cat(X, FlattenSeq(TxOrders(b)))
  BY <1>1, <1>2, UptoListsIs
<1>4. \A n \in 0..Len(b.txs) :
        /\ UptoLists(X, TxOrders(b), n) \in Seq(NameType)
        /\ IsPrefix(UptoLists(X, TxOrders(b), n), UptoLists(X, TxOrders(b), Len(b.txs)))
  BY <1>1, <1>2, UptoListsPrefix
<1>5. ASSUME NEW t \in 1..Len(b.txs) PROVE InTx(b, t) \in Seq(NameType)
  <2>1. t - 1 \in 0..Len(b.txs)
    BY <1>0
  <2>2. AfterTxs(b, t - 1) \in Seq(NameType)
    BY <1>4, <2>1 DEF AfterTxs, X
  <2>3. <<Name("tx", t, 0, 0)>> \in Seq(NameType)
    BY TxOrdersIs
  <2> QED
    BY <2>2, <2>3, CatIs DEF InTx
<1> QED
  BY <1>3, <1>4, <1>5 DEF AfterTxs, X

LEMMA MsgsPart ==
    ASSUME NEW b \in Blocks, Constructible(b), NEW t \in 1..Len(b.txs)
    PROVE  /\ AfterMsgs(b, t, 0) = InTx(b, t)
           /\ AfterMsgs(b, t, b.txs[t].msgs) = AfterTxs(b, t)
           /\ \A n \in 0..b.txs[t].msgs : /\ AfterMsgs(b, t, n) \in Seq(NameType)
                                          /\ IsPrefix(AfterMsgs(b, t, n), AfterTxs(b, t))
           /\ \A i \in 1..b.txs[t].msgs : InMsg(b, t, i) \in Seq(NameType)
<1> DEFINE X == InTx(b, t)
           A == AfterTxs(b, t - 1)
           w == <<Name("tx", t, 0, 0)>>
           L == MsgLists(b, t)
<1>0. Len(b.txs) \in Nat
  BY BlockIs
<1>1. X \in Seq(NameType)
  BY TxsPart
<1>2. L \in Seq(Seq(NameType)) /\ Len(L) = b.txs[t].msgs
  BY MsgListsIs
<1>3. /\ TxOrders(b)[t] = Cat(w, FlattenSeq(L))
      /\ w \in Seq(NameType) /\ FlattenSeq(L) \in Seq(NameType)
  BY TxOrdersIs
<1>4. A \in Seq(NameType)
  <2>1. t - 1 \in 0..Len(b.txs)
    BY <1>0
  <2> QED
    BY <2>1, TxsPart
<1>5. AfterTxs(b, t) = Cat(A, TxOrders(b)[t])
  <2>1. t - 1 \in Nat /\ (t - 1) + 1 = t /\ t <= Len(b.txs)
    BY <1>0
  <2>2. TxOrders(b) \in Seq(Seq(NameType)) /\ Len(TxOrders(b)) = Len(b.txs)
    BY TxOrdersIs
  <2>3. AfterBegin(b, b.begin) \in Seq(NameType)
    BY BeginPart
  <2>4. UptoLists(AfterBegin(b, b.begin), TxOrders(b), (t - 1) + 1)
          = Cat(UptoLists(AfterBegin(b, b.begin), TxOrders(b), t - 1), TxOrders(b)[(t - 1) + 1])
    BY <2>1, <2>2, <2>3, UptoListsNext
  <2> QED
    BY <2>1, <2>4 DEF AfterTxs
<1>6. X = Cat(A, w)
  BY DEF InTx
<1> HIDE DEF X, A, w, L
<1>7. /\ UptoLists(X, L, 0) = X
      /\ UptoLists(X, L, b.txs[t].msgs) = Cat(X, FlattenSeq(L))
  BY <1>1, <1>2, UptoListsIs
<1>8. Cat(X, FlattenSeq(L)) = AfterTxs(b, t)
  <2>1. Cat(Cat(A, w), FlattenSeq(L)) = Cat(A, Cat(w, FlattenSeq(L)))
    BY <1>3, <1>4, CatAssociative
  <2> QED
    BY <1>3, <1>5, <1>6, <2>1
<1>9. \A n \in 0..b.txs[t].msgs :
        /\ UptoLists(X, L, n) \in Seq(NameType)
        /\ IsPrefix(UptoLists(X, L, n), UptoLists(X, L, b.txs[t].msgs))
  BY <1>1, <1>2, UptoListsPrefix
<1>10. ASSUME NEW i \in 1..b.txs[t].msgs PROVE InMsg(b, t, i) \in Seq(NameType)
  <2>1. i - 1 \in 0..b.txs[t].msgs
    <3>1. b.txs[t].msgs \in Nat
      BY BlockIs
    <3> QED
      BY <3>1
  <2>2. AfterMsgs(b, t, i - 1) \in Seq(NameType)
    BY <1>9, <2>1 DEF AfterMsgs, X, L
  <2>3. <<Name("msg", t, i - 1, 0)>> \in Seq(NameType)
    BY MsgListsIs
  <2> QED
    BY <2>2, <2>3, CatIs DEF InMsg
<1> QED
  BY <1>7, <1>8, <1>9, <1>10 DEF AfterMsgs, X, L

LEMMA EventsPart ==
    ASSUME NEW b \in Blocks, Constructible(b), NEW t \in 1..Len(b.txs), NEW i \in 1..b.txs[t].msgs
    PROVE  /\ AfterEvents(b, t, i, 0) = InMsg(b, t, i)
           /\ AfterEvents(b, t, i, Len(EvNames(b, t, i - 1))) = AfterMsgs(b, t, i)
           /\ \A n \in 0..Len(EvNames(b, t, i - 1)) :
                 /\ AfterEvents(b, t, i, n) \in Seq(NameType)
                 /\ IsPrefix(AfterEvents(b, t, i, n), AfterMsgs(b, t, i))
<1> DEFINE X == InMsg(b, t, i)
           A == AfterMsgs(b, t, i - 1)
           w == <<Name("msg", t, i - 1, 0)>>
           L == EvNames(b, t, i - 1)
<1>0. b.txs[t].msgs \in Nat
  BY BlockIs
<1>1. X \in Seq(NameType)
  BY MsgsPart
<1>2. L \in Seq(NameType)
  BY EvListsIs
<1>3. MsgLists(b, t)[i] = Cat(w, L) /\ w \in Seq(NameType)
  BY MsgListsIs
<1>4. A \in Seq(NameType)
  <2>1. i - 1 \in 0..b.txs[t].msgs
    BY <1>0
  <2> QED
    BY <2>1, MsgsPart
<1>5. AfterMsgs(b, t, i) = Cat(A, MsgLists(b, t)[i])
  <2>1. i - 1 \in Nat /\ (i - 1) + 1 = i /\ i <= b.txs[t].msgs
    BY <1>0
  <2>2. MsgLists(b, t) \in Seq(Seq(NameType)) /\ Len(MsgLists(b, t)) = b.txs[t].msgs
    BY MsgListsIs
  <2>3. InTx(b, t) \in Seq(NameType)
    BY TxsPart
  <2>4. UptoLists(InTx(b, t), MsgLists(b, t), (i - 1) + 1)
          = Cat(UptoLists(InTx(b, t), MsgLists(b, t), i - 1), MsgLists(b, t)[(i - 1) + 1])
    BY <2>1, <2>2, <2>3, UptoListsNext
  <2> QED
    BY <2>1, <2>4 DEF AfterMsgs
<1>6. X = Cat(A, w)
  BY DEF InMsg
<1> HIDE DEF X, A, w, L
<1>7. Upto(X, L, 0) = X /\ Upto(X, L, Len(L)) = Cat(X, L)
  BY <1>1, <1>2, UptoIs
<1>8. Cat(X, L) = AfterMsgs(b, t, i)
  <2>1. Cat(Cat(A, w), L) = Cat(A, Cat(w, L))
    BY <1>2, <1>3, <1>4, CatAssociative
  <2> QED
    BY <1>3, <1>5, <1>6, <2>1
<1>9. \A n \in 0..Len(L) : Upto(X, L, n) \in Seq(NameType) /\ IsPrefix(Upto(X, L, n), Upto(X, L, Len(L)))
  BY <1>1, <1>2, UptoPrefix
<1> QED
  BY <1>7, <1>8, <1>9 DEF AfterEvents, X, L

LEMMA EndPart ==
    ASSUME NEW b \in Blocks, Constructible(b)
    PROVE  /\ AfterEnd(b, 0) = AfterTxs(b, Len(b.txs))
           /\ AfterEnd(b, b.end) = ChainOrder(b)
           /\ ChainOrder(b) \in Seq(NameType)
           /\ \A n \in 0..b.end : /\ AfterEnd(b, n) \in Seq(NameType)
                                  /\ IsPrefix(AfterEnd(b, n), ChainOrder(b))
<1> DEFINE X == AfterTxs(b, Len(b.txs))
           L == Names("end", b.end)
<1>0. b.end \in Nat /\ Len(b.txs) \in Nat
  BY BlockIs
<1>1. L \in Seq(NameType) /\ Len(L) = b.end
  BY <1>0, NamesIs
<1>2. X \in Seq(NameType)
  <2>1. Len(b.txs) \in 0..Len(b.txs)
    BY <1>0
  <2> QED
    BY <2>1, TxsPart
<1>3. ChainOrder(b) = Cat(X, L)
  <2>1. X = Cat(AfterBegin(b, b.begin), FlattenSeq(TxOrders(b)))
    BY TxsPart
  <2>2. AfterBegin(b, b.begin) = Cat(BlockNames, Names("begin", b.begin))
    BY BeginPart
  <2>3. ChainOrder(b) = Cat(Cat(Cat(BlockNames, Names("begin", b.begin)), FlattenSeq(TxOrders(b))), L)
    BY DEF ChainOrder, BlockNames, TxOrders, Cat
  <2> QED
    BY <2>1, <2>2, <2>3
<1> HIDE DEF X, L
<1>4. Upto(X, L, 0) = X /\ Upto(X, L, b.end) = Cat(X, L) /\ Upto(X, L, b.end) \in Seq(NameType)
  BY <1>1, <1>2, UptoIs
<1>5. \A n \in 0..b.end : Upto(X, L, n) \in Seq(NameType) /\ IsPrefix(Upto(X, L, n), Upto(X, L, b.end))
  BY <1>1, <1>2, UptoPrefix
<1> QED
  BY <1>3, <1>4, <1>5 DEF AfterEnd, X, L

(* Wherever a walk stands, what it has passed begins the chain order.      *)
LEMMA PassedIsPrefix ==
    ASSUME NEW b \in Blocks, Constructible(b)
    PROVE  /\ IsPrefix(<<>>, ChainOrder(b))
           /\ \A n \in 0..b.begin : IsPrefix(AfterBegin(b, n), ChainOrder(b))
           /\ \A n \in 0..Len(b.txs) : IsPrefix(AfterTxs(b, n), ChainOrder(b))
           /\ \A t \in 1..Len(b.txs) : \A n \in 0..b.txs[t].msgs :
                 IsPrefix(AfterMsgs(b, t, n), ChainOrder(b))
           /\ \A t \in 1..Len(b.txs) : \A i \in 1..b.txs[t].msgs :
                 \A n \in 0..Len(EvNames(b, t, i - 1)) :
                    IsPrefix(AfterEvents(b, t, i, n), ChainOrder(b))
           /\ \A n \in 0..b.end : IsPrefix(AfterEnd(b, n), ChainOrder(b))
<1> DEFINE C == ChainOrder(b)
           N == Len(b.txs)
<1>0. N \in Nat /\ b.begin \in Nat /\ b.end \in Nat /\ N \in 0..N /\ 0 \in 0..N
  BY BlockIs
<1>1. /\ C \in Seq(NameType)
      /\ \A n \in 0..b.end : AfterEnd(b, n) \in Seq(NameType) /\ IsPrefix(AfterEnd(b, n), C)
  BY EndPart
<1>2. AfterTxs(b, N) \in Seq(NameType) /\ IsPrefix(AfterTxs(b, N), C)
  <2>1. 0 \in 0..b.end /\ AfterEnd(b, 0) = AfterTxs(b, N)
    BY <1>0, EndPart
  <2> QED
    BY <1>1, <2>1
<1> HIDE DEF C
<1>3. ASSUME NEW n \in 0..N PROVE AfterTxs(b, n) \in Seq(NameType) /\ IsPrefix(AfterTxs(b, n), C)
  <2>1. AfterTxs(b, n) \in Seq(NameType) /\ IsPrefix(AfterTxs(b, n), AfterTxs(b, N))
    BY TxsPart
  <2> QED
    BY <1>1, <1>2, <2>1, PrefixTrans
<1>4. ASSUME NEW n \in 0..b.begin PROVE IsPrefix(AfterBegin(b, n), C)
  <2> DEFINE A == AfterBegin(b, b.begin)
  <2>1. A = AfterTxs(b, 0)
    BY TxsPart
  <2>2. AfterTxs(b, 0) \in Seq(NameType) /\ IsPrefix(AfterTxs(b, 0), C)
    BY <1>0, <1>3
  <2>3. AfterBegin(b, n) \in Seq(NameType) /\ IsPrefix(AfterBegin(b, n), A)
    BY BeginPart
  <2> HIDE DEF A
  <2>4. A \in Seq(NameType) /\ IsPrefix(A, C)
    BY <2>1, <2>2
  <2> QED
    BY <1>1, <2>3, <2>4, PrefixTrans
<1>5. ASSUME NEW t \in 1..N, NEW n \in 0..b.txs[t].msgs
      PROVE  AfterMsgs(b, t, n) \in Seq(NameType) /\ IsPrefix(AfterMsgs(b, t, n), C)
  <2>1. t \in 0..N
    BY <1>0
  <2>2. AfterTxs(b, t) \in Seq(NameType) /\ IsPrefix(AfterTxs(b, t), C)
    BY <1>3, <2>1
  <2>3. AfterMsgs(b, t, n) \in Seq(NameType) /\ IsPrefix(AfterMsgs(b, t, n), AfterTxs(b, t))
    BY MsgsPart
  <2> QED
    BY <1>1, <2>2, <2>3, PrefixTrans
<1>6. ASSUME NEW t \in 1..N, NEW i \in 1..b.txs[t].msgs, NEW n \in 0..Len(EvNames(b, t, i - 1))
      PROVE  IsPrefix(AfterEvents(b, t, i, n), C)
  <2>1. i \in 0..b.txs[t].msgs
    OBVIOUS
  <2>2. AfterMsgs(b, t, i) \in Seq(NameType) /\ IsPrefix(AfterMsgs(b, t, i), C)
    BY <1>5, <2>1
  <2>3. AfterEvents(b, t, i, n) \in Seq(NameType) /\ IsPrefix(AfterEvents(b, t, i, n), AfterMsgs(b, t, i))
    BY EventsPart
  <2> QED
    BY <1>1, <2>2, <2>3, PrefixTrans
<1>7. IsPrefix(<<>>, C)
  <2>1. <<>> \in Seq(NameType) /\ Len(<<>>) = 0 /\ Len(C) \in Nat
    BY <1>1
  <2>2. Len(<<>>) <= Len(C) /\ \A k \in 1..Len(<<>>) : <<>>[k] = C[k]
    BY <2>1
  <2> QED
    BY <1>1, <2>1, <2>2, PrefixIs
<1> QED
  BY <1>1, <1>3, <1>4, <1>5, <1>6, <1>7 DEF C

-----------------------------------------------------------------------------
(* The messages the filter leaves of a block whose transactions differ are *)
(* those of the transaction.                                               *)
TxMsgs(b, t) == [i \in 1..b.txs[t].msgs |-> [idx |-> i - 1, tx |-> t, hash |-> b.txs[t].hash]]
Hashes(b) == {b.txs[t].hash : t \in 1..Len(b.txs)}
MsgSet(b) == [idx : Nat, tx : Nat, hash : Hashes(b)]
TxMsgLists(b) == [t \in 1..Len(b.results) |-> TxMsgs(b, t)]

LEMMA TxMsgsIs ==
    ASSUME NEW b \in Blocks, Constructible(b), NEW t \in 1..Len(b.txs)
    PROVE  /\ TxMsgs(b, t) \in Seq(MsgSet(b)) /\ Len(TxMsgs(b, t)) = b.txs[t].msgs
           /\ \A i \in 1..b.txs[t].msgs :
                 TxMsgs(b, t)[i] = [idx |-> i - 1, tx |-> t, hash |-> b.txs[t].hash]
<1>1. b.txs[t].msgs \in Nat
  BY BlockIs
<1>2. ASSUME NEW i \in 1..b.txs[t].msgs
      PROVE  [idx |-> i - 1, tx |-> t, hash |-> b.txs[t].hash] \in MsgSet(b)
  <2>1. i - 1 \in Nat /\ t \in Nat /\ b.txs[t].hash \in Hashes(b)
    BY <1>1 DEF Hashes
  <2> QED
    BY <2>1 DEF MsgSet
<1>3. TxMsgs(b, t) \in [1..b.txs[t].msgs -> MsgSet(b)]
  BY <1>2 DEF TxMsgs
<1>4. \A i \in 1..b.txs[t].msgs :
        TxMsgs(b, t)[i] = [idx |-> i - 1, tx |-> t, hash |-> b.txs[t].hash]
  BY DEF TxMsgs
<1> QED
  BY <1>1, <1>3, <1>4

LEMMA MsgsOfTx ==
    ASSUME NEW b \in Blocks, Constructible(b), DistinctHashes(b), NEW t \in 1..Len(b.txs),
           NEW tx, tx.hash = b.txs[t].hash
    PROVE  MsgsOf(tx, WrapMsg(b)) = TxMsgs(b, t)
<1> DEFINE M == MsgSet(b)
           E == {m \in ToSet(WrapMsg(b)) : m.hash = tx.hash}
           F == {m \in M : m.hash = b.txs[t].hash}
           L == TxMsgLists(b)
           U == [u \in 1..Len(b.txs) |-> Keep(TxMsgs(b, u), F)]
<1>0. Len(b.txs) \in Nat /\ Len(b.results) = Len(b.txs)
  BY BlockIs
<1>1. /\ L \in Seq(Seq(M)) /\ Len(L) = Len(b.txs)
      /\ \A u \in 1..Len(b.txs) : L[u] = TxMsgs(b, u)
  <2>1. \A u \in 1..Len(b.txs) : TxMsgs(b, u) \in Seq(M)
    BY TxMsgsIs
  <2>2. L \in [1..Len(b.txs) -> Seq(M)]
    BY <1>0, <2>1 DEF TxMsgLists
  <2>3. \A u \in 1..Len(b.txs) : L[u] = TxMsgs(b, u)
    BY <1>0 DEF TxMsgLists
  <2> HIDE DEF L
  <2> QED
    BY <1>0, <2>2, <2>3
<1>2. WrapMsg(b) = FlattenSeq(L)
  BY DEF WrapMsg, TxMsgLists, TxMsgs
<1>3. FlattenSeq(L) \in Seq(M)
  BY <1>1, FlattenType
<1> HIDE DEF L, M
<1>4. Keep(WrapMsg(b), E) = Keep(WrapMsg(b), F)
  <2>1. ASSUME NEW k \in 1..Len(WrapMsg(b)) PROVE WrapMsg(b)[k] \in E <=> WrapMsg(b)[k] \in F
    <3>1. WrapMsg(b)[k] \in M /\ k \in DOMAIN WrapMsg(b)
      BY <1>2, <1>3
    <3>2. WrapMsg(b)[k] \in ToSet(WrapMsg(b))
      BY <3>1 DEF ToSet
    <3> QED
      BY <3>1, <3>2
  <2> HIDE DEF E, F
  <2> QED
    BY <1>2, <1>3, <2>1, KeepSame
<1>5. ASSUME NEW u \in 1..Len(b.txs)
      PROVE  /\ u = t => Keep(TxMsgs(b, u), F) = TxMsgs(b, u)
             /\ u # t => Keep(TxMsgs(b, u), F) = <<>>
             /\ Keep(TxMsgs(b, u), F) \in Seq(M)
  <2>1. /\ TxMsgs(b, u) \in Seq(M)
        /\ Len(TxMsgs(b, u)) = b.txs[u].msgs
        /\ \A i \in 1..b.txs[u].msgs : TxMsgs(b, u)[i] = [idx |-> i - 1, tx |-> u, hash |-> b.txs[u].hash]
    BY TxMsgsIs DEF M
  <2>2. \A i \in 1..Len(TxMsgs(b, u)) : TxMsgs(b, u)[i] \in M /\ TxMsgs(b, u)[i].hash = b.txs[u].hash
    <3>1. \A i \in 1..Len(TxMsgs(b, u)) : TxMsgs(b, u)[i] \in M
      BY <2>1
    <3>2. ASSUME NEW i \in 1..b.txs[u].msgs PROVE TxMsgs(b, u)[i].hash = b.txs[u].hash
      <4>1. TxMsgs(b, u)[i] = [idx |-> i - 1, tx |-> u, hash |-> b.txs[u].hash]
        BY <2>1
      <4> QED
        BY <4>1
    <3> QED
      BY <2>1, <3>1, <3>2
  <2>3. u = t => \A i \in 1..Len(TxMsgs(b, u)) : TxMsgs(b, u)[i] \in F
    BY <2>2
  <2>4. u # t => \A i \in 1..Len(TxMsgs(b, u)) : TxMsgs(b, u)[i] \notin F
    BY <2>2 DEF DistinctHashes
  <2> HIDE DEF F
  <2> QED
    BY <2>1, <2>3, <2>4, KeepAll, KeepNone, KeepIs
<1>6. /\ U \in Seq(Seq(M)) /\ Len(U) = Len(b.txs)
      /\ \A u \in 1..Len(b.txs) : U[u] = Keep(TxMsgs(b, u), F)
  <2>1. U \in [1..Len(b.txs) -> Seq(M)]
    BY <1>5
  <2>2. \A u \in 1..Len(b.txs) : U[u] = Keep(TxMsgs(b, u), F)
    OBVIOUS
  <2> HIDE DEF U
  <2> QED
    BY <1>0, <2>1, <2>2
<1> HIDE DEF U, F
<1>7. Keep(FlattenSeq(L), F) = FlattenSeq(U)
  <2>1. Len(U) = Len(L) /\ \A u \in 1..Len(L) : U[u] = Keep(L[u], F)
    BY <1>1, <1>6
  <2> QED
    BY <1>1, <1>6, <2>1, KeepFlatten
<1>8. FlattenSeq(U) = U[t]
  <2>1. t \in 1..Len(U) /\ \A u \in 1..Len(U) : u # t => U[u] = <<>>
    BY <1>5, <1>6
  <2> QED
    BY <1>6, <2>1, FlattenSingle
<1>9. U[t] = TxMsgs(b, t)
  BY <1>5, <1>6
<1> QED
  BY <1>2, <1>4, <1>7, <1>8, <1>9 DEF MsgsOf

(* The events the filter leaves, by their sources: those logged for the    *)
(* message of the transaction.                                             *)
Logged(b, t, i) ==
    {s \in TxSource(b) : s.tx = t /\ b.results[s.tx].logs[s.log].msg_index = i}
SourceName(b) == [s \in TxSource(b) |-> Name("event", s.tx, s.log, s.ev)]

LEMMA LogSourcesOf ==
    ASSUME NEW b \in Blocks, NEW t \in 1..Len(b.results)
    PROVE  LogSources(b, t) \in Seq({s \in TxSource(b) : s.tx = t})
<1> DEFINE S == {s \in TxSource(b) : s.tx = t}
<1>1. Len(b.results[t].logs) \in Nat
  BY BlocksAssumption
<1>2. ASSUME NEW l \in 1..Len(b.results[t].logs) PROVE LogEvents(b, t, l) \in Seq(S)
  <2> DEFINE n == b.results[t].logs[l].events
  <2>1. /\ LogEvents(b, t, l) \in Seq(TxSource(b)) /\ Len(LogEvents(b, t, l)) = n
        /\ \A e \in 1..n : LogEvents(b, t, l)[e] = Source("tx", t, l, e)
    BY LogListsType
  <2>2. ASSUME NEW e \in 1..n PROVE LogEvents(b, t, l)[e].tx = t
    <3>1. LogEvents(b, t, l)[e] = Source("tx", t, l, e)
      BY <2>1
    <3> QED
      BY <3>1 DEF Source
  <2>3. \A e \in 1..Len(LogEvents(b, t, l)) : LogEvents(b, t, l)[e] \in S
    BY <2>1, <2>2
  <2> HIDE DEF S, n
  <2> QED
    BY <2>1, <2>3
<1> HIDE DEF S
<1>3. LogLists(b, t) \in Seq(Seq(S))
  <2>1. LogLists(b, t) \in [1..Len(b.results[t].logs) -> Seq(S)]
    BY <1>2 DEF LogLists
  <2> QED
    BY <1>1, <2>1
<1>4. FlattenSeq(LogLists(b, t)) \in Seq(S) /\ <<>> \in Seq(S)
  BY <1>3, FlattenType
<1>5. LogSources(b, t) = IF b.results[t].parsed THEN FlattenSeq(LogLists(b, t)) ELSE <<>>
  BY TxListsType
<1>6. LogSources(b, t) \in Seq(S)
  BY <1>4, <1>5
<1> QED
  BY <1>6 DEF S

(* Within a transaction, log by log.                                       *)
LEMMA LoggedInTx ==
    ASSUME NEW b \in Blocks, Constructible(b), NEW t \in 1..Len(b.txs), NEW i \in Nat
    PROVE  Maps(SourceName(b), Keep(LogSources(b, t), Logged(b, t, i)), EvNames(b, t, i))
<1> DEFINE G == Logged(b, t, i)
           g == SourceName(b)
           S == TxSource(b)
           L == LogLists(b, t)
           n == Len(b.results[t].logs)
           V == [l \in 1..n |-> Keep(LogEvents(b, t, l), G)]
<1>0. n \in Nat /\ t \in 1..Len(b.results)
  BY BlockIs
<1>1. L \in Seq(Seq(S)) /\ Len(L) = n /\ \A l \in 1..n : L[l] = LogEvents(b, t, l)
  BY <1>0, LogListsType
<1>2. EvLists(b, t, i) \in Seq(Seq(NameType)) /\ Len(EvLists(b, t, i)) = n
  BY EvListsIs
<1>3. ASSUME NEW l \in 1..n
      PROVE  /\ Keep(LogEvents(b, t, l), G) \in Seq(S)
             /\ Maps(g, Keep(LogEvents(b, t, l), G), EvLists(b, t, i)[l])
  <2> DEFINE m == b.results[t].logs[l].events
             s == LogEvents(b, t, l)
  <2>1. s \in Seq(S) /\ Len(s) = m /\ \A e \in 1..m : s[e] = Source("tx", t, l, e)
    BY <1>0, LogListsType
  <2>2. /\ LogNames(b, t, l) \in Seq(NameType) /\ Len(LogNames(b, t, l)) = m
        /\ \A e \in 1..m : LogNames(b, t, l)[e] = Name("event", t, l, e)
        /\ b.results[t].logs[l].msg_index = i => EvLists(b, t, i)[l] = LogNames(b, t, l)
        /\ b.results[t].logs[l].msg_index # i => EvLists(b, t, i)[l] = <<>>
    BY EvListsIs
  <2> HIDE DEF s, m
  <2>3. \A e \in 1..Len(s) : s[e] \in S /\ s[e].tx = t /\ s[e].log = l /\ s[e].ev = e
    <3>1. \A e \in 1..Len(s) : s[e] \in S
      BY <2>1
    <3>2. \A e \in 1..m : s[e].tx = t /\ s[e].log = l /\ s[e].ev = e
      BY <2>1 DEF Source
    <3> QED
      BY <2>1, <3>1, <3>2
  <2>4. CASE b.results[t].logs[l].msg_index = i
    <3>1. \A e \in 1..Len(s) : s[e] \in G
      BY <2>3, <2>4 DEF Logged
    <3>2. Keep(s, G) = s
      BY <2>1, <3>1, KeepAll
    <3>3. \A e \in 1..Len(s) : g[s[e]] = Name("event", t, l, e)
      BY <2>3 DEF SourceName
    <3>4. Maps(g, s, LogNames(b, t, l))
      BY <2>1, <2>2, <3>3 DEF Maps
    <3> QED
      BY <2>1, <2>2, <2>4, <3>2, <3>4 DEF s
  <2>5. CASE b.results[t].logs[l].msg_index # i
    <3>1. \A e \in 1..Len(s) : s[e] \notin G
      BY <2>3, <2>5 DEF Logged
    <3>2. Keep(s, G) = <<>>
      BY <2>1, <3>1, KeepNone
    <3>3. Maps(g, <<>>, <<>>) /\ <<>> \in Seq(S)
      BY DEF Maps
    <3> QED
      BY <2>2, <2>5, <3>2, <3>3 DEF s
  <2> QED
    BY <2>4, <2>5
<1>4. /\ V \in Seq(Seq(S)) /\ Len(V) = n
      /\ \A l \in 1..n : V[l] = Keep(LogEvents(b, t, l), G)
  <2>1. V \in [1..n -> Seq(S)]
    BY <1>3
  <2>2. \A l \in 1..n : V[l] = Keep(LogEvents(b, t, l), G)
    OBVIOUS
  <2> HIDE DEF V, n
  <2> QED
    BY <1>0, <2>1, <2>2
<1> HIDE DEF V, n, L, G, g, S
<1>5. Keep(FlattenSeq(L), G) = FlattenSeq(V)
  <2>1. Len(V) = Len(L) /\ \A l \in 1..Len(L) : V[l] = Keep(L[l], G)
    BY <1>1, <1>4
  <2> QED
    BY <1>1, <1>4, <2>1, KeepFlatten
<1>6. Maps(g, FlattenSeq(V), FlattenSeq(EvLists(b, t, i)))
  <2>1. Len(EvLists(b, t, i)) = Len(V) /\ \A l \in 1..Len(V) : Maps(g, V[l], EvLists(b, t, i)[l])
    BY <1>2, <1>3, <1>4
  <2> QED
    BY <1>2, <1>4, <2>1, MapsFlatten
<1>7. /\ b.results[t].parsed => LogSources(b, t) = FlattenSeq(L)
      /\ ~b.results[t].parsed => LogSources(b, t) = <<>>
  BY <1>0, TxListsType DEF L
<1>8. CASE b.results[t].parsed
  BY <1>5, <1>6, <1>7, <1>8 DEF EvNames, G, g
<1>9. CASE ~b.results[t].parsed
  <2>1. Keep(<<>>, G) = <<>> /\ Maps(g, <<>>, <<>>)
    BY KeepEmpty DEF Maps
  <2> QED
    BY <1>7, <1>9, <2>1 DEF EvNames, G, g
<1> QED
  BY <1>8, <1>9

(* Over the whole block: the other transactions leave nothing.             *)
LEMMA LoggedInBlock ==
    ASSUME NEW b \in Blocks, Constructible(b), NEW t \in 1..Len(b.txs), NEW i \in Nat
    PROVE  Maps(SourceName(b), Keep(EventSources(b), Logged(b, t, i)), EvNames(b, t, i))
<1> DEFINE G == Logged(b, t, i)
           S == TxSource(b)
           L == TxLists(b)
           U == [u \in 1..Len(b.txs) |-> Keep(LogSources(b, u), G)]
<1>0. Len(b.txs) \in Nat /\ Len(b.results) = Len(b.txs)
  BY BlockIs
<1>1. /\ L \in Seq(Seq(S)) /\ Len(L) = Len(b.txs)
      /\ \A u \in 1..Len(b.txs) : L[u] = LogSources(b, u) /\ LogSources(b, u) \in Seq(S)
  BY <1>0, TxListsType
<1>2. EventSources(b) = FlattenSeq(L)
  BY EventSourcesType
<1>3. ASSUME NEW u \in 1..Len(b.txs), u # t PROVE Keep(LogSources(b, u), G) = <<>>
  <2> DEFINE R == {s \in S : s.tx = u}
  <2>1. LogSources(b, u) \in Seq(R)
    BY <1>0, LogSourcesOf
  <2>2. \A s \in R : s \notin G
    BY <1>3 DEF Logged
  <2> HIDE DEF R, G
  <2>3. \A k \in 1..Len(LogSources(b, u)) : LogSources(b, u)[k] \notin G
    BY <2>1, <2>2
  <2> QED
    BY <2>1, <2>3, KeepNone
<1>4. /\ U \in Seq(Seq(S)) /\ Len(U) = Len(b.txs)
      /\ \A u \in 1..Len(b.txs) : U[u] = Keep(LogSources(b, u), G)
  <2>1. \A u \in 1..Len(b.txs) : Keep(LogSources(b, u), G) \in Seq(S)
    BY <1>1, KeepIs
  <2>2. U \in [1..Len(b.txs) -> Seq(S)]
    BY <2>1
  <2>3. \A u \in 1..Len(b.txs) : U[u] = Keep(LogSources(b, u), G)
    OBVIOUS
  <2> HIDE DEF U
  <2> QED
    BY <1>0, <2>2, <2>3
<1> HIDE DEF U, L, G, S
<1>5. Keep(FlattenSeq(L), G) = FlattenSeq(U)
  <2>1. Len(U) = Len(L) /\ \A u \in 1..Len(L) : U[u] = Keep(L[u], G)
    BY <1>1, <1>4
  <2> QED
    BY <1>1, <1>4, <2>1, KeepFlatten
<1>6. FlattenSeq(U) = U[t]
  <2>1. t \in 1..Len(U) /\ \A u \in 1..Len(U) : u # t => U[u] = <<>>
    BY <1>3, <1>4
  <2> QED
    BY <1>4, <2>1, FlattenSingle
<1>7. Keep(EventSources(b), G) = Keep(LogSources(b, t), G)
  BY <1>2, <1>4, <1>5, <1>6
<1>8. Maps(SourceName(b), Keep(LogSources(b, t), G), EvNames(b, t, i))
  BY LoggedInTx DEF G
<1> QED
  BY <1>7, <1>8 DEF G

(* An event belongs to a message exactly when its log names it: every      *)
(* transaction was decoded, or the messages had thrown.                    *)
LEMMA EventMsgIs ==
    ASSUME NEW b \in Blocks, Constructible(b), ~WrapMsgThrows(b), NEW s \in TxSource(b),
           NEW i \in 0..(b.txs[s.tx].msgs - 1)
    PROVE  EventMsg(b, s) = i <=> b.results[s.tx].logs[s.log].msg_index = i
<1>1. s.tx \in 1..Len(b.results) /\ s.log \in 1..Len(b.results[s.tx].logs)
  BY DEF TxSource
<1>2. b.results[s.tx].logs[s.log].msg_index \in Nat
  BY <1>1, BlocksAssumption
<1>3. b.txs[s.tx].decodable /\ b.txs[s.tx].msgs \in Nat
  <2>1. b.txs[s.tx].decodable
    BY <1>1 DEF WrapMsgThrows
  <2>2. b.txs[s.tx].msgs \in Nat
    BY <1>1, BlockIs
  <2> QED
    BY <2>1, <2>2
<1> QED
  BY <1>2, <1>3 DEF EventMsg, HasCosmosMsg, NoMsg

LEMMA WrapEventIs ==
    ASSUME NEW b \in Blocks, NEW off \in Nat
    PROVE  /\ WrapEvent(b, off) \in Seq(EventType)
           /\ EventSources(b) \in Seq(TxSource(b))
           /\ Len(EventSources(b)) \in Nat
           /\ Len(WrapEvent(b, off)) = Len(EventSources(b))
           /\ \A k \in 1..Len(EventSources(b)) :
                 /\ WrapEvent(b, off)[k].idx = off + k - 1
                 /\ WrapEvent(b, off)[k].src = EventSources(b)[k]
                 /\ WrapEvent(b, off)[k].msg = EventMsg(b, EventSources(b)[k])
<1> DEFINE srcs == EventSources(b)
           w == WrapEvent(b, off)
<1>1. w \in Seq(EventType)
  BY WrapEventConsecutive DEF Consecutive
<1>2. srcs \in Seq(TxSource(b)) /\ Len(srcs) \in Nat
  BY EventSourcesType
<1>3. w = [k \in 1..Len(srcs) |->
             [idx |-> off + k - 1, src |-> srcs[k], msg |-> EventMsg(b, srcs[k])]]
  BY DEF WrapEvent
<1> HIDE DEF srcs, w
<1>4. Len(w) = Len(srcs)
  BY <1>1, <1>2, <1>3
<1>5. ASSUME NEW k \in 1..Len(srcs)
      PROVE  w[k].idx = off + k - 1 /\ w[k].src = srcs[k] /\ w[k].msg = EventMsg(b, srcs[k])
  <2>1. w[k] = [idx |-> off + k - 1, src |-> srcs[k], msg |-> EventMsg(b, srcs[k])]
    BY <1>3
  <2> QED
    BY <2>1
<1> QED
  BY <1>1, <1>2, <1>4, <1>5 DEF srcs, w

(* The events given with a message of a block whose transactions differ.   *)
LEMMA EventsOfMsg ==
    ASSUME blk \in Blocks, Constructible(blk), DistinctHashes(blk), ~WrapMsgThrows(blk),
           NEW t \in 1..Len(blk.txs), NEW i \in 0..(blk.txs[t].msgs - 1), NEW off \in Nat,
           NEW msg, msg.hash = blk.txs[t].hash, msg.idx = i
    PROVE  /\ EventsOf(msg, WrapEvent(blk, off)) \in Seq(EventType)
           /\ Len(EventsOf(msg, WrapEvent(blk, off))) = Len(EvNames(blk, t, i))
           /\ \A k \in 1..Len(EvNames(blk, t, i)) :
                 NameOf(Item("event", EventsOf(msg, WrapEvent(blk, off))[k])) = EvNames(blk, t, i)[k]
           /\ \A k \in 1..Len(EventsOf(msg, WrapEvent(blk, off))) :
                 \E p \in 1..Len(WrapEvent(blk, off)) :
                    EventsOf(msg, WrapEvent(blk, off))[k] = WrapEvent(blk, off)[p]
<1> DEFINE b == blk
           w == WrapEvent(b, off)
           srcs == EventSources(b)
           E == {e \in ToSet(w) : b.txs[e.src.tx].hash = msg.hash /\ e.msg = msg.idx}
           G == Logged(b, t, i)
           f == [e \in EventType |-> e.src]
<1>1. /\ w \in Seq(EventType) /\ srcs \in Seq(TxSource(b)) /\ Len(srcs) \in Nat /\ Len(w) = Len(srcs)
      /\ \A k \in 1..Len(srcs) : w[k].src = srcs[k] /\ w[k].msg = EventMsg(b, srcs[k])
  BY WrapEventIs
<1>2. EventsOf(msg, w) = Keep(w, E)
  BY DEF EventsOf
<1>3. ASSUME NEW k \in 1..Len(w) PROVE w[k] \in E <=> srcs[k] \in G
  <2> DEFINE s == srcs[k]
  <2>1. /\ w[k].src = s /\ w[k].msg = EventMsg(b, s) /\ s \in TxSource(b)
        /\ k \in DOMAIN w
    BY <1>1
  <2>2. w[k] \in ToSet(w)
    BY <2>1 DEF ToSet
  <2>3. s.tx \in 1..Len(b.txs)
    BY <2>1, BlockIs DEF TxSource
  <2> HIDE DEF s, w
  <2>4. b.txs[s.tx].hash = msg.hash <=> s.tx = t
    BY <2>3 DEF DistinctHashes
  <2>5. s.tx = t => (EventMsg(b, s) = i <=> b.results[s.tx].logs[s.log].msg_index = i)
    BY <2>1, EventMsgIs
  <2>6. w[k] \in E <=> s.tx = t /\ EventMsg(b, s) = i
    BY <2>1, <2>2, <2>4
  <2>7. s \in G <=> s.tx = t /\ b.results[s.tx].logs[s.log].msg_index = i
    BY <2>1 DEF Logged
  <2> QED
    BY <2>5, <2>6, <2>7 DEF s
<1>4. Maps(f, w, srcs)
  <2>1. \A k \in 1..Len(w) : w[k] \in EventType
    BY <1>1
  <2> HIDE DEF w, srcs
  <2> QED
    BY <1>1, <2>1 DEF Maps
<1> HIDE DEF E, G, f, w, srcs
<1>5. Maps(f, Keep(w, E), Keep(srcs, G))
  BY <1>1, <1>3, <1>4, KeepMaps
<1>6. Maps(SourceName(b), Keep(srcs, G), EvNames(b, t, i))
  <2>1. i \in Nat
    OBVIOUS
  <2> QED
    BY <2>1, LoggedInBlock DEF srcs, G
<1>7. Keep(w, E) \in Seq(EventType) /\ Keep(srcs, G) \in Seq(TxSource(b))
  BY <1>1, KeepIs
<1>8. Len(Keep(srcs, G)) = Len(Keep(w, E)) /\ Len(EvNames(b, t, i)) = Len(Keep(w, E))
  BY <1>5, <1>6 DEF Maps
<1>9. ASSUME NEW k \in 1..Len(Keep(w, E))
      PROVE  NameOf(Item("event", Keep(w, E)[k])) = EvNames(b, t, i)[k]
  <2> DEFINE e == Keep(w, E)[k]
             s == Keep(srcs, G)[k]
  <2>1. e \in EventType /\ s \in TxSource(b) /\ s = f[e] /\ EvNames(b, t, i)[k] = SourceName(b)[s]
    BY <1>5, <1>6, <1>7, <1>8 DEF Maps
  <2> HIDE DEF e, s
  <2>2. e.src = s /\ s.at = "tx"
    BY <2>1 DEF f, TxSource
  <2>3. NameOf(Item("event", e)) = Name("event", s.tx, s.log, s.ev)
    BY <2>2 DEF NameOf, Item
  <2>4. SourceName(b)[s] = Name("event", s.tx, s.log, s.ev)
    BY <2>1 DEF SourceName
  <2> QED
    BY <2>1, <2>3, <2>4 DEF e
<1>10. \A k \in 1..Len(Keep(w, E)) : \E p \in 1..Len(w) : Keep(w, E)[k] = w[p]
  BY <1>1, KeepFrom
<1> QED
  BY <1>2, <1>7, <1>8, <1>9, <1>10 DEF w

-----------------------------------------------------------------------------
(* How far the loops have come, and that the names of what was walked are  *)
(* the names the chain order has up to there.                              *)
NamesOf(w) == [k \in 1..Len(w) |-> NameOf(w[k])]

(* s is what a loop over list has still to visit; the events s are those   *)
(* that bear the last of the names.                                        *)
EndOf(s, list) ==
    /\ Len(s) <= Len(list)
    /\ \A k \in 1..Len(s) : s[k] = list[Len(list) - Len(s) + k]
Spells(s, names) ==
    /\ Len(s) <= Len(names)
    /\ \A k \in 1..Len(s) : NameOf(Item("event", s[k])) = names[Len(names) - Len(s) + k]

TxSet(b) == [idx : Nat, hash : Hashes(b)]

TodoOK ==
    /\ \A l \in {"begin", "events", "end"} : todo[l] \in Seq(EventType)
    /\ todo["txs"] \in Seq(TxSet(blk))
    /\ todo["msgs"] \in Seq(MsgSet(blk))

TxAt == Len(blk.txs) - Len(todo["txs"])
MsgAt == blk.txs[TxAt].msgs - Len(todo["msgs"])

AtBegin ==
    /\ Spells(todo["begin"], Names("begin", blk.begin))
    /\ item.kind \in {"none", "event"}
    /\ NamesOf(Walked) = AfterBegin(blk, blk.begin - Len(todo["begin"]))

AtTxs ==
    /\ EndOf(todo["txs"], WrapTx(blk))
    /\ \/ item = NoItem /\ NamesOf(Walked) = AfterTxs(blk, TxAt)
       \/ /\ TxAt \in 1..Len(blk.txs)
          /\ item = Item("tx", WrapTx(blk)[TxAt])
          /\ NamesOf(Walked) = InTx(blk, TxAt)

InMsgs ==
    /\ EndOf(todo["txs"], WrapTx(blk))
    /\ TxAt \in 1..Len(blk.txs)
    /\ ~WrapMsgThrows(blk)
    /\ EndOf(todo["msgs"], TxMsgs(blk, TxAt))

AtMsgs ==
    /\ InMsgs
    /\ \/ item = NoItem /\ NamesOf(Walked) = AfterMsgs(blk, TxAt, MsgAt)
       \/ /\ MsgAt \in 1..blk.txs[TxAt].msgs
          /\ item = Item("msg", TxMsgs(blk, TxAt)[MsgAt])
          /\ NamesOf(Walked) = InMsg(blk, TxAt, MsgAt)

AtEvents ==
    /\ InMsgs
    /\ MsgAt \in 1..blk.txs[TxAt].msgs
    /\ Spells(todo["events"], EvNames(blk, TxAt, MsgAt - 1))
    /\ item.kind \in {"none", "event"}
    /\ NamesOf(Walked) = AfterEvents(blk, TxAt, MsgAt,
                             Len(EvNames(blk, TxAt, MsgAt - 1)) - Len(todo["events"]))

AtEnd ==
    /\ Spells(todo["end"], Names("end", blk.end))
    /\ item.kind \in {"none", "event"}
    /\ NamesOf(Walked) = AfterEnd(blk, blk.end - Len(todo["end"]))

OrderInv ==
    DistinctHashes(blk) =>
        /\ TodoOK
        /\ stage = "start" => NamesOf(Walked) = <<>>
        /\ stage = "block" => item.kind = "block" /\ NamesOf(Walked) = BlockNames
        /\ stage = "begin" => AtBegin
        /\ stage = "txs" => AtTxs
        /\ stage = "msgs" => AtMsgs
        /\ stage = "events" => AtEvents
        /\ stage = "end" => AtEnd
        /\ stage = "done" => item = NoItem /\ NamesOf(Walked) = ChainOrder(blk)

(* The lists of events are read in the order of the block: an event of an  *)
(* earlier list has a smaller idx than one of a later list.                *)
AllBefore(g, h) ==
    \A i \in 1..Len(memo[g]), j \in 1..Len(memo[h]) : memo[g][i].idx < memo[h][j].idx

ListInv ==
    /\ stage \in {"start", "block"} => wrapped \cap EventGetters = {}
    /\ "endBlockEvents" \in wrapped => stage \in {"end", "done", "failed"}
    /\ AllBefore("beginBlockEvents", "events")
    /\ AllBefore("beginBlockEvents", "endBlockEvents")
    /\ AllBefore("events", "endBlockEvents")

(* An event that is or was visited is one of the lists.                    *)
ListedIn(m, e) == \E g \in EventGetters : \E p \in 1..Len(m[g]) : e = m[g][p]
EventsListed(m, s) == \A k \in 1..Len(s) : ListedIn(m, s[k])
WalkListed(m, w) == \A k \in 1..Len(w) : w[k].kind = "event" => ListedIn(m, w[k].obj)

ListedInv ==
    DistinctHashes(blk) /\ stage # "failed" =>
        /\ \A l \in {"begin", "events", "end"} : EventsListed(memo, todo[l])
        /\ WalkListed(memo, Walked)

(* What the proofs about the order rest on.                                *)
Base ==
    /\ TypeOK /\ IInv /\ ContentInv
    /\ WalkInv /\ SeenShape /\ FollowInv

LEMMA BaseBlock ==
    ASSUME Base
    PROVE  /\ blk \in Blocks /\ Constructible(blk) /\ Loops = DOMAIN todo
           /\ \E S : Walked \in Seq(S)
<1>1. blk \in Blocks /\ Constructible(blk) /\ Loops = DOMAIN todo
  BY DEF Base, TypeOK, ContentInv, WalkInv
<1>2. PICK S : seen[1] \in Seq(S)
  BY DsAssumption DEF Base, SeenShape
<1>3. seen[1] \in Seq(S \cup {item})
  BY <1>2
<1>4. Walked \in Seq(S \cup {item})
  BY <1>3 DEF Walked
<1> QED
  BY <1>1, <1>4

(* How the walk moves on.                                                  *)
LEMMA WalkedGive ==
    ASSUME WalkInv, IndexData \/ IndexDataCreatesDs
    PROVE  Walked' = Walked
<1>1. /\ item # NoItem /\ item' = item
      /\ dsAt \in 1..Len(dss) /\ dsAt' = dsAt + 1 /\ dss[dsAt] = dsAt /\ Len(dss) <= MaxDs
      /\ Len(dss) \in Nat /\ MaxDs \in Nat
  BY DsAssumption DEF IndexData, IndexDataCreatesDs, Give, Indexing, WalkInv
<1>2. seen' = [seen EXCEPT ![dsAt] = Append(seen[dsAt], item)]
  BY <1>1 DEF IndexData, IndexDataCreatesDs, Give
<1>3. DOMAIN seen = 1..MaxDs /\ dsAt \in 1..MaxDs
  BY <1>1 DEF WalkInv
<1>4. CASE dsAt = 1
  BY <1>1, <1>2, <1>3, <1>4 DEF Walked
<1>5. CASE dsAt # 1
  <2>1. seen'[1] = seen[1]
    BY <1>2, <1>3, <1>5
  <2> QED
    BY <1>1, <1>5, <2>1 DEF Walked
<1> QED
  BY <1>4, <1>5

LEMMA WalkedPause ==
    ASSUME Base, stage # "failed", AllGiven, item' = NoItem, seen' = seen
    PROVE  Walked' = Walked
<1>1. Walked = seen[1]
  BY AllGivenFollow DEF Base
<1> QED
  BY <1>1 DEF Walked

LEMMA WalkedVisit ==
    ASSUME Base, stage # "failed", AllGiven, item' # NoItem, dsAt' = 1, seen' = seen
    PROVE  Walked' = Append(Walked, item')
<1>1. Walked = seen[1]
  BY AllGivenFollow DEF Base
<1> QED
  BY <1>1 DEF Walked

LEMMA NamesAppend ==
    ASSUME NEW S, NEW w \in Seq(S), NEW x, NEW n \in Seq(NameType), NamesOf(w) = n,
           NameOf(x) \in NameType
    PROVE  NamesOf(Append(w, x)) = Cat(n, <<NameOf(x)>>)
<1> DEFINE v == Append(w, x)
           y == <<NameOf(x)>>
<1>1. Len(w) \in Nat /\ Len(n) = Len(w) /\ \A k \in 1..Len(w) : n[k] = NameOf(w[k])
  BY DEF NamesOf
<1>2. Len(v) = Len(w) + 1 /\ v[Len(w) + 1] = x /\ \A k \in 1..Len(w) : v[k] = w[k]
  <2>1. w \in Seq(S \cup {x}) /\ x \in S \cup {x}
    OBVIOUS
  <2> QED
    BY <2>1
<1>3. y \in Seq(NameType) /\ Len(y) = 1 /\ y[1] = NameOf(x)
  OBVIOUS
<1>4. y \in Seq(NameType)
  BY <1>3
<1> HIDE DEF v, y
<1>5. /\ Cat(n, y) \in Seq(NameType)
      /\ Len(n) \in Nat /\ Len(y) \in Nat /\ Len(Cat(n, y)) = Len(n) + Len(y)
      /\ \A k \in 1..Len(n) : Cat(n, y)[k] = n[k]
      /\ \A k \in 1..(Len(n) + Len(y)) : k > Len(n) =>
            k - Len(n) \in 1..Len(y) /\ Cat(n, y)[k] = y[k - Len(n)]
  BY <1>4, CatIs
<1>6. ASSUME NEW k \in 1..(Len(w) + 1) PROVE Cat(n, y)[k] = NameOf(v[k])
  <2>1. CASE k \in 1..Len(w)
    BY <1>1, <1>2, <1>5, <2>1
  <2>2. CASE k = Len(w) + 1
    <3>1. k \in 1..(Len(n) + Len(y)) /\ k > Len(n) /\ k - Len(n) = 1
      BY <1>1, <1>3, <2>2
    <3>2. Cat(n, y)[k] = y[k - Len(n)]
      BY <1>5, <3>1
    <3> QED
      BY <1>2, <1>3, <2>2, <3>1, <3>2
  <2> QED
    BY <1>1, <2>1, <2>2
<1>7. Len(Cat(n, y)) = Len(w) + 1
  BY <1>1, <1>3, <1>5
<1>8. Cat(n, y) = [k \in 1..(Len(w) + 1) |-> NameOf(v[k])]
  <2>1. Cat(n, y) \in Seq(NameType)
    BY <1>5
  <2>2. Cat(n, y) = [k \in 1..Len(Cat(n, y)) |-> Cat(n, y)[k]]
    BY <2>1
  <2>3. [k \in 1..(Len(w) + 1) |-> Cat(n, y)[k]] = [k \in 1..(Len(w) + 1) |-> NameOf(v[k])]
    BY <1>6
  <2> QED
    BY <1>7, <2>2, <2>3
<1> QED
  BY <1>2, <1>8 DEF NamesOf, v, y

(* The next element of a loop.                                             *)
LEMMA SpellsNext ==
    ASSUME NEW s \in Seq(EventType), s # <<>>, NEW L \in Seq(NameType), Spells(s, L)
    PROVE  /\ Tail(s) \in Seq(EventType) /\ Head(s) \in EventType /\ Spells(Tail(s), L)
           /\ Len(L) - Len(s) \in Nat /\ (Len(L) - Len(s)) + 1 <= Len(L)
           /\ Len(L) - Len(Tail(s)) = (Len(L) - Len(s)) + 1
           /\ NameOf(Item("event", Head(s))) = L[(Len(L) - Len(s)) + 1]
           /\ L[(Len(L) - Len(s)) + 1] \in NameType
<1>1. /\ Len(s) \in Nat /\ Len(s) >= 1 /\ Len(L) \in Nat /\ Len(s) <= Len(L)
      /\ \A k \in 1..Len(s) : NameOf(Item("event", s[k])) = L[Len(L) - Len(s) + k]
  BY DEF Spells
<1>2. /\ Tail(s) \in Seq(EventType) /\ Head(s) \in EventType /\ Head(s) = s[1]
      /\ Len(Tail(s)) = Len(s) - 1
      /\ \A k \in 1..(Len(s) - 1) : Tail(s)[k] = s[k + 1]
  BY <1>1
<1>3. ASSUME NEW k \in 1..Len(Tail(s))
      PROVE  NameOf(Item("event", Tail(s)[k])) = L[Len(L) - Len(Tail(s)) + k]
  <2>1. /\ k + 1 \in 1..Len(s) /\ Tail(s)[k] = s[k + 1]
        /\ Len(L) - Len(Tail(s)) + k = Len(L) - Len(s) + (k + 1)
    BY <1>1, <1>2
  <2>2. NameOf(Item("event", s[k + 1])) = L[Len(L) - Len(s) + (k + 1)]
    BY <1>1, <2>1
  <2> QED
    BY <2>1, <2>2
<1>4. Spells(Tail(s), L)
  BY <1>1, <1>2, <1>3 DEF Spells
<1>5. NameOf(Item("event", s[1])) = L[Len(L) - Len(s) + 1] /\ Len(L) - Len(s) + 1 \in 1..Len(L)
  BY <1>1
<1>6. L[Len(L) - Len(s) + 1] \in NameType
  BY <1>5
<1> QED
  BY <1>1, <1>2, <1>4, <1>5, <1>6

LEMMA EndOfNext ==
    ASSUME NEW S, NEW s \in Seq(S), s # <<>>, NEW L \in Seq(S), EndOf(s, L)
    PROVE  /\ Tail(s) \in Seq(S) /\ EndOf(Tail(s), L)
           /\ Len(L) - Len(s) \in Nat /\ (Len(L) - Len(s)) + 1 <= Len(L)
           /\ Len(L) - Len(Tail(s)) = (Len(L) - Len(s)) + 1
           /\ Head(s) = L[(Len(L) - Len(s)) + 1]
<1>1. /\ Len(s) \in Nat /\ Len(s) >= 1 /\ Len(L) \in Nat /\ Len(s) <= Len(L)
      /\ \A k \in 1..Len(s) : s[k] = L[Len(L) - Len(s) + k]
  BY DEF EndOf
<1>2. /\ Tail(s) \in Seq(S) /\ Head(s) = s[1]
      /\ Len(Tail(s)) = Len(s) - 1
      /\ \A k \in 1..(Len(s) - 1) : Tail(s)[k] = s[k + 1]
  BY <1>1
<1>3. ASSUME NEW k \in 1..Len(Tail(s)) PROVE Tail(s)[k] = L[Len(L) - Len(Tail(s)) + k]
  <2>1. /\ k + 1 \in 1..Len(s) /\ Tail(s)[k] = s[k + 1]
        /\ Len(L) - Len(Tail(s)) + k = Len(L) - Len(s) + (k + 1)
    BY <1>1, <1>2
  <2>2. s[k + 1] = L[Len(L) - Len(s) + (k + 1)]
    BY <1>1, <2>1
  <2> QED
    BY <2>1, <2>2
<1>4. EndOf(Tail(s), L)
  BY <1>1, <1>2, <1>3 DEF EndOf
<1>5. s[1] = L[Len(L) - Len(s) + 1]
  BY <1>1
<1> QED
  BY <1>1, <1>2, <1>4, <1>5

LEMMA VisitNames ==
    ASSUME Base, stage # "failed", AllGiven, item' # NoItem, dsAt' = 1, seen' = seen,
           NEW n \in Seq(NameType), NamesOf(Walked) = n, NameOf(item') \in NameType
    PROVE  NamesOf(Walked') = Cat(n, <<NameOf(item')>>)
<1>1. Walked' = Append(Walked, item')
  BY WalkedVisit
<1>2. PICK S : Walked \in Seq(S)
  BY BaseBlock
<1>3. NamesOf(Append(Walked, item')) = Cat(n, <<NameOf(item')>>)
  BY <1>2, NamesAppend
<1> QED
  BY <1>1, <1>3

LEMMA ReadyAllGiven ==
    ASSUME NEW l \in Loops, Ready(l)
    PROVE  stage = l /\ stage # "failed" /\ AllGiven
BY DEF Ready, Indexed, AllGiven, Loops

(* A loop over events visits the event that bears the next name.           *)
LEMMA EventVisit ==
    ASSUME Base, NEW l \in Loops, Step(l, "event"), todo[l] \in Seq(EventType),
           NEW X \in Seq(NameType), NEW L \in Seq(NameType), Spells(todo[l], L),
           NamesOf(Walked) = Upto(X, L, Len(L) - Len(todo[l]))
    PROVE  /\ todo'[l] \in Seq(EventType) /\ Spells(todo'[l], L)
           /\ NamesOf(Walked') = Upto(X, L, Len(L) - Len(todo'[l]))
           /\ item'.kind = "event" /\ stage' = stage /\ blk' = blk
           /\ \A m \in Loops : m # l => todo'[m] = todo[m]
<1> DEFINE s == todo[l]
           n == Len(L) - Len(s)
<1>1. /\ Ready(l) /\ s # <<>> /\ item' = Item("event", Head(s)) /\ dsAt' = 1
      /\ todo' = [todo EXCEPT ![l] = Tail(s)] /\ blk' = blk /\ stage' = stage /\ seen' = seen
  BY DEF Step, Visit, vars
<1>2. todo'[l] = Tail(s) /\ \A m \in Loops : m # l => todo'[m] = todo[m]
  BY <1>1, BaseBlock
<1>3. /\ Tail(s) \in Seq(EventType) /\ Head(s) \in EventType /\ Spells(Tail(s), L)
      /\ Len(L) - Len(s) \in Nat /\ (Len(L) - Len(s)) + 1 <= Len(L)
      /\ Len(L) - Len(Tail(s)) = (Len(L) - Len(s)) + 1
      /\ NameOf(Item("event", Head(s))) = L[(Len(L) - Len(s)) + 1]
      /\ L[(Len(L) - Len(s)) + 1] \in NameType
  BY <1>1, SpellsNext
<1>4. item' # NoItem /\ item'.kind = "event"
  BY <1>1 DEF Item, NoItem
<1>5. stage # "failed" /\ AllGiven
  BY <1>1, ReadyAllGiven
<1>6. Upto(X, L, n) \in Seq(NameType)
  <2>1. n \in 0..Len(L)
    BY <1>3
  <2> QED
    BY <2>1, UptoPrefix
<1>7. NameOf(item') = L[n + 1] /\ NameOf(item') \in NameType
  BY <1>1, <1>3
<1>8. NamesOf(Walked') = Cat(Upto(X, L, n), <<NameOf(item')>>)
  BY <1>1, <1>4, <1>5, <1>6, <1>7, VisitNames
<1>9. Upto(X, L, n + 1) = Cat(Upto(X, L, n), <<L[n + 1]>>)
  BY <1>3, UptoNext
<1>10. NamesOf(Walked') = Upto(X, L, n + 1)
  BY <1>7, <1>8, <1>9
<1> QED
  BY <1>1, <1>2, <1>3, <1>4, <1>10

LEMMA StartOrder ==
    ASSUME Base, OrderInv, DistinctHashes(blk), StartBlock
    PROVE  OrderInv'
<1>1. /\ stage = "start" /\ stage' = "block" /\ blk' = blk /\ todo' = todo /\ seen' = seen
      /\ item' = Item("block", [idx |-> 0]) /\ dsAt' = 1
  BY DEF StartBlock, GetBlock, Visit
<1>2. item' # NoItem /\ item'.kind = "block" /\ NameOf(item') = Name("block", 0, 0, 0)
  BY <1>1 DEF Item, NoItem, NameOf
<1>3. AllGiven /\ stage # "failed"
  BY <1>1 DEF AllGiven, Base, FollowInv
<1>4. NamesOf(Walked) = <<>> /\ <<>> \in Seq(NameType) /\ Name("block", 0, 0, 0) \in NameType
  BY <1>1, NameIsName DEF OrderInv
<1>5. NamesOf(Walked') = Cat(<<>>, <<NameOf(item')>>)
  BY <1>1, <1>2, <1>3, <1>4, VisitNames
<1>6. Cat(<<>>, BlockNames) = BlockNames
  BY BaseBlock, BeginPart, CatEmpty
<1>7. NamesOf(Walked') = BlockNames
  BY <1>2, <1>5, <1>6 DEF BlockNames
<1> QED
  BY <1>1, <1>2, <1>7 DEF OrderInv, TodoOK

LEMMA NextBeginOrder ==
    ASSUME Base, OrderInv, DistinctHashes(blk), NextBegin
    PROVE  OrderInv'
<1> DEFINE L == Names("begin", blk.begin)
<1>1. stage = "begin" /\ Step("begin", "event") /\ "begin" \in Loops
  BY DEF NextBegin, Step, Ready, Loops
<1>2. TodoOK /\ AtBegin
  BY <1>1 DEF OrderInv
<1>3. L \in Seq(NameType) /\ Len(L) = blk.begin /\ BlockNames \in Seq(NameType)
  BY BaseBlock, BlockIs, NamesIs, BeginPart
<1>4. NamesOf(Walked) = Upto(BlockNames, L, Len(L) - Len(todo["begin"]))
  BY <1>2, <1>3 DEF AtBegin, AfterBegin
<1>5. /\ todo'["begin"] \in Seq(EventType) /\ Spells(todo'["begin"], L)
      /\ NamesOf(Walked') = Upto(BlockNames, L, Len(L) - Len(todo'["begin"]))
      /\ item'.kind = "event" /\ stage' = stage /\ blk' = blk
      /\ \A m \in Loops : m # "begin" => todo'[m] = todo[m]
  BY <1>1, <1>2, <1>3, <1>4, EventVisit DEF TodoOK, AtBegin
<1>6. TodoOK'
  BY <1>2, <1>5 DEF TodoOK, Loops, TxSet, MsgSet, Hashes
<1>7. AtBegin'
  BY <1>3, <1>5 DEF AtBegin, AfterBegin
<1> QED
  BY <1>1, <1>5, <1>6, <1>7 DEF OrderInv

LEMMA NextEndOrder ==
    ASSUME Base, OrderInv, DistinctHashes(blk), NextEnd
    PROVE  OrderInv'
<1> DEFINE L == Names("end", blk.end)
           X == AfterTxs(blk, Len(blk.txs))
<1>1. stage = "end" /\ Step("end", "event") /\ "end" \in Loops
  BY DEF NextEnd, Step, Ready, Loops
<1>2. TodoOK /\ AtEnd
  BY <1>1 DEF OrderInv
<1>3. L \in Seq(NameType) /\ Len(L) = blk.end /\ X \in Seq(NameType)
  <2>1. L \in Seq(NameType) /\ Len(L) = blk.end
    BY BaseBlock, BlockIs, NamesIs
  <2>2. Len(blk.txs) \in 0..Len(blk.txs)
    BY BaseBlock, BlockIs
  <2>3. X \in Seq(NameType)
    BY <2>2, BaseBlock, TxsPart
  <2> QED
    BY <2>1, <2>3
<1>4. NamesOf(Walked) = Upto(X, L, Len(L) - Len(todo["end"]))
  BY <1>2, <1>3 DEF AtEnd, AfterEnd
<1> HIDE DEF X
<1>5. /\ todo'["end"] \in Seq(EventType) /\ Spells(todo'["end"], L)
      /\ NamesOf(Walked') = Upto(X, L, Len(L) - Len(todo'["end"]))
      /\ item'.kind = "event" /\ stage' = stage /\ blk' = blk
      /\ \A m \in Loops : m # "end" => todo'[m] = todo[m]
  BY <1>1, <1>2, <1>3, <1>4, EventVisit DEF TodoOK, AtEnd
<1>6. TodoOK'
  BY <1>2, <1>5 DEF TodoOK, Loops, TxSet, MsgSet, Hashes
<1>7. AtEnd'
  BY <1>3, <1>5 DEF AtEnd, AfterEnd, X
<1> QED
  BY <1>1, <1>5, <1>6, <1>7 DEF OrderInv

(* A loop is entered: what its list names, and where the walk stands.      *)
LEMMA EnterIs ==
    ASSUME Base, NEW l \in Loops, NEW list, Enter(l, list), stage # "failed", AllGiven
    PROVE  /\ stage' = l /\ todo'[l] = list /\ item' = NoItem /\ Walked' = Walked
           /\ item'.kind = "none" /\ \A m \in Loops : m # l => todo'[m] = todo[m]
<1>1. /\ stage' = l /\ todo' = [todo EXCEPT ![l] = list] /\ item' = NoItem /\ seen' = seen
  BY DEF Enter
<1>2. Walked' = Walked
  BY <1>1, WalkedPause
<1>3. todo'[l] = list /\ \A m \in Loops : m # l => todo'[m] = todo[m]
  BY <1>1, BaseBlock
<1> QED
  BY <1>1, <1>2, <1>3 DEF NoItem, Item

LEMMA LeaveIs ==
    ASSUME Base, NEW l, Leave(l), stage # "failed", AllGiven
    PROVE  /\ stage' = l /\ todo' = todo /\ item' = NoItem /\ Walked' = Walked /\ blk' = blk
           /\ item'.kind = "none"
<1>1. stage' = l /\ todo' = todo /\ item' = NoItem /\ seen' = seen /\ blk' = blk
  BY DEF Leave, vars
<1>2. Walked' = Walked
  BY <1>1, WalkedPause
<1> QED
  BY <1>1, <1>2 DEF NoItem, Item

(* The begin and end block events bear their names.                        *)
LEMMA BeginEndSpelled ==
    ASSUME NEW at \in {"begin", "end"}, NEW n \in Nat, NEW off \in Nat
    PROVE  /\ WrapBlockBeginAndEndEvents(at, n, off) \in Seq(EventType)
           /\ Len(WrapBlockBeginAndEndEvents(at, n, off)) = n
           /\ Spells(WrapBlockBeginAndEndEvents(at, n, off), Names(at, n))
           /\ \A i \in 1..n : WrapBlockBeginAndEndEvents(at, n, off)[i]
                                 = [idx |-> off + i - 1, src |-> Source(at, 0, 0, i), msg |-> NoMsg]
<1> DEFINE w == WrapBlockBeginAndEndEvents(at, n, off)
<1>1. w = [i \in 1..n |-> [idx |-> off + i - 1, src |-> Source(at, 0, 0, i), msg |-> NoMsg]]
  BY DEF WrapBlockBeginAndEndEvents
<1>2. w \in Seq(EventType)
  BY WrapBeginEndConsecutive DEF Consecutive
<1> HIDE DEF w
<1>3. Len(w) = n
  BY <1>1, <1>2
<1>4. Len(Names(at, n)) = n /\ \A e \in 1..n : Names(at, n)[e] = Name(at, 0, 0, e)
  BY NamesIs
<1>5. ASSUME NEW k \in 1..n PROVE NameOf(Item("event", w[k])) = Names(at, n)[k]
  <2>1. w[k] = [idx |-> off + k - 1, src |-> Source(at, 0, 0, k), msg |-> NoMsg]
    BY <1>1
  <2>2. w[k].src = Source(at, 0, 0, k)
    BY <2>1
  <2>3. w[k].src.at = at /\ w[k].src.ev = k /\ at # "tx"
    BY <2>2 DEF Source
  <2>4. NameOf(Item("event", w[k])) = Name(at, 0, 0, k)
    BY <2>3 DEF NameOf, Item
  <2> QED
    BY <1>4, <2>4
<1>6. \A k \in 1..n : n - n + k = k
  OBVIOUS
<1>7. Spells(w, Names(at, n))
  BY <1>3, <1>4, <1>5, <1>6 DEF Spells
<1> QED
  BY <1>1, <1>2, <1>3, <1>7 DEF w

LEMMA EnterBeginOrder ==
    ASSUME Base, ContentInv', OrderInv, DistinctHashes(blk), EnterBegin
    PROVE  OrderInv'
<1> DEFINE list == memo'["beginBlockEvents"]
<1>0. "begin" \in Loops
  BY DEF Loops
<1>1. /\ stage = "block" /\ stage # "failed" /\ AllGiven /\ blk' = blk
      /\ Enter("begin", list) /\ "beginBlockEvents" \in wrapped'
  BY DEF EnterBegin, Indexed, AllGiven, GetBeginBlockEvents, Fill, Unset
<1>2. TodoOK /\ NamesOf(Walked) = BlockNames
  BY <1>1 DEF OrderInv
<1>3. PICK off \in Nat : list = WrapBlockBeginAndEndEvents("begin", blk.begin, off)
  BY <1>1 DEF ContentInv
<1>4. blk.begin \in Nat /\ AfterBegin(blk, 0) = BlockNames
  BY BaseBlock, BlockIs, BeginPart
<1>5. list \in Seq(EventType) /\ Len(list) = blk.begin /\ Spells(list, Names("begin", blk.begin))
  <2> DEFINE w == WrapBlockBeginAndEndEvents("begin", blk.begin, off)
  <2>1. w \in Seq(EventType) /\ Len(w) = blk.begin /\ Spells(w, Names("begin", blk.begin))
    <3>1. blk.begin \in Nat
      BY <1>4
    <3> QED
      BY <3>1, BeginEndSpelled
  <2> QED
    BY <1>3, <2>1
<1> HIDE DEF list
<1>6. /\ stage' = "begin" /\ todo'["begin"] = list /\ Walked' = Walked /\ item'.kind = "none"
      /\ \A m \in Loops : m # "begin" => todo'[m] = todo[m]
  BY <1>0, <1>1, EnterIs
<1>7. TodoOK'
  BY <1>1, <1>2, <1>5, <1>6 DEF TodoOK, Loops, TxSet, MsgSet, Hashes
<1>8. blk.begin - Len(list) = 0
  BY <1>4, <1>5
<1>9. AtBegin'
  BY <1>1, <1>2, <1>4, <1>5, <1>6, <1>8 DEF AtBegin
<1> QED
  BY <1>6, <1>7, <1>9 DEF OrderInv

LEMMA EnterEndOrder ==
    ASSUME Base, ContentInv', OrderInv, DistinctHashes(blk), EnterEnd
    PROVE  OrderInv'
<1> DEFINE list == memo'["endBlockEvents"]
<1>0. "end" \in Loops /\ "txs" \in Loops
  BY DEF Loops
<1>1. /\ Ready("txs") /\ todo["txs"] = <<>> /\ blk' = blk
      /\ Enter("end", list) /\ "endBlockEvents" \in wrapped'
  BY DEF EnterEnd, Exhausted, GetEndBlockEvents, Fill, Unset
<1>2. stage = "txs" /\ stage # "failed" /\ AllGiven
  BY <1>0, <1>1, ReadyAllGiven
<1>3. TodoOK /\ AtTxs
  BY <1>2 DEF OrderInv
<1>4. PICK off \in Nat : list = WrapBlockBeginAndEndEvents("end", blk.end, off)
  BY <1>1 DEF ContentInv
<1>5. blk.end \in Nat /\ Len(blk.txs) \in Nat /\ AfterEnd(blk, 0) = AfterTxs(blk, Len(blk.txs))
  BY BaseBlock, BlockIs, EndPart
<1>6. list \in Seq(EventType) /\ Len(list) = blk.end /\ Spells(list, Names("end", blk.end))
  <2> DEFINE w == WrapBlockBeginAndEndEvents("end", blk.end, off)
  <2>1. w \in Seq(EventType) /\ Len(w) = blk.end /\ Spells(w, Names("end", blk.end))
    <3>1. blk.end \in Nat
      BY <1>5
    <3> QED
      BY <3>1, BeginEndSpelled
  <2> QED
    BY <1>4, <2>1
<1>7. NamesOf(Walked) = AfterTxs(blk, Len(blk.txs))
  <2>1. TxAt = Len(blk.txs)
    BY <1>1, <1>5 DEF TxAt
  <2>2. item = NoItem \/ item.kind = "event"
    BY <1>1 DEF Ready, Indexed
  <2>3. ~(item = Item("tx", WrapTx(blk)[TxAt]))
    BY <2>2 DEF Item, NoItem
  <2> QED
    BY <1>3, <2>1, <2>3 DEF AtTxs
<1> HIDE DEF list
<1>8. /\ stage' = "end" /\ todo'["end"] = list /\ Walked' = Walked /\ item'.kind = "none"
      /\ \A m \in Loops : m # "end" => todo'[m] = todo[m]
  BY <1>0, <1>1, <1>2, EnterIs
<1>9. TodoOK'
  BY <1>1, <1>3, <1>6, <1>8 DEF TodoOK, Loops, TxSet, MsgSet, Hashes
<1>10. blk.end - Len(list) = 0
  BY <1>5, <1>6
<1>11. AtEnd'
  BY <1>1, <1>5, <1>6, <1>7, <1>8, <1>10 DEF AtEnd
<1> QED
  BY <1>8, <1>9, <1>11 DEF OrderInv

LEMMA WrapTxIs ==
    ASSUME NEW b \in Blocks, Constructible(b)
    PROVE  /\ WrapTx(b) \in Seq(TxSet(b)) /\ Len(WrapTx(b)) = Len(b.txs)
           /\ \A t \in 1..Len(b.txs) : WrapTx(b)[t] = [idx |-> t - 1, hash |-> b.txs[t].hash]
<1>1. Len(b.txs) \in Nat /\ Len(b.results) = Len(b.txs)
  BY BlockIs
<1>2. ASSUME NEW t \in 1..Len(b.txs) PROVE [idx |-> t - 1, hash |-> b.txs[t].hash] \in TxSet(b)
  <2>1. t - 1 \in Nat /\ b.txs[t].hash \in Hashes(b)
    BY <1>1 DEF Hashes
  <2> QED
    BY <2>1 DEF TxSet
<1>3. WrapTx(b) \in [1..Len(b.txs) -> TxSet(b)]
  BY <1>1, <1>2 DEF WrapTx
<1>4. \A t \in 1..Len(b.txs) : WrapTx(b)[t] = [idx |-> t - 1, hash |-> b.txs[t].hash]
  BY <1>1 DEF WrapTx
<1> QED
  BY <1>1, <1>3, <1>4

LEMMA WholeIsEnd ==
    ASSUME NEW S, NEW s \in Seq(S)
    PROVE  EndOf(s, s)
BY DEF EndOf

LEMMA EnterTxsOrder ==
    ASSUME Base, ContentInv', OrderInv, DistinctHashes(blk), EnterTxs
    PROVE  OrderInv'
<1> DEFINE list == memo'["transactions"]
<1>0. "begin" \in Loops /\ "txs" \in Loops
  BY DEF Loops
<1>1. /\ Ready("begin") /\ todo["begin"] = <<>> /\ blk' = blk
      /\ Enter("txs", list) /\ "transactions" \in wrapped'
  BY DEF EnterTxs, Exhausted, GetTransactions, Fill, Unset
<1>2. stage = "begin" /\ stage # "failed" /\ AllGiven
  BY <1>0, <1>1, ReadyAllGiven
<1>3. TodoOK /\ AtBegin
  BY <1>2 DEF OrderInv
<1>4. list = WrapTx(blk)
  BY <1>1 DEF ContentInv
<1>5. blk.begin \in Nat /\ Len(blk.txs) \in Nat /\ AfterTxs(blk, 0) = AfterBegin(blk, blk.begin)
  BY BaseBlock, BlockIs, TxsPart
<1>6. list \in Seq(TxSet(blk)) /\ Len(list) = Len(blk.txs) /\ EndOf(list, WrapTx(blk))
  BY <1>4, BaseBlock, WrapTxIs, WholeIsEnd
<1>7. NamesOf(Walked) = AfterTxs(blk, 0)
  <2>1. blk.begin - Len(todo["begin"]) = blk.begin
    BY <1>1, <1>5
  <2> QED
    BY <1>3, <1>5, <2>1 DEF AtBegin
<1> HIDE DEF list
<1>8. /\ stage' = "txs" /\ todo'["txs"] = list /\ Walked' = Walked /\ item' = NoItem
      /\ \A m \in Loops : m # "txs" => todo'[m] = todo[m]
  BY <1>0, <1>1, <1>2, EnterIs
<1>9. TodoOK'
  BY <1>1, <1>3, <1>6, <1>8 DEF TodoOK, Loops, TxSet, MsgSet, Hashes
<1>10. TxAt' = 0
  BY <1>1, <1>5, <1>6, <1>8 DEF TxAt
<1>11. AtTxs'
  BY <1>1, <1>6, <1>7, <1>8, <1>10 DEF AtTxs
<1> QED
  BY <1>8, <1>9, <1>11 DEF OrderInv

LEMMA NextTxOrder ==
    ASSUME Base, OrderInv, DistinctHashes(blk), NextTx
    PROVE  OrderInv'
<1> DEFINE s == todo["txs"]
           L == WrapTx(blk)
           n == TxAt
<1>0. "txs" \in Loops
  BY DEF Loops
<1>1. /\ Ready("txs") /\ s # <<>> /\ item' = Item("tx", Head(s)) /\ dsAt' = 1
      /\ todo' = [todo EXCEPT !["txs"] = Tail(s)] /\ blk' = blk /\ stage' = stage /\ seen' = seen
  BY DEF NextTx, Step, Visit, vars
<1>2. stage = "txs" /\ stage # "failed" /\ AllGiven
  BY <1>0, <1>1, ReadyAllGiven
<1>3. TodoOK /\ AtTxs
  BY <1>2 DEF OrderInv
<1>4. todo'["txs"] = Tail(s) /\ \A m \in Loops : m # "txs" => todo'[m] = todo[m]
  BY <1>0, <1>1, BaseBlock
<1>5. /\ L \in Seq(TxSet(blk)) /\ Len(L) = Len(blk.txs) /\ Len(blk.txs) \in Nat
      /\ \A t \in 1..Len(blk.txs) : L[t] = [idx |-> t - 1, hash |-> blk.txs[t].hash]
  BY BaseBlock, BlockIs, WrapTxIs
<1>6. /\ Tail(s) \in Seq(TxSet(blk)) /\ EndOf(Tail(s), L)
      /\ Len(L) - Len(s) \in Nat /\ (Len(L) - Len(s)) + 1 <= Len(L)
      /\ Len(L) - Len(Tail(s)) = (Len(L) - Len(s)) + 1
      /\ Head(s) = L[(Len(L) - Len(s)) + 1]
  <2>1. s \in Seq(TxSet(blk)) /\ EndOf(s, L)
    BY <1>3 DEF TodoOK, AtTxs
  <2> QED
    BY <1>1, <1>5, <2>1, EndOfNext
<1>7. item = NoItem /\ NamesOf(Walked) = AfterTxs(blk, n)
  <2>1. item = NoItem \/ item.kind = "event"
    BY <1>1 DEF Ready, Indexed
  <2>2. ~(item = Item("tx", WrapTx(blk)[TxAt]))
    BY <2>1 DEF Item, NoItem
  <2> QED
    BY <1>3, <2>2 DEF AtTxs
<1>8. /\ TxAt' = n + 1 /\ n \in 0..Len(blk.txs) /\ n + 1 \in 1..Len(blk.txs)
      /\ Head(s) = L[n + 1] /\ (n + 1) - 1 = n /\ n \in Nat
  <2>1. n = Len(L) - Len(s)
    BY <1>5 DEF TxAt
  <2>2. TxAt' = Len(L) - Len(Tail(s))
    BY <1>1, <1>4, <1>5 DEF TxAt
  <2> HIDE DEF n, L, s
  <2> QED
    BY <1>5, <1>6, <2>1, <2>2
<1> HIDE DEF n
<1>9. item' # NoItem /\ item' = Item("tx", L[n + 1]) /\ NameOf(item') = Name("tx", n + 1, 0, 0)
  <2>1. L[n + 1] = [idx |-> (n + 1) - 1, hash |-> blk.txs[n + 1].hash]
    BY <1>5, <1>8
  <2>2. item' = Item("tx", L[n + 1])
    BY <1>1, <1>8
  <2>3. item' # NoItem /\ item'.kind = "tx" /\ item'.obj.idx = n
    BY <1>8, <2>1, <2>2 DEF Item, NoItem
  <2> QED
    BY <2>2, <2>3 DEF NameOf
<1>10. NameOf(item') \in NameType
  BY <1>8, <1>9, NameIsName
<1>11. AfterTxs(blk, n) \in Seq(NameType)
  BY <1>8, BaseBlock, TxsPart
<1>12. NamesOf(Walked') = Cat(AfterTxs(blk, n), <<NameOf(item')>>)
  BY <1>1, <1>2, <1>7, <1>9, <1>10, <1>11, VisitNames
<1>13. NamesOf(Walked') = InTx(blk, n + 1)
  BY <1>8, <1>9, <1>12 DEF InTx
<1>14. TodoOK'
  BY <1>1, <1>3, <1>4, <1>6 DEF TodoOK, Loops, TxSet, MsgSet, Hashes
<1>15. AtTxs'
  BY <1>1, <1>4, <1>6, <1>8, <1>9, <1>13 DEF AtTxs
<1> QED
  BY <1>1, <1>2, <1>14, <1>15 DEF OrderInv

LEMMA EnterMsgsOrder ==
    ASSUME Base, ContentInv', OrderInv, DistinctHashes(blk), EnterMsgs
    PROVE  OrderInv'
<1> DEFINE list == MsgsOf(item.obj, memo'["messages"])
           t == TxAt
<1>0. "msgs" \in Loops /\ "txs" \in Loops
  BY DEF Loops
<1>1. /\ stage = "txs" /\ stage # "failed" /\ AllGiven /\ item.kind = "tx" /\ blk' = blk
      /\ Enter("msgs", list) /\ "messages" \in wrapped'
  BY DEF EnterMsgs, Indexed, AllGiven, GetMessages, Fill, Unset
<1>2. TodoOK /\ AtTxs
  BY <1>1 DEF OrderInv
<1>3. /\ EndOf(todo["txs"], WrapTx(blk)) /\ t \in 1..Len(blk.txs)
      /\ item = Item("tx", WrapTx(blk)[t]) /\ NamesOf(Walked) = InTx(blk, t)
  BY <1>1, <1>2 DEF AtTxs, NoItem, Item
<1>4. memo'["messages"] = WrapMsg(blk) /\ ~WrapMsgThrows(blk)
  BY <1>1 DEF ContentInv, WrapMsgThrows
<1>5. item.obj.hash = blk.txs[t].hash
  <2>1. WrapTx(blk)[t] = [idx |-> t - 1, hash |-> blk.txs[t].hash]
    BY <1>3, BaseBlock, WrapTxIs
  <2> QED
    BY <1>3, <2>1 DEF Item
<1>6. list = TxMsgs(blk, t)
  BY <1>3, <1>4, <1>5, BaseBlock, MsgsOfTx
<1>7. /\ TxMsgs(blk, t) \in Seq(MsgSet(blk)) /\ Len(TxMsgs(blk, t)) = blk.txs[t].msgs
      /\ blk.txs[t].msgs \in Nat
  BY <1>3, BaseBlock, BlockIs, TxMsgsIs
<1>8. EndOf(TxMsgs(blk, t), TxMsgs(blk, t))
  BY <1>7, WholeIsEnd
<1>9. AfterMsgs(blk, t, 0) = InTx(blk, t)
  BY <1>3, BaseBlock, MsgsPart
<1> HIDE DEF list
<1>10. /\ stage' = "msgs" /\ todo'["msgs"] = list /\ Walked' = Walked /\ item' = NoItem
       /\ \A m \in Loops : m # "msgs" => todo'[m] = todo[m]
  BY <1>0, <1>1, EnterIs
<1>11. TodoOK'
  BY <1>1, <1>2, <1>6, <1>7, <1>10 DEF TodoOK, Loops, TxSet, MsgSet, Hashes
<1>12. TxAt' = t
  BY <1>0, <1>1, <1>10 DEF TxAt
<1> HIDE DEF t
<1>13. MsgAt' = 0
  BY <1>1, <1>6, <1>7, <1>10, <1>12 DEF MsgAt
<1>14. InMsgs'
  BY <1>0, <1>1, <1>3, <1>4, <1>6, <1>8, <1>10, <1>12 DEF InMsgs, WrapMsgThrows
<1>15. AtMsgs'
  BY <1>1, <1>3, <1>9, <1>10, <1>12, <1>13, <1>14 DEF AtMsgs
<1> QED
  BY <1>10, <1>11, <1>15 DEF OrderInv

LEMMA NextMsgOrder ==
    ASSUME Base, OrderInv, DistinctHashes(blk), NextMsg
    PROVE  OrderInv'
<1> DEFINE s == todo["msgs"]
           t == TxAt
           L == TxMsgs(blk, t)
           n == MsgAt
<1>0. "msgs" \in Loops /\ "txs" \in Loops
  BY DEF Loops
<1>1. /\ Ready("msgs") /\ s # <<>> /\ item' = Item("msg", Head(s)) /\ dsAt' = 1
      /\ todo' = [todo EXCEPT !["msgs"] = Tail(s)] /\ blk' = blk /\ stage' = stage /\ seen' = seen
  BY DEF NextMsg, Step, Visit, vars
<1>2. stage = "msgs" /\ stage # "failed" /\ AllGiven
  BY <1>0, <1>1, ReadyAllGiven
<1>3. TodoOK /\ AtMsgs /\ InMsgs
  BY <1>2 DEF OrderInv, AtMsgs
<1>4. todo'["msgs"] = Tail(s) /\ \A m \in Loops : m # "msgs" => todo'[m] = todo[m]
  BY <1>0, <1>1, BaseBlock
<1>5. t \in 1..Len(blk.txs)
  BY <1>3 DEF InMsgs
<1>6. /\ L \in Seq(MsgSet(blk)) /\ Len(L) = blk.txs[t].msgs /\ blk.txs[t].msgs \in Nat
      /\ \A i \in 1..blk.txs[t].msgs : L[i] = [idx |-> i - 1, tx |-> t, hash |-> blk.txs[t].hash]
  BY <1>5, BaseBlock, BlockIs, TxMsgsIs
<1>7. TxAt' = t
  BY <1>0, <1>1, <1>4 DEF TxAt
<1> HIDE DEF t, L
<1>8. /\ Tail(s) \in Seq(MsgSet(blk)) /\ EndOf(Tail(s), L)
      /\ Len(L) - Len(s) \in Nat /\ (Len(L) - Len(s)) + 1 <= Len(L)
      /\ Len(L) - Len(Tail(s)) = (Len(L) - Len(s)) + 1
      /\ Head(s) = L[(Len(L) - Len(s)) + 1]
  <2>1. s \in Seq(MsgSet(blk)) /\ EndOf(s, L)
    BY <1>3 DEF TodoOK, InMsgs, L, t
  <2> QED
    BY <1>1, <1>6, <2>1, EndOfNext
<1>9. item = NoItem /\ NamesOf(Walked) = AfterMsgs(blk, t, n)
  <2>1. item = NoItem \/ item.kind = "event"
    BY <1>1 DEF Ready, Indexed
  <2>2. ~(item = Item("msg", TxMsgs(blk, TxAt)[MsgAt]))
    BY <2>1 DEF Item, NoItem
  <2> QED
    BY <1>3, <2>2 DEF AtMsgs, t
<1>10. n = Len(L) - Len(s)
  BY <1>6 DEF MsgAt, t
<1>11. MsgAt' = Len(L) - Len(Tail(s))
  BY <1>1, <1>4, <1>6, <1>7 DEF MsgAt
<1>12. /\ MsgAt' = n + 1 /\ n \in 0..blk.txs[t].msgs /\ n + 1 \in 1..blk.txs[t].msgs
       /\ Head(s) = L[n + 1] /\ (n + 1) - 1 = n /\ n \in Nat
  BY <1>6, <1>8, <1>10, <1>11
<1> HIDE DEF n
<1>13. /\ item' # NoItem /\ item' = Item("msg", L[n + 1])
       /\ NameOf(item') = Name("msg", t, (n + 1) - 1, 0)
  <2>1. L[n + 1] = [idx |-> (n + 1) - 1, tx |-> t, hash |-> blk.txs[t].hash]
    BY <1>6, <1>12
  <2>2. item' = Item("msg", L[n + 1])
    BY <1>1, <1>12
  <2>3. item' # NoItem /\ item'.kind = "msg" /\ item'.obj.idx = (n + 1) - 1 /\ item'.obj.tx = t
    BY <2>1, <2>2 DEF Item, NoItem
  <2> QED
    BY <2>2, <2>3 DEF NameOf
<1>14. NameOf(item') \in NameType
  <2>1. t \in Nat /\ (n + 1) - 1 \in Nat
    BY <1>5, <1>12
  <2>2. Name("msg", t, (n + 1) - 1, 0) \in NameType
    BY <2>1, NameIsName
  <2> QED
    BY <1>13, <2>2
<1>15. AfterMsgs(blk, t, n) \in Seq(NameType)
  BY <1>5, <1>12, BaseBlock, MsgsPart
<1>16. NamesOf(Walked') = Cat(AfterMsgs(blk, t, n), <<NameOf(item')>>)
  BY <1>1, <1>2, <1>9, <1>13, <1>14, <1>15, VisitNames
<1>17. NamesOf(Walked') = InMsg(blk, t, n + 1)
  BY <1>12, <1>13, <1>16 DEF InMsg
<1>18. TodoOK'
  BY <1>1, <1>3, <1>4, <1>8 DEF TodoOK, Loops, TxSet, MsgSet, Hashes
<1>19. InMsgs'
  BY <1>0, <1>1, <1>3, <1>4, <1>5, <1>7, <1>8 DEF InMsgs, WrapMsgThrows, L
<1>20. AtMsgs'
  BY <1>1, <1>7, <1>12, <1>13, <1>17, <1>19 DEF AtMsgs, L
<1> QED
  BY <1>1, <1>2, <1>18, <1>20 DEF OrderInv

LEMMA EnterEventsOrder ==
    ASSUME Base, ContentInv', OrderInv, DistinctHashes(blk), EnterEvents
    PROVE  OrderInv'
<1> DEFINE list == EventsOf(item.obj, memo'["events"])
           t == TxAt
           m == MsgAt
           L == EvNames(blk, t, m - 1)
<1>0. "msgs" \in Loops /\ "txs" \in Loops /\ "events" \in Loops
  BY DEF Loops
<1>1. /\ stage = "msgs" /\ stage # "failed" /\ AllGiven /\ item.kind = "msg" /\ blk' = blk
      /\ Enter("events", list) /\ "events" \in wrapped'
  BY DEF EnterEvents, Indexed, AllGiven, GetEvents, Fill, Unset
<1>2. TodoOK /\ AtMsgs /\ InMsgs
  BY <1>1 DEF OrderInv, AtMsgs
<1>3. /\ t \in 1..Len(blk.txs) /\ ~WrapMsgThrows(blk) /\ m \in 1..blk.txs[t].msgs
      /\ item = Item("msg", TxMsgs(blk, t)[m]) /\ NamesOf(Walked) = InMsg(blk, t, m)
  BY <1>1, <1>2 DEF AtMsgs, InMsgs, NoItem, Item
<1>4. PICK off \in Nat : memo'["events"] = WrapEvent(blk, off)
  BY <1>1 DEF ContentInv
<1>5. item.obj.hash = blk.txs[t].hash /\ item.obj.idx = m - 1
  <2>1. TxMsgs(blk, t)[m] = [idx |-> m - 1, tx |-> t, hash |-> blk.txs[t].hash]
    BY <1>3, BaseBlock, TxMsgsIs
  <2> QED
    BY <1>3, <2>1 DEF Item
<1>6. blk.txs[t].msgs \in Nat /\ L \in Seq(NameType) /\ AfterEvents(blk, t, m, 0) = InMsg(blk, t, m)
  BY <1>3, BaseBlock, BlockIs, EvListsIs, EventsPart
<1>7. m - 1 \in 0..(blk.txs[t].msgs - 1)
  BY <1>3, <1>6
<1>8. /\ list \in Seq(EventType) /\ Len(list) = Len(L)
      /\ \A k \in 1..Len(L) : NameOf(Item("event", list[k])) = L[k]
  <2> DEFINE j == m - 1
             msg == item.obj
  <2>1. j \in 0..(blk.txs[t].msgs - 1) /\ msg.hash = blk.txs[t].hash /\ msg.idx = j
    BY <1>5, <1>7
  <2>2. blk \in Blocks /\ Constructible(blk) /\ t \in 1..Len(blk.txs) /\ ~WrapMsgThrows(blk)
    BY <1>3, BaseBlock
  <2> HIDE DEF j, t, m, msg
  <2>3. /\ EventsOf(msg, WrapEvent(blk, off)) \in Seq(EventType)
        /\ Len(EventsOf(msg, WrapEvent(blk, off))) = Len(EvNames(blk, t, j))
        /\ \A k \in 1..Len(EvNames(blk, t, j)) :
              NameOf(Item("event", EventsOf(msg, WrapEvent(blk, off))[k])) = EvNames(blk, t, j)[k]
    BY <2>1, <2>2, EventsOfMsg
  <2> QED
    BY <1>4, <2>3 DEF j, msg
<1>9. InMsgs /\ Len(L) \in Nat
  BY <1>2, <1>6
<1> HIDE DEF list, m, L
<1>10. Spells(list, L) /\ Len(L) - Len(list) = 0
  <2>1. \A k \in 1..Len(list) : Len(L) - Len(list) + k = k
    BY <1>8, <1>9
  <2> QED
    BY <1>8, <1>9, <2>1 DEF Spells
<1>11. /\ stage' = "events" /\ todo'["events"] = list /\ Walked' = Walked /\ item'.kind = "none"
       /\ \A l \in Loops : l # "events" => todo'[l] = todo[l]
  BY <1>0, <1>1, EnterIs
<1>12. TodoOK'
  BY <1>1, <1>2, <1>8, <1>11 DEF TodoOK, Loops, TxSet, MsgSet, Hashes
<1>13. TxAt' = t
  BY <1>0, <1>1, <1>11 DEF TxAt
<1> HIDE DEF t
<1>14. MsgAt' = m
  BY <1>0, <1>1, <1>11, <1>13 DEF MsgAt, m, t
<1>15. InMsgs'
  BY <1>0, <1>1, <1>9, <1>11, <1>13 DEF InMsgs, WrapMsgThrows, t
<1>16. AtEvents'
  BY <1>1, <1>3, <1>6, <1>10, <1>11, <1>13, <1>14, <1>15 DEF AtEvents, L
<1> QED
  BY <1>11, <1>12, <1>16 DEF OrderInv

LEMMA NextEventOrder ==
    ASSUME Base, OrderInv, DistinctHashes(blk), NextEvent
    PROVE  OrderInv'
<1> DEFINE t == TxAt
           m == MsgAt
           L == EvNames(blk, t, m - 1)
           X == InMsg(blk, t, m)
<1>0. "msgs" \in Loops /\ "txs" \in Loops /\ "events" \in Loops
  BY DEF Loops
<1>1. stage = "events" /\ Step("events", "event")
  BY DEF NextEvent, Step, Ready
<1>2. TodoOK /\ AtEvents /\ InMsgs
  BY <1>1 DEF OrderInv, AtEvents
<1>3. t \in 1..Len(blk.txs) /\ m \in 1..blk.txs[t].msgs
  BY <1>2 DEF AtEvents, InMsgs
<1>4. L \in Seq(NameType) /\ X \in Seq(NameType)
  BY <1>3, BaseBlock, EvListsIs, MsgsPart
<1>5. Spells(todo["events"], L) /\ NamesOf(Walked) = Upto(X, L, Len(L) - Len(todo["events"]))
  BY <1>2 DEF AtEvents, AfterEvents
<1> HIDE DEF X, L
<1>6. /\ todo'["events"] \in Seq(EventType) /\ Spells(todo'["events"], L)
      /\ NamesOf(Walked') = Upto(X, L, Len(L) - Len(todo'["events"]))
      /\ item'.kind = "event" /\ stage' = stage /\ blk' = blk
      /\ \A l \in Loops : l # "events" => todo'[l] = todo[l]
  BY <1>0, <1>1, <1>2, <1>4, <1>5, EventVisit DEF TodoOK
<1>7. TodoOK'
  BY <1>2, <1>6 DEF TodoOK, Loops, TxSet, MsgSet, Hashes
<1>8. TxAt' = t
  BY <1>0, <1>6 DEF TxAt
<1> HIDE DEF m, t
<1>9. MsgAt' = m
  BY <1>0, <1>6, <1>8 DEF MsgAt, m, t
<1>10. InMsgs'
  BY <1>0, <1>2, <1>6, <1>8 DEF InMsgs, WrapMsgThrows, t
<1>11. AtEvents'
  BY <1>3, <1>6, <1>8, <1>9, <1>10 DEF AtEvents, AfterEvents, L, X
<1> QED
  BY <1>1, <1>6, <1>7, <1>11 DEF OrderInv

LEMMA LeaveEventsOrder ==
    ASSUME Base, OrderInv, DistinctHashes(blk), LeaveEvents
    PROVE  OrderInv'
<1> DEFINE L == EvNames(blk, TxAt, MsgAt - 1)
<1>0. "msgs" \in Loops /\ "txs" \in Loops /\ "events" \in Loops
  BY DEF Loops
<1>1. Ready("events") /\ todo["events"] = <<>> /\ Leave("msgs")
  BY DEF LeaveEvents, Exhausted
<1>2. stage = "events" /\ stage # "failed" /\ AllGiven
  BY <1>0, <1>1, ReadyAllGiven
<1>3. TodoOK /\ AtEvents /\ InMsgs
  BY <1>2 DEF OrderInv, AtEvents
<1>4. TxAt \in 1..Len(blk.txs) /\ MsgAt \in 1..blk.txs[TxAt].msgs
  BY <1>3 DEF AtEvents, InMsgs
<1>5. Len(L) \in Nat /\ AfterEvents(blk, TxAt, MsgAt, Len(L)) = AfterMsgs(blk, TxAt, MsgAt)
  <2>1. L \in Seq(NameType) /\ AfterEvents(blk, TxAt, MsgAt, Len(L)) = AfterMsgs(blk, TxAt, MsgAt)
    BY <1>4, BaseBlock, EvListsIs, EventsPart
  <2> QED
    BY <2>1
<1>6. NamesOf(Walked) = AfterMsgs(blk, TxAt, MsgAt)
  <2>1. Len(L) - Len(todo["events"]) = Len(L)
    BY <1>1, <1>5
  <2> QED
    BY <1>3, <1>5, <2>1 DEF AtEvents
<1>7. stage' = "msgs" /\ todo' = todo /\ item' = NoItem /\ Walked' = Walked /\ blk' = blk
  BY <1>1, <1>2, LeaveIs
<1>8. TxAt' = TxAt /\ MsgAt' = MsgAt
  BY <1>7 DEF TxAt, MsgAt
<1>9. TodoOK' /\ InMsgs'
  BY <1>3, <1>7, <1>8 DEF TodoOK, InMsgs, WrapMsgThrows
<1>10. AtMsgs'
  BY <1>6, <1>7, <1>8, <1>9 DEF AtMsgs
<1> QED
  BY <1>7, <1>9, <1>10 DEF OrderInv

LEMMA LeaveMsgsOrder ==
    ASSUME Base, OrderInv, DistinctHashes(blk), LeaveMsgs
    PROVE  OrderInv'
<1>0. "msgs" \in Loops
  BY DEF Loops
<1>1. Ready("msgs") /\ todo["msgs"] = <<>> /\ Leave("txs")
  BY DEF LeaveMsgs, Exhausted
<1>2. stage = "msgs" /\ stage # "failed" /\ AllGiven
  BY <1>0, <1>1, ReadyAllGiven
<1>3. TodoOK /\ AtMsgs /\ InMsgs
  BY <1>2 DEF OrderInv, AtMsgs
<1>4. TxAt \in 1..Len(blk.txs) /\ EndOf(todo["txs"], WrapTx(blk))
  BY <1>3 DEF InMsgs
<1>5. blk.txs[TxAt].msgs \in Nat /\ AfterMsgs(blk, TxAt, blk.txs[TxAt].msgs) = AfterTxs(blk, TxAt)
  BY <1>4, BaseBlock, BlockIs, MsgsPart
<1>6. NamesOf(Walked) = AfterTxs(blk, TxAt)
  <2>1. MsgAt = blk.txs[TxAt].msgs
    BY <1>1, <1>5 DEF MsgAt
  <2>2. item = NoItem \/ item.kind = "event"
    BY <1>1 DEF Ready, Indexed
  <2>3. ~(item = Item("msg", TxMsgs(blk, TxAt)[MsgAt]))
    BY <2>2 DEF Item, NoItem
  <2> QED
    BY <1>3, <1>5, <2>1, <2>3 DEF AtMsgs
<1>7. stage' = "txs" /\ todo' = todo /\ item' = NoItem /\ Walked' = Walked /\ blk' = blk
  BY <1>1, <1>2, LeaveIs
<1>8. TxAt' = TxAt
  BY <1>7 DEF TxAt
<1>9. TodoOK'
  BY <1>3, <1>7 DEF TodoOK
<1>10. AtTxs'
  BY <1>4, <1>6, <1>7, <1>8 DEF AtTxs
<1> QED
  BY <1>7, <1>9, <1>10 DEF OrderInv

LEMMA LeaveEndOrder ==
    ASSUME Base, OrderInv, DistinctHashes(blk), LeaveEnd
    PROVE  OrderInv'
<1>0. "end" \in Loops
  BY DEF Loops
<1>1. Ready("end") /\ todo["end"] = <<>> /\ Leave("done")
  BY DEF LeaveEnd, Exhausted
<1>2. stage = "end" /\ stage # "failed" /\ AllGiven
  BY <1>0, <1>1, ReadyAllGiven
<1>3. TodoOK /\ AtEnd
  BY <1>2 DEF OrderInv
<1>4. blk.end \in Nat /\ AfterEnd(blk, blk.end) = ChainOrder(blk)
  BY BaseBlock, BlockIs, EndPart
<1>5. NamesOf(Walked) = ChainOrder(blk)
  <2>1. blk.end - Len(todo["end"]) = blk.end
    BY <1>1, <1>4
  <2> QED
    BY <1>3, <1>4, <2>1 DEF AtEnd
<1>6. stage' = "done" /\ todo' = todo /\ item' = NoItem /\ Walked' = Walked /\ blk' = blk
  BY <1>1, <1>2, LeaveIs
<1>7. TodoOK'
  BY <1>3, <1>6 DEF TodoOK
<1> QED
  BY <1>5, <1>6, <1>7 DEF OrderInv

LEMMA OrderInvInit == IndexInit => OrderInv
<1> SUFFICES ASSUME IndexInit PROVE OrderInv
  OBVIOUS
<1>1. stage = "start" /\ item = NoItem /\ seen[1] = <<>> /\ \A l \in Loops : todo[l] = <<>>
  BY DsAssumption DEF IndexInit
<1>2. Walked = <<>>
  BY <1>1 DEF Walked
<1>3. NamesOf(Walked) = <<>>
  BY <1>2 DEF NamesOf
<1>4. \A S : <<>> \in Seq(S)
  OBVIOUS
<1>5. TodoOK
  BY <1>1, <1>4 DEF TodoOK, Loops
<1> QED
  BY <1>1, <1>3, <1>5 DEF OrderInv

(* Where a walk stands in the chain order is an invariant.                 *)
LEMMA OrderInvStep ==
    ASSUME Base, ContentInv', OrderInv, [IndexNext]_indexVars
    PROVE  OrderInv'
<1> USE DEF Base
<1>1. blk' = blk
  BY StepReadsContent DEF Next, vars, GetBlock, GetTransactions, GetMessages, GetMessagesThrows,
     GetEvents, GetBeginBlockEvents, GetEndBlockEvents
<1> SUFFICES ASSUME DistinctHashes(blk) PROVE OrderInv'
  BY <1>1 DEF OrderInv
<1>2. CASE IndexData \/ IndexDataCreatesDs
  <2>1. Walked' = Walked
    BY <1>2, WalkedGive
  <2>2. todo' = todo /\ item' = item /\ stage' = stage
    BY <1>2 DEF IndexData, IndexDataCreatesDs, Give
  <2> QED
    BY <1>1, <2>1, <2>2 DEF OrderInv, TodoOK, AtBegin, AtTxs, AtMsgs, AtEvents, AtEnd, InMsgs,
       TxAt, MsgAt, WrapMsgThrows
<1>3. CASE IndexDataThrows \/ MessagesThrow
  <2>1. todo' = todo /\ stage' = "failed"
    BY <1>3 DEF IndexDataThrows, MessagesThrow, Give
  <2>2. TodoOK
    BY DEF OrderInv
  <2>3. TodoOK'
    BY <1>1, <2>1, <2>2 DEF TodoOK
  <2> QED
    BY <2>1, <2>3 DEF OrderInv
<1>4. CASE Rest \/ UNCHANGED indexVars
  <2>1. UNCHANGED <<blk, todo, item, stage, dsAt, seen>>
    BY <1>4 DEF Rest, indexVars, vars, driver
  <2>2. Walked' = Walked
    BY <2>1 DEF Walked
  <2> QED
    BY <2>1, <2>2 DEF OrderInv, TodoOK, AtBegin, AtTxs, AtMsgs, AtEvents, AtEnd, InMsgs,
       TxAt, MsgAt, WrapMsgThrows
<1>5. CASE StartBlock
  BY <1>5, StartOrder
<1>6. CASE EnterBegin \/ EnterTxs \/ EnterMsgs \/ EnterEvents \/ EnterEnd
  BY <1>6, EnterBeginOrder, EnterTxsOrder, EnterMsgsOrder, EnterEventsOrder, EnterEndOrder
<1>7. CASE NextBegin \/ NextTx \/ NextMsg \/ NextEvent \/ NextEnd
  BY <1>7, NextBeginOrder, NextTxOrder, NextMsgOrder, NextEventOrder, NextEndOrder
<1>8. CASE LeaveEvents \/ LeaveMsgs \/ LeaveEnd
  BY <1>8, LeaveEventsOrder, LeaveMsgsOrder, LeaveEndOrder
<1> QED
  BY <1>2, <1>3, <1>4, <1>5, <1>6, <1>7, <1>8 DEF IndexNext, IndexStep

-----------------------------------------------------------------------------
(* What was walked begins the chain order, in whichever loop the walk is.  *)
LEMMA WalkedInOrder ==
    ASSUME Base, OrderInv, DistinctHashes(blk), stage # "failed"
    PROVE  IsPrefix(NamesOf(Walked), ChainOrder(blk))
<1> DEFINE C == ChainOrder(blk)
           W == NamesOf(Walked)
<1>1. blk \in Blocks /\ Constructible(blk)
  BY BaseBlock
<1>2. /\ blk.begin \in Nat /\ blk.end \in Nat /\ Len(blk.txs) \in Nat
      /\ \A t \in 1..Len(blk.txs) : blk.txs[t].msgs \in Nat
  BY <1>1, BlockIs
<1>3. /\ IsPrefix(<<>>, C)
      /\ \A n \in 0..blk.begin : IsPrefix(AfterBegin(blk, n), C)
      /\ \A n \in 0..Len(blk.txs) : IsPrefix(AfterTxs(blk, n), C)
      /\ \A t \in 1..Len(blk.txs) : \A n \in 0..blk.txs[t].msgs : IsPrefix(AfterMsgs(blk, t, n), C)
      /\ \A t \in 1..Len(blk.txs) : \A i \in 1..blk.txs[t].msgs :
            \A n \in 0..Len(EvNames(blk, t, i - 1)) : IsPrefix(AfterEvents(blk, t, i, n), C)
      /\ \A n \in 0..blk.end : IsPrefix(AfterEnd(blk, n), C)
  BY <1>1, PassedIsPrefix
<1>0. \A x, y \in Nat : y <= x => x - y \in 0..x
  OBVIOUS
<1>4. TodoOK
  BY DEF OrderInv
<1>5. CASE stage = "start"
  BY <1>3, <1>5 DEF OrderInv
<1>6. CASE stage = "block"
  <2>1. W = AfterBegin(blk, 0)
    BY <1>1, <1>6, BeginPart DEF OrderInv
  <2> QED
    BY <1>2, <1>3, <2>1
<1>7. CASE stage = "begin"
  <2>1. AtBegin
    BY <1>7 DEF OrderInv
  <2>2. Len(todo["begin"]) \in Nat /\ Len(todo["begin"]) <= Len(Names("begin", blk.begin))
    BY <1>4, <2>1 DEF TodoOK, AtBegin, Spells
  <2>3. Len(Names("begin", blk.begin)) = blk.begin
    BY <1>2, NamesIs
  <2>4. blk.begin - Len(todo["begin"]) \in 0..blk.begin
    BY <1>2, <2>2, <2>3
  <2> QED
    BY <1>3, <2>1, <2>4 DEF AtBegin
<1>8. CASE stage = "txs"
  <2>1. AtTxs
    BY <1>8 DEF OrderInv
  <2>2. Len(todo["txs"]) \in Nat /\ Len(todo["txs"]) <= Len(WrapTx(blk))
    BY <1>4, <2>1 DEF TodoOK, AtTxs, EndOf
  <2>3. Len(WrapTx(blk)) = Len(blk.txs)
    BY <1>1, WrapTxIs
  <2>4. TxAt \in 0..Len(blk.txs)
    BY <1>2, <1>0, <2>2, <2>3 DEF TxAt
  <2>5. CASE W = AfterTxs(blk, TxAt)
    BY <1>3, <2>4, <2>5
  <2>6. CASE TxAt \in 1..Len(blk.txs) /\ W = InTx(blk, TxAt)
    <3>1. AfterMsgs(blk, TxAt, 0) = InTx(blk, TxAt) /\ 0 \in 0..blk.txs[TxAt].msgs
      BY <1>1, <1>2, <2>6, MsgsPart
    <3> QED
      BY <1>3, <2>6, <3>1
  <2> QED
    BY <2>1, <2>5, <2>6 DEF AtTxs
<1>9. CASE stage = "msgs"
  <2>1. AtMsgs /\ TxAt \in 1..Len(blk.txs) /\ EndOf(todo["msgs"], TxMsgs(blk, TxAt))
    BY <1>9 DEF OrderInv, AtMsgs, InMsgs
  <2>2. Len(todo["msgs"]) \in Nat /\ Len(todo["msgs"]) <= Len(TxMsgs(blk, TxAt))
    BY <1>4, <2>1 DEF TodoOK, EndOf
  <2>3. Len(TxMsgs(blk, TxAt)) = blk.txs[TxAt].msgs /\ blk.txs[TxAt].msgs \in Nat
    BY <1>1, <1>2, <2>1, TxMsgsIs
  <2>4. MsgAt \in 0..blk.txs[TxAt].msgs
    BY <2>2, <2>3 DEF MsgAt
  <2>5. CASE W = AfterMsgs(blk, TxAt, MsgAt)
    BY <1>3, <2>1, <2>4, <2>5
  <2>6. CASE MsgAt \in 1..blk.txs[TxAt].msgs /\ W = InMsg(blk, TxAt, MsgAt)
    <3>1. AfterEvents(blk, TxAt, MsgAt, 0) = InMsg(blk, TxAt, MsgAt)
      BY <1>1, <2>1, <2>6, EventsPart
    <3>2. EvNames(blk, TxAt, MsgAt - 1) \in Seq(NameType)
      BY <1>1, <2>1, EvListsIs
    <3>3. 0 \in 0..Len(EvNames(blk, TxAt, MsgAt - 1))
      BY <3>2
    <3> QED
      BY <1>3, <2>1, <2>6, <3>1, <3>3
  <2> QED
    BY <2>1, <2>5, <2>6 DEF AtMsgs
<1>10. CASE stage = "events"
  <2> DEFINE L == EvNames(blk, TxAt, MsgAt - 1)
  <2>1. AtEvents /\ TxAt \in 1..Len(blk.txs) /\ MsgAt \in 1..blk.txs[TxAt].msgs
    BY <1>10 DEF OrderInv, AtEvents, InMsgs
  <2>2. Len(todo["events"]) \in Nat /\ Len(todo["events"]) <= Len(L)
    BY <1>4, <2>1 DEF TodoOK, AtEvents, Spells
  <2>3. L \in Seq(NameType)
    BY <1>1, <2>1, EvListsIs
  <2>4. Len(L) \in Nat
    BY <2>3
  <2>5. Len(L) - Len(todo["events"]) \in 0..Len(L)
    BY <1>0, <2>2, <2>4
  <2> QED
    BY <1>3, <2>1, <2>5 DEF AtEvents
<1>11. CASE stage = "end"
  <2>1. AtEnd
    BY <1>11 DEF OrderInv
  <2>2. Len(todo["end"]) \in Nat /\ Len(todo["end"]) <= Len(Names("end", blk.end))
    BY <1>4, <2>1 DEF TodoOK, AtEnd, Spells
  <2>3. Len(Names("end", blk.end)) = blk.end
    BY <1>2, NamesIs
  <2>4. blk.end - Len(todo["end"]) \in 0..blk.end
    BY <1>2, <2>2, <2>3
  <2> QED
    BY <1>3, <2>1, <2>4 DEF AtEnd
<1>12. CASE stage = "done"
  <2>1. W = AfterEnd(blk, blk.end)
    BY <1>1, <1>12, EndPart DEF OrderInv
  <2> QED
    BY <1>2, <1>3, <2>1
<1> QED
  BY <1>5, <1>6, <1>7, <1>8, <1>9, <1>10, <1>11, <1>12 DEF Base, WalkInv, Stages, Loops

(* Every data source was given a part of w without a hole, those of the    *)
(* project from its start.                                                 *)
Handed(w) ==
    \A d \in 1..Len(dss) : \E m \in Nat :
        /\ m + Len(seen[d]) <= Len(w)
        /\ \A i \in 1..Len(seen[d]) : seen[d][i] = w[m + i]
        /\ d <= StaticDs => m = 0

LEMMA FollowsHanded ==
    ASSUME Base, stage # "failed", NEW d \in 1..Len(dss)
    PROVE  /\ Len(seen[d]) \in Nat /\ Len(Walked) \in Nat /\ Missed(d) \in Nat
           /\ Missed(d) + Len(seen[d]) + Behind(d) = Len(Walked) /\ Behind(d) \in 0..1
           /\ \A i \in 1..Len(seen[d]) : seen[d][i] = Walked[Missed(d) + i]
           /\ d <= StaticDs => Missed(d) = 0
<1>1. d \in 1..MaxDs /\ Follows(d)
  BY DsAssumption DEF Base, WalkInv, FollowInv
<1>2. PICK S : Walked \in Seq(S)
  BY BaseBlock
<1>3. PICK R : seen[d] \in Seq(R)
  BY <1>1 DEF Base, SeenShape
<1>4. Len(seen[d]) \in Nat /\ Len(Walked) \in Nat /\ Behind(d) \in 0..1
  BY <1>2, <1>3 DEF Behind
<1>5. /\ Missed(d) \in Nat /\ Missed(d) = Len(Walked) - Len(seen[d]) - Behind(d)
      /\ \A i \in 1..Len(seen[d]) : seen[d][i] = Walked[Missed(d) + i]
      /\ d <= StaticDs => Missed(d) = 0
  BY <1>1 DEF Follows, Missed
<1>6. ASSUME NEW x \in Nat, NEW y \in Nat, NEW z \in Nat, NEW u \in 0..1, x = y - z - u
      PROVE  x + z + u = y
  BY <1>6
<1>7. Missed(d) + Len(seen[d]) + Behind(d) = Len(Walked)
  BY ONLY <1>4, <1>5, <1>6
<1>8. /\ Missed(d) \in Nat
      /\ \A i \in 1..Len(seen[d]) : seen[d][i] = Walked[Missed(d) + i]
      /\ d <= StaticDs => Missed(d) = 0
  BY ONLY <1>5
<1> QED
  BY <1>4, <1>7, <1>8, Zenon

LEMMA WalkIsHanded ==
    ASSUME Base, stage # "failed"
    PROVE  Handed(Walked)
<1>1. ASSUME NEW d \in 1..Len(dss)
      PROVE  \E m \in Nat : /\ m + Len(seen[d]) <= Len(Walked)
                            /\ \A i \in 1..Len(seen[d]) : seen[d][i] = Walked[m + i]
                            /\ d <= StaticDs => m = 0
  <2>1. /\ Len(seen[d]) \in Nat /\ Len(Walked) \in Nat /\ Missed(d) \in Nat
        /\ Missed(d) + Len(seen[d]) + Behind(d) = Len(Walked) /\ Behind(d) \in 0..1
        /\ \A i \in 1..Len(seen[d]) : seen[d][i] = Walked[Missed(d) + i]
        /\ d <= StaticDs => Missed(d) = 0
    BY FollowsHanded
  <2>2. Missed(d) + Len(seen[d]) <= Len(Walked)
    BY <2>1
  <2> QED
    BY <2>1, <2>2
<1> QED
  BY <1>1 DEF Handed

(* A failing handler was given the item the walk had come to.              *)
LEMMA ThrowIsHanded ==
    ASSUME Base, IndexDataThrows, NEW w, w = Walked
    PROVE  Handed(w)'
<1>1. /\ stage # "failed" /\ item # NoItem /\ dsAt \in 1..Len(dss) /\ dss[dsAt] = dsAt
      /\ dss' = dss /\ DOMAIN seen = 1..MaxDs /\ dsAt \in 1..MaxDs /\ Len(dss) \in Nat
      /\ MaxDs \in Nat /\ Len(dss) <= MaxDs
  BY DsAssumption DEF IndexDataThrows, Give, Indexing, Base, WalkInv
<1>2. seen' = [seen EXCEPT ![dsAt] = Append(seen[dsAt], item)]
  BY <1>1 DEF IndexDataThrows, Give
<1>3. ASSUME NEW d \in 1..Len(dss)
      PROVE  \E m \in Nat : /\ m + Len(seen'[d]) <= Len(w)
                            /\ \A i \in 1..Len(seen'[d]) : seen'[d][i] = w[m + i]
                            /\ d <= StaticDs => m = 0
  <2>1. /\ Len(seen[d]) \in Nat /\ Len(w) \in Nat /\ Missed(d) \in Nat
        /\ Missed(d) + Len(seen[d]) + Behind(d) = Len(w) /\ Behind(d) \in 0..1
        /\ \A i \in 1..Len(seen[d]) : seen[d][i] = w[Missed(d) + i]
        /\ d <= StaticDs => Missed(d) = 0
    BY <1>1, FollowsHanded
  <2>2. CASE d # dsAt
    <3>1. seen'[d] = seen[d]
      BY <1>1, <1>2, <2>2
    <3>2. Missed(d) + Len(seen[d]) <= Len(w)
      BY <2>1
    <3> QED
      BY <2>1, <3>1, <3>2
  <2>3. CASE d = dsAt
    <3>1. Behind(d) = 1 /\ w[Len(w)] = item
      BY <1>1, <2>3 DEF Behind, Base, FollowInv
    <3>2. PICK S : seen[d] \in Seq(S)
      BY <1>1, <2>3 DEF Base, SeenShape
    <3>3. seen[d] \in Seq(S \cup {item}) /\ item \in S \cup {item}
      BY <3>2
    <3>4. /\ Len(seen'[d]) = Len(seen[d]) + 1 /\ seen'[d][Len(seen[d]) + 1] = item
          /\ \A i \in 1..Len(seen[d]) : seen'[d][i] = seen[d][i]
      BY <1>1, <1>2, <2>3, <3>3
    <3>5. Missed(d) + Len(seen'[d]) = Len(w)
      <4>1. \A x, y, z \in Nat : x + y + 1 = z => x + (y + 1) = z
        OBVIOUS
      <4> QED
        BY <2>1, <3>1, <3>4, <4>1
    <3>6. ASSUME NEW i \in 1..Len(seen'[d]) PROVE seen'[d][i] = w[Missed(d) + i]
      <4>1. CASE i \in 1..Len(seen[d])
        BY <2>1, <3>4, <4>1
      <4>2. CASE i = Len(seen[d]) + 1
        BY <2>1, <3>1, <3>4, <3>5, <4>2
      <4> QED
        BY <2>1, <3>4, <4>1, <4>2
    <3>7. Missed(d) + Len(seen'[d]) <= Len(w)
      BY <2>1, <3>5
    <3> QED
      BY <2>1, <3>6, <3>7
  <2> QED
    BY <2>2, <2>3
<1> QED
  BY <1>1, <1>3 DEF Handed

-----------------------------------------------------------------------------
(* A list that is wrapped is numbered after those wrapped before it.       *)
LEMMA AllBeforeStep ==
    ASSUME IInv, NEW g \in EventGetters, WrapsOne(g),
           NEW x \in EventGetters, NEW y \in EventGetters, x # y, AllBefore(x, y),
           x = g => memo[y] = <<>>
    PROVE  AllBefore(x, y)'
<1>1. /\ eventIdx \in Nat /\ EventIdxBelow
      /\ \A h \in EventGetters : h # g => memo'[h] = memo[h]
      /\ \A i \in 1..Len(memo'[g]) : memo'[g][i].idx = eventIdx + i - 1
      /\ Len(memo'[g]) \in Nat
  BY DEF IInv, TypeOK, EventIdxValid, WrapsOne, Consecutive
<1>2. CASE g = x
  <2>1. memo'[y] = <<>>
    BY <1>1, <1>2
  <2> QED
    BY <2>1 DEF AllBefore
<1>3. CASE g = y
  <2> SUFFICES ASSUME NEW i \in 1..Len(memo'[x]), NEW j \in 1..Len(memo'[y])
               PROVE  memo'[x][i].idx < memo'[y][j].idx
    BY DEF AllBefore
  <2>1. memo'[x] = memo[x] /\ memo[x] \in Seq(EventType)
    BY <1>1, <1>3 DEF IInv, TypeOK
  <2>2. memo[x][i] \in EventType /\ memo[x][i].idx < eventIdx
    BY <1>1, <2>1 DEF EventIdxBelow
  <2>3. memo[x][i].idx \in Nat
    BY <2>2 DEF EventType
  <2>4. memo'[y][j].idx = eventIdx + j - 1 /\ j \in Nat /\ j >= 1
    BY <1>1, <1>3
  <2> QED
    BY <1>1, <2>1, <2>2, <2>3, <2>4
<1>4. CASE g # x /\ g # y
  BY <1>1, <1>4 DEF AllBefore
<1> QED
  BY <1>2, <1>3, <1>4

(* Only three steps of the walk read a list of events.                     *)
ReadsEvents == EnterBegin \/ EnterEvents \/ EnterEnd

LEMMA OtherStepsRead ==
    ASSUME TypeOK, [IndexNext]_indexVars, ~ReadsEvents
    PROVE  /\ \A g \in EventGetters : memo'[g] = memo[g]
           /\ wrapped' \cap EventGetters = wrapped \cap EventGetters
<1>0. DOMAIN memo = Getters
  BY DEF TypeOK
<1>1. CASE GetBlock
  BY <1>0, <1>1 DEF GetBlock, Fill, Getters, EventGetters
<1>2. CASE GetTransactions
  BY <1>0, <1>2 DEF GetTransactions, Fill, Getters, EventGetters
<1>3. CASE GetMessages
  BY <1>0, <1>3 DEF GetMessages, Fill, Getters, EventGetters
<1>4. CASE GetMessagesThrows
  BY <1>0, <1>4 DEF GetMessagesThrows, Fill, Getters, EventGetters
<1>5. CASE UNCHANGED vars
  BY <1>5 DEF vars
<1> QED
  BY <1>1, <1>2, <1>3, <1>4, <1>5 DEF ReadsEvents, IndexNext, IndexStep, IndexData,
     IndexDataCreatesDs, IndexDataThrows, Give, StartBlock, EnterTxs, EnterMsgs, MessagesThrow,
     NextBegin, NextTx, NextMsg, NextEvent, NextEnd, Step, LeaveEvents, LeaveMsgs, LeaveEnd,
     Leave, Rest, indexVars

LEMMA ReadingSteps ==
    ASSUME TypeOK, ReadsEvents
    PROVE  /\ EnterBegin => /\ wrapped' \cap EventGetters
                                  = (wrapped \cap EventGetters) \cup {"beginBlockEvents"}
                            /\ stage = "block" /\ stage' = "begin"
           /\ EnterEvents => /\ wrapped' \cap EventGetters
                                   = (wrapped \cap EventGetters) \cup {"events"}
                             /\ stage = "msgs" /\ stage' = "events"
           /\ EnterEnd => /\ wrapped' \cap EventGetters
                                = (wrapped \cap EventGetters) \cup {"endBlockEvents"}
                          /\ stage = "txs" /\ stage' = "end"
<1>1. EnterBegin => /\ wrapped' \cap EventGetters
                          = (wrapped \cap EventGetters) \cup {"beginBlockEvents"}
                    /\ stage = "block" /\ stage' = "begin"
  BY DEF EnterBegin, Enter, GetBeginBlockEvents, Fill, Unset, EventGetters
<1>2. EnterEvents => /\ wrapped' \cap EventGetters = (wrapped \cap EventGetters) \cup {"events"}
                     /\ stage = "msgs" /\ stage' = "events"
  BY DEF EnterEvents, Enter, GetEvents, Fill, Unset, EventGetters
<1>3. EnterEnd => /\ wrapped' \cap EventGetters
                       = (wrapped \cap EventGetters) \cup {"endBlockEvents"}
                  /\ stage = "txs" /\ stage' = "end"
  BY DEF EnterEnd, Exhausted, Ready, Enter, GetEndBlockEvents, Fill, Unset, EventGetters
<1> QED
  BY <1>1, <1>2, <1>3

LEMMA ListInvInit == IndexInit => ListInv
BY DEF IndexInit, Init, ListInv, AllBefore, Getters, EventGetters

(* The lists are read in the order of the block.                           *)
LEMMA ListInvStep ==
    ASSUME IInv, ListInv, [IndexNext]_indexVars
    PROVE  ListInv'
<1>0. TypeOK /\ UnsetEmpty
  BY DEF IInv
<1>1. CASE ~ReadsEvents
  <2>1. /\ \A g \in EventGetters : memo'[g] = memo[g]
        /\ wrapped' \cap EventGetters = wrapped \cap EventGetters
    BY <1>0, <1>1, OtherStepsRead
  <2>2. /\ "beginBlockEvents" \in EventGetters /\ "events" \in EventGetters
        /\ "endBlockEvents" \in EventGetters
    BY DEF EventGetters
  <2>3. /\ AllBefore("beginBlockEvents", "events")'
        /\ AllBefore("beginBlockEvents", "endBlockEvents")'
        /\ AllBefore("events", "endBlockEvents")'
    BY <2>1, <2>2 DEF ListInv, AllBefore
  <2>4. /\ stage' \in {"start", "block"} => stage \in {"start", "block"}
        /\ stage \in {"end", "done", "failed"} => stage' \in {"end", "done", "failed"}
    BY <1>1 DEF ReadsEvents, IndexNext, IndexStep, IndexData, IndexDataCreatesDs,
       IndexDataThrows, Give, Indexing, StartBlock, EnterTxs, EnterMsgs, MessagesThrow, Enter,
       Exhausted, Ready, NextBegin, NextTx, NextMsg, NextEvent, NextEnd, Step, LeaveEvents,
       LeaveMsgs, LeaveEnd, Leave, Rest, indexVars, driver
  <2> QED
    BY <2>1, <2>2, <2>3, <2>4 DEF ListInv
<1>2. CASE ReadsEvents
  <2>1. PICK g \in EventGetters :
          /\ wrapped' \cap EventGetters = (wrapped \cap EventGetters) \cup {g}
          /\ g = "beginBlockEvents" => stage = "block" /\ stage' = "begin"
          /\ g = "events" => stage = "msgs" /\ stage' = "events"
          /\ g = "endBlockEvents" => stage = "txs" /\ stage' = "end"
    BY <1>0, <1>2, ReadingSteps DEF ReadsEvents, EventGetters
  <2>2. Quiet \/ \E h \in EventGetters : WrapsOne(h)
    BY <1>0, StepReadsContent, StepEffect
  <2>3. ASSUME NEW x \in EventGetters, NEW y \in EventGetters, x # y, AllBefore(x, y),
               x = g => y \notin wrapped
        PROVE  AllBefore(x, y)'
    <3>1. CASE Quiet
      BY <2>3, <3>1 DEF Quiet, AllBefore
    <3>2. CASE \E h \in EventGetters : WrapsOne(h)
      <4>1. PICK h \in EventGetters : WrapsOne(h)
        BY <3>2
      <4>2. h = g
        BY <2>1, <4>1 DEF WrapsOne
      <4>3. x = g => memo[y] = <<>>
        BY <1>0, <2>3 DEF UnsetEmpty
      <4> QED
        BY <2>3, <4>1, <4>2, <4>3, AllBeforeStep
    <3> QED
      BY <2>2, <3>1, <3>2
  <2>4. /\ g = "beginBlockEvents" => wrapped \cap EventGetters = {}
        /\ "endBlockEvents" \notin wrapped /\ stage' \in {"begin", "events", "end"}
        /\ "endBlockEvents" \in wrapped' => stage' = "end"
    BY <2>1 DEF ListInv, EventGetters
  <2>5. /\ "beginBlockEvents" \in EventGetters /\ "events" \in EventGetters
        /\ "endBlockEvents" \in EventGetters
    BY DEF EventGetters
  <2>6. AllBefore("beginBlockEvents", "events")'
    BY <2>3, <2>4, <2>5 DEF ListInv
  <2>7. AllBefore("beginBlockEvents", "endBlockEvents")'
    BY <2>3, <2>4, <2>5 DEF ListInv
  <2>8. AllBefore("events", "endBlockEvents")'
    BY <2>3, <2>4, <2>5 DEF ListInv
  <2> QED
    BY <2>4, <2>6, <2>7, <2>8 DEF ListInv
<1> QED
  BY <1>1, <1>2

(* An event that is listed stays listed.                                   *)
LEMMA ListedKept ==
    ASSUME IInv, [Next]_vars
    PROVE  /\ \A s : EventsListed(memo, s) => EventsListed(memo', s)
           /\ \A w : WalkListed(memo, w) => WalkListed(memo', w)
<1>1. ASSUME NEW e, ListedIn(memo, e) PROVE ListedIn(memo', e)
  <2>1. PICK g \in EventGetters : \E p \in 1..Len(memo[g]) : e = memo[g][p]
    BY <1>1 DEF ListedIn
  <2>2. g \in wrapped
    BY <2>1 DEF IInv, UnsetEmpty
  <2>3. memo'[g] = memo[g]
    BY <2>2, StepEffect DEF IInv
  <2> QED
    BY <2>1, <2>3 DEF ListedIn
<1> QED
  BY <1>1 DEF EventsListed, WalkListed

LEMMA WalkListedAppend ==
    ASSUME NEW S, NEW w \in Seq(S), NEW x, NEW m, WalkListed(m, w),
           x.kind = "event" => ListedIn(m, x.obj)
    PROVE  WalkListed(m, Append(w, x))
<1>1. w \in Seq(S \cup {x}) /\ x \in S \cup {x} /\ Len(w) \in Nat
  OBVIOUS
<1>2. /\ Len(Append(w, x)) = Len(w) + 1 /\ Append(w, x)[Len(w) + 1] = x
      /\ \A k \in 1..Len(w) : Append(w, x)[k] = w[k]
  BY <1>1
<1>3. ASSUME NEW k \in 1..(Len(w) + 1), Append(w, x)[k].kind = "event"
      PROVE  ListedIn(m, Append(w, x)[k].obj)
  <2>1. CASE k \in 1..Len(w)
    BY <1>2, <1>3, <2>1 DEF WalkListed
  <2>2. CASE k = Len(w) + 1
    BY <1>2, <1>3, <2>2
  <2> QED
    BY <1>1, <2>1, <2>2
<1> QED
  BY <1>2, <1>3 DEF WalkListed

LEMMA NextListed ==
    ASSUME Base, NEW l \in Loops, NEW kind, Step(l, kind), TodoOK, WalkListed(memo, Walked),
           \A h \in {"begin", "events", "end"} : EventsListed(memo, todo[h]),
           kind = "event" => l \in {"begin", "events", "end"}, kind # "none"
    PROVE  /\ \A h \in {"begin", "events", "end"} : EventsListed(memo', todo'[h])
           /\ WalkListed(memo', Walked')
<1>1. /\ Ready(l) /\ todo[l] # <<>> /\ item' = Item(kind, Head(todo[l])) /\ dsAt' = 1
      /\ todo' = [todo EXCEPT ![l] = Tail(todo[l])] /\ seen' = seen /\ memo' = memo
  BY DEF Step, Visit, vars
<1>2. stage # "failed" /\ AllGiven
  BY <1>1, ReadyAllGiven
<1>3. item' # NoItem
  BY <1>1 DEF Item, NoItem
<1>4. Walked' = Append(Walked, item')
  BY <1>1, <1>2, <1>3, WalkedVisit
<1>5. PICK S : Walked \in Seq(S)
  BY BaseBlock
<1>6. ASSUME l \in {"begin", "events", "end"}
      PROVE  ListedIn(memo, Head(todo[l])) /\ EventsListed(memo, Tail(todo[l]))
  <2>1. todo[l] \in Seq(EventType) /\ EventsListed(memo, todo[l])
    BY <1>6 DEF TodoOK
  <2>2. /\ Len(todo[l]) \in Nat /\ Len(todo[l]) >= 1 /\ Head(todo[l]) = todo[l][1]
        /\ Len(Tail(todo[l])) = Len(todo[l]) - 1
        /\ \A k \in 1..(Len(todo[l]) - 1) : Tail(todo[l])[k] = todo[l][k + 1]
    BY <1>1, <2>1
  <2> QED
    BY <2>1, <2>2 DEF EventsListed
<1>7. item'.kind = "event" => ListedIn(memo, item'.obj)
  BY <1>1, <1>6 DEF Item
<1>8. WalkListed(memo, Append(Walked, item'))
  BY <1>5, <1>7, WalkListedAppend
<1>9. todo'[l] = Tail(todo[l]) /\ \A h \in Loops : h # l => todo'[h] = todo[h]
  BY <1>1, BaseBlock
<1>10. \A h \in {"begin", "events", "end"} : EventsListed(memo, todo'[h])
  BY <1>6, <1>9 DEF Loops
<1> QED
  BY <1>1, <1>4, <1>8, <1>10

LEMMA EnterListed ==
    ASSUME Base, [Next]_vars, NEW l \in Loops, NEW list, Enter(l, list), stage # "failed", AllGiven,
           WalkListed(memo, Walked),
           \A h \in {"begin", "events", "end"} : EventsListed(memo, todo[h]),
           l \in {"begin", "events", "end"} => EventsListed(memo', list)
    PROVE  /\ \A h \in {"begin", "events", "end"} : EventsListed(memo', todo'[h])
           /\ WalkListed(memo', Walked')
<1>1. /\ todo'[l] = list /\ Walked' = Walked /\ \A h \in Loops : h # l => todo'[h] = todo[h]
  BY EnterIs
<1>2. /\ \A s : EventsListed(memo, s) => EventsListed(memo', s)
      /\ \A w : WalkListed(memo, w) => WalkListed(memo', w)
  BY ListedKept DEF Base
<1>3. \A h \in {"begin", "events", "end"} : EventsListed(memo', todo'[h])
  BY <1>1, <1>2 DEF Loops
<1> QED
  BY <1>1, <1>2, <1>3

LEMMA WholeListed ==
    ASSUME NEW m, NEW g \in EventGetters
    PROVE  EventsListed(m, m[g])
BY DEF EventsListed, ListedIn

LEMMA EventsOfListed ==
    ASSUME NEW m, m["events"] \in Seq(EventType), NEW msg
    PROVE  EventsListed(m, EventsOf(msg, m["events"]))
<1> DEFINE s == m["events"]
           E == {e \in ToSet(s) : blk.txs[e.src.tx].hash = msg.hash /\ e.msg = msg.idx}
<1>1. EventsOf(msg, s) = Keep(s, E)
  BY DEF EventsOf
<1> HIDE DEF E
<1>2. ASSUME NEW k \in 1..Len(Keep(s, E)) PROVE ListedIn(m, Keep(s, E)[k])
  <2>1. PICK p \in 1..Len(s) : Keep(s, E)[k] = s[p]
    BY KeepFrom
  <2> QED
    BY <2>1 DEF ListedIn, EventGetters
<1> QED
  BY <1>1, <1>2 DEF EventsListed

LEMMA ListedInvInit == IndexInit => ListedInv
<1> SUFFICES ASSUME IndexInit PROVE ListedInv
  OBVIOUS
<1>1. item = NoItem /\ seen[1] = <<>> /\ \A l \in Loops : todo[l] = <<>>
  BY DsAssumption DEF IndexInit
<1>2. Walked = <<>>
  BY <1>1 DEF Walked
<1> QED
  BY <1>1, <1>2 DEF ListedInv, EventsListed, WalkListed, Loops

(* Whatever the walk is about to visit or has visited is listed.           *)
LEMMA ListedInvStep ==
    ASSUME Base, TypeOK', OrderInv, ListedInv, [IndexNext]_indexVars
    PROVE  ListedInv'
<1>1. [Next]_vars
  BY StepReadsContent
<1>2. TypeOK /\ blk' = blk
  BY <1>1, StepEffect DEF Base
<1> SUFFICES ASSUME DistinctHashes(blk), stage' # "failed"
             PROVE  /\ \A h \in {"begin", "events", "end"} : EventsListed(memo', todo'[h])
                    /\ WalkListed(memo', Walked')
  BY <1>2 DEF ListedInv
<1>3. stage # "failed"
  BY DEF IndexNext, IndexStep, IndexData, IndexDataCreatesDs, IndexDataThrows, Give, Indexing,
     StartBlock, EnterBegin, EnterTxs, EnterMsgs, MessagesThrow, EnterEvents, EnterEnd,
     NextBegin, NextTx, NextMsg, NextEvent, NextEnd, Step, LeaveEvents, LeaveMsgs, LeaveEnd,
     Exhausted, Ready, Rest, indexVars, driver
<1>4. /\ \A h \in {"begin", "events", "end"} : EventsListed(memo, todo[h])
      /\ WalkListed(memo, Walked) /\ TodoOK
  BY <1>3 DEF ListedInv, OrderInv
<1>5. /\ \A s : EventsListed(memo, s) => EventsListed(memo', s)
      /\ \A w : WalkListed(memo, w) => WalkListed(memo', w)
  BY <1>1, ListedKept DEF Base
<1>6. ASSUME todo' = todo, Walked' = Walked
      PROVE  /\ \A h \in {"begin", "events", "end"} : EventsListed(memo', todo'[h])
             /\ WalkListed(memo', Walked')
  BY <1>4, <1>5, <1>6
<1>7. CASE IndexData \/ IndexDataCreatesDs
  <2>1. todo' = todo
    BY <1>7 DEF IndexData, IndexDataCreatesDs, Give
  <2>2. Walked' = Walked
    BY <1>7, WalkedGive DEF Base
  <2> QED
    BY <1>6, <2>1, <2>2
<1>8. CASE IndexDataThrows \/ MessagesThrow
  BY <1>8 DEF IndexDataThrows, MessagesThrow
<1>9. CASE StartBlock
  <2>1. /\ stage = "start" /\ item' = Item("block", [idx |-> 0]) /\ dsAt' = 1 /\ todo' = todo
        /\ seen' = seen
    BY <1>9 DEF StartBlock, Visit
  <2>2. AllGiven /\ item' # NoItem /\ item'.kind # "event"
    BY <1>3, <2>1 DEF Base, FollowInv, AllGiven, Item, NoItem
  <2>3. Walked' = Append(Walked, item')
    BY <1>3, <2>1, <2>2, WalkedVisit
  <2>4. PICK S : Walked \in Seq(S)
    BY BaseBlock
  <2>5. WalkListed(memo', Walked)
    BY <1>4, <1>5
  <2>6. WalkListed(memo', Append(Walked, item'))
    BY <2>2, <2>4, <2>5, WalkListedAppend
  <2> QED
    BY <1>4, <1>5, <2>1, <2>3, <2>6
<1>10. ASSUME NEW l \in Loops, NEW list, Enter(l, list), AllGiven,
              l \in {"begin", "events", "end"} => EventsListed(memo', list)
       PROVE  /\ \A h \in {"begin", "events", "end"} : EventsListed(memo', todo'[h])
              /\ WalkListed(memo', Walked')
  BY <1>1, <1>3, <1>4, <1>10, EnterListed
<1>11. /\ "begin" \in Loops /\ "txs" \in Loops /\ "msgs" \in Loops /\ "events" \in Loops
       /\ "end" \in Loops
  BY DEF Loops
<1>12. CASE EnterBegin
  <2>1. Enter("begin", memo'["beginBlockEvents"]) /\ AllGiven
    BY <1>12 DEF EnterBegin, Indexed, AllGiven
  <2>2. EventsListed(memo', memo'["beginBlockEvents"])
    BY WholeListed DEF EventGetters
  <2> QED
    BY <1>10, <1>11, <2>1, <2>2
<1>13. CASE EnterTxs
  <2>1. Enter("txs", memo'["transactions"]) /\ AllGiven
    BY <1>13 DEF EnterTxs, Exhausted, Ready, Indexed, AllGiven
  <2> QED
    BY <1>10, <1>11, <2>1
<1>14. CASE EnterMsgs
  <2>1. Enter("msgs", MsgsOf(item.obj, memo'["messages"])) /\ AllGiven
    BY <1>14 DEF EnterMsgs, Indexed, AllGiven
  <2> QED
    BY <1>10, <1>11, <2>1
<1>15. CASE EnterEvents
  <2>1. Enter("events", EventsOf(item.obj, memo'["events"])) /\ AllGiven
    BY <1>15 DEF EnterEvents, Indexed, AllGiven
  <2>2. memo'["events"] \in Seq(EventType)
    BY DEF TypeOK, EventGetters
  <2>3. EventsListed(memo', EventsOf(item.obj, memo'["events"]))
    BY <2>2, EventsOfListed
  <2> QED
    BY <1>10, <1>11, <2>1, <2>3
<1>16. CASE EnterEnd
  <2>1. Enter("end", memo'["endBlockEvents"]) /\ AllGiven
    BY <1>16 DEF EnterEnd, Exhausted, Ready, Indexed, AllGiven
  <2>2. EventsListed(memo', memo'["endBlockEvents"])
    BY WholeListed DEF EventGetters
  <2> QED
    BY <1>10, <1>11, <2>1, <2>2
<1>17. ASSUME NEW l \in Loops, NEW kind, Step(l, kind), kind # "none",
              kind = "event" => l \in {"begin", "events", "end"}
       PROVE  /\ \A h \in {"begin", "events", "end"} : EventsListed(memo', todo'[h])
              /\ WalkListed(memo', Walked')
  BY <1>4, <1>17, NextListed
<1>18. CASE NextBegin \/ NextTx \/ NextMsg \/ NextEvent \/ NextEnd
  BY <1>11, <1>17, <1>18 DEF NextBegin, NextTx, NextMsg, NextEvent, NextEnd
<1>19. CASE LeaveEvents \/ LeaveMsgs \/ LeaveEnd
  <2>1. /\ Leave("msgs") \/ Leave("txs") \/ Leave("done")
        /\ AllGiven
    BY <1>19 DEF LeaveEvents, LeaveMsgs, LeaveEnd, Exhausted, Ready, Indexed, AllGiven
  <2>2. todo' = todo /\ Walked' = Walked
    BY <1>3, <2>1, LeaveIs
  <2> QED
    BY <1>6, <2>2
<1>20. CASE Rest \/ UNCHANGED indexVars
  <2>1. UNCHANGED <<todo, item, dsAt, seen>>
    BY <1>20 DEF Rest, indexVars, driver
  <2>2. todo' = todo /\ Walked' = Walked
    BY <2>1 DEF Walked
  <2> QED
    BY <1>6, <2>2
<1> QED
  BY <1>7, <1>8, <1>9, <1>12, <1>13, <1>14, <1>15, <1>16, <1>18, <1>19, <1>20
  DEF IndexNext, IndexStep

-----------------------------------------------------------------------------
(* The order of the events in a block: begin block events, the events of   *)
(* the transactions by transaction, log and place, end block events.       *)
Lex(t, l, e, u, m, f) == t < u \/ (t = u /\ (l < m \/ (l = m /\ e < f)))

InOrder(x, y) ==
    /\ x.kind = "begin" /\ y.kind = "begin" => x.ev < y.ev
    /\ x.kind = "end" /\ y.kind = "end" => x.ev < y.ev
    /\ x.kind = "event" /\ y.kind = "event" => Lex(x.tx, x.at, x.ev, y.tx, y.at, y.ev)
    /\ y.kind = "begin" => x.kind \notin {"event", "end"}
    /\ y.kind = "event" => x.kind # "end"

NameOrder == {p \in NameType \X NameType : InOrder(p[1], p[2])}
SourceOrder(b) ==
    {p \in TxSource(b) \X TxSource(b) :
        Lex(p[1].tx, p[1].log, p[1].ev, p[2].tx, p[2].log, p[2].ev)}

LEMMA NameOrderIs ==
    ASSUME NEW x \in NameType, NEW y \in NameType
    PROVE  <<x, y>> \in NameOrder <=> InOrder(x, y)
<1>1. <<x, y>> \in NameType \X NameType /\ <<x, y>>[1] = x /\ <<x, y>>[2] = y
  OBVIOUS
<1> QED
  BY <1>1 DEF NameOrder

LEMMA SourceOrderIs ==
    ASSUME NEW b, NEW x \in TxSource(b), NEW y \in TxSource(b)
    PROVE  <<x, y>> \in SourceOrder(b) <=> Lex(x.tx, x.log, x.ev, y.tx, y.log, y.ev)
<1>1. <<x, y>> \in TxSource(b) \X TxSource(b) /\ <<x, y>>[1] = x /\ <<x, y>>[2] = y
  OBVIOUS
<1> QED
  BY <1>1 DEF SourceOrder

(* The raw events are visited by transaction, log and place.               *)
LEMMA SourcesSorted ==
    ASSUME NEW b \in Blocks
    PROVE  Sorted(EventSources(b), SourceOrder(b))
<1> DEFINE R == SourceOrder(b)
           TT == TxLists(b)
           Of(t) == {s \in TxSource(b) : s.tx = t}
<1>0. Len(b.results) \in Nat
  BY BlocksAssumption
<1>1. /\ TT \in Seq(Seq(TxSource(b))) /\ Len(TT) = Len(b.results)
      /\ \A t \in 1..Len(b.results) :
            /\ TT[t] = LogSources(b, t)
            /\ LogSources(b, t) = IF b.results[t].parsed THEN FlattenSeq(LogLists(b, t)) ELSE <<>>
  BY TxListsType
<1>2. ASSUME NEW t \in 1..Len(b.results)
      PROVE  Sorted(LogSources(b, t), R) /\ LogSources(b, t) \in Seq(Of(t))
  <2> DEFINE LL == LogLists(b, t)
  <2>1. /\ LL \in Seq(Seq(TxSource(b))) /\ Len(LL) = Len(b.results[t].logs)
        /\ \A l \in 1..Len(b.results[t].logs) :
              /\ LL[l] = LogEvents(b, t, l) /\ LogEvents(b, t, l) \in Seq(TxSource(b))
              /\ Len(LogEvents(b, t, l)) = b.results[t].logs[l].events
              /\ \A e \in 1..b.results[t].logs[l].events :
                    LogEvents(b, t, l)[e] = Source("tx", t, l, e)
    BY LogListsType
  <2>2. Len(b.results[t].logs) \in Nat /\ t \in Nat
    BY <1>0, BlocksAssumption
  <2> HIDE DEF LL
  <2>3. ASSUME NEW l \in 1..Len(LL)
        PROVE  /\ Len(LL[l]) \in Nat /\ l \in Nat
               /\ \A e \in 1..Len(LL[l]) :
                     /\ LL[l][e] \in TxSource(b)
                     /\ LL[l][e].tx = t /\ LL[l][e].log = l /\ LL[l][e].ev = e
    <3>1. l \in 1..Len(b.results[t].logs) /\ l \in Nat
      BY <2>1, <2>2
    <3>2. LL[l] \in Seq(TxSource(b)) /\ Len(LL[l]) = b.results[t].logs[l].events
      BY <2>1, <3>1
    <3>3. ASSUME NEW e \in 1..Len(LL[l])
          PROVE  LL[l][e] \in TxSource(b) /\ LL[l][e].tx = t /\ LL[l][e].log = l /\ LL[l][e].ev = e
      <4>1. LL[l][e] = Source("tx", t, l, e)
        BY <2>1, <3>1, <3>2
      <4> QED
        BY <3>2, <4>1 DEF Source
    <3> QED
      BY <3>1, <3>2, <3>3
  <2>4. ASSUME NEW l \in 1..Len(LL) PROVE Sorted(LL[l], R)
    <3>1. ASSUME NEW p \in 1..Len(LL[l]), NEW q \in 1..Len(LL[l]), p < q
          PROVE  <<LL[l][p], LL[l][q]>> \in R
      <4>1. Lex(LL[l][p].tx, LL[l][p].log, LL[l][p].ev, LL[l][q].tx, LL[l][q].log, LL[l][q].ev)
        BY <2>3, <3>1 DEF Lex
      <4> QED
        BY <2>3, <4>1, SourceOrderIs
    <3> QED
      BY <3>1 DEF Sorted
  <2>5. ASSUME NEW l \in 1..Len(LL), NEW m \in 1..Len(LL), l < m,
               NEW p \in 1..Len(LL[l]), NEW q \in 1..Len(LL[m])
        PROVE  <<LL[l][p], LL[m][q]>> \in R
    <3>1. Lex(LL[l][p].tx, LL[l][p].log, LL[l][p].ev, LL[m][q].tx, LL[m][q].log, LL[m][q].ev)
      BY <2>3, <2>5 DEF Lex
    <3> QED
      BY <2>3, <3>1, SourceOrderIs
  <2>6. Sorted(FlattenSeq(LL), R)
    <3> HIDE DEF R
    <3> QED
      BY <2>1, <2>4, <2>5, FlattenSorted
  <2>7. FlattenSeq(LL) \in Seq(Of(t))
    <3>1. \A l \in 1..Len(LL) : LL[l] \in Seq(Of(t))
      <4>1. ASSUME NEW l \in 1..Len(LL) PROVE LL[l] \in Seq(Of(t))
        <5>1. LL[l] \in Seq(TxSource(b)) /\ \A e \in 1..Len(LL[l]) : LL[l][e] \in Of(t)
          BY <2>1, <2>3
        <5> HIDE DEF Of
        <5> QED
          BY <5>1
      <4> QED
        BY <4>1
    <3>2. LL \in Seq(Seq(Of(t)))
      <4> DEFINE T == Seq(Of(t))
      <4>1. \A l \in 1..Len(LL) : LL[l] \in T
        BY <3>1
      <4> HIDE DEF T
      <4>2. LL \in Seq(T)
        BY <2>1, <4>1, ListOver
      <4> QED
        BY <4>2 DEF T
    <3> HIDE DEF Of
    <3> QED
      BY <3>2, FlattenType
  <2>8. Sorted(<<>>, R) /\ <<>> \in Seq(Of(t))
    BY DEF Sorted
  <2> QED
    BY <1>1, <2>6, <2>7, <2>8 DEF LL
<1> HIDE DEF TT
<1>3. ASSUME NEW t \in 1..Len(TT), NEW u \in 1..Len(TT), t < u,
             NEW p \in 1..Len(TT[t]), NEW q \in 1..Len(TT[u])
      PROVE  <<TT[t][p], TT[u][q]>> \in R
  <2>1. TT[t] \in Seq(Of(t)) /\ TT[u] \in Seq(Of(u))
    BY <1>1, <1>2
  <2>2. TT[t][p] \in Of(t) /\ TT[u][q] \in Of(u)
    <3> HIDE DEF Of
    <3> QED
      BY <2>1
  <2>3. Lex(TT[t][p].tx, TT[t][p].log, TT[t][p].ev, TT[u][q].tx, TT[u][q].log, TT[u][q].ev)
    BY <1>3, <2>2 DEF Lex
  <2> QED
    BY <2>2, <2>3, SourceOrderIs
<1>4. \A t \in 1..Len(TT) : Sorted(TT[t], R)
  BY <1>1, <1>2
<1>5. Sorted(FlattenSeq(TT), R)
  <2> HIDE DEF R
  <2> QED
    BY <1>1, <1>3, <1>4, FlattenSorted
<1> QED
  BY <1>5, EventSourcesType DEF TT

(* The events of a message are named by log and place.                     *)
EvSet(b, t, i) ==
    {n \in NameType : /\ n.kind = "event" /\ n.tx = t
                      /\ n.at \in 1..Len(b.results[t].logs)
                      /\ b.results[t].logs[n.at].msg_index = i}

LEMMA EvNamesSorted ==
    ASSUME NEW b \in Blocks, Constructible(b), NEW t \in 1..Len(b.txs), NEW i
    PROVE  Sorted(EvNames(b, t, i), NameOrder) /\ EvNames(b, t, i) \in Seq(EvSet(b, t, i))
<1> DEFINE LL == EvLists(b, t, i)
           S == EvSet(b, t, i)
           logs == b.results[t].logs
<1>1. /\ LL \in Seq(Seq(NameType)) /\ Len(LL) = Len(logs)
      /\ \A l \in 1..Len(logs) :
            /\ LogNames(b, t, l) \in Seq(NameType)
            /\ Len(LogNames(b, t, l)) = logs[l].events
            /\ \A e \in 1..logs[l].events : LogNames(b, t, l)[e] = Name("event", t, l, e)
            /\ logs[l].msg_index = i => LL[l] = LogNames(b, t, l)
            /\ logs[l].msg_index # i => LL[l] = <<>>
  BY EvListsIs
<1>2. Len(logs) \in Nat
  BY BlockIs
<1> HIDE DEF LL, logs
<1>3. ASSUME NEW l \in 1..Len(LL), NEW e \in 1..Len(LL[l])
      PROVE  /\ LL[l][e] \in NameType /\ LL[l][e].kind = "event" /\ logs[l].msg_index = i
             /\ LL[l][e].tx = t /\ LL[l][e].at = l /\ LL[l][e].ev = e /\ l \in Nat /\ e \in Nat
  <2>1. l \in 1..Len(logs) /\ LL[l] \in Seq(NameType) /\ l \in Nat /\ e \in Nat
    BY <1>1, <1>2
  <2>2. logs[l].msg_index = i
    BY <1>1, <2>1
  <2>3. LL[l][e] = Name("event", t, l, e)
    BY <1>1, <2>1, <2>2
  <2> QED
    BY <2>1, <2>2, <2>3 DEF Name
<1>4. ASSUME NEW l \in 1..Len(LL) PROVE Sorted(LL[l], NameOrder)
  <2>1. ASSUME NEW p \in 1..Len(LL[l]), NEW q \in 1..Len(LL[l]), p < q
        PROVE  <<LL[l][p], LL[l][q]>> \in NameOrder
    <3>1. InOrder(LL[l][p], LL[l][q])
      BY <1>3, <2>1 DEF InOrder, Lex
    <3> QED
      BY <1>3, <3>1, NameOrderIs
  <2> QED
    BY <2>1 DEF Sorted
<1>5. ASSUME NEW l \in 1..Len(LL), NEW m \in 1..Len(LL), l < m,
             NEW p \in 1..Len(LL[l]), NEW q \in 1..Len(LL[m])
      PROVE  <<LL[l][p], LL[m][q]>> \in NameOrder
  <2>1. InOrder(LL[l][p], LL[m][q])
    BY <1>3, <1>5 DEF InOrder, Lex
  <2> QED
    BY <1>3, <2>1, NameOrderIs
<1>6. Sorted(FlattenSeq(LL), NameOrder)
  BY <1>1, <1>4, <1>5, FlattenSorted
<1>7. FlattenSeq(LL) \in Seq(S)
  <2>1. ASSUME NEW l \in 1..Len(LL) PROVE LL[l] \in Seq(S)
    <3>1. ASSUME NEW e \in 1..Len(LL[l]) PROVE LL[l][e] \in S
      <4>1. LL[l][e].at \in 1..Len(logs) /\ logs[LL[l][e].at].msg_index = i
        BY <1>1, <1>3
      <4> QED
        BY <1>3, <4>1 DEF EvSet, logs
    <3>2. LL[l] \in Seq(NameType)
      BY <1>1
    <3> HIDE DEF S
    <3> QED
      BY <3>1, <3>2
  <2> HIDE DEF S
  <2>2. LL \in Seq(Seq(S))
    <3> DEFINE T == Seq(S)
    <3>1. \A l \in 1..Len(LL) : LL[l] \in T
      BY <2>1
    <3> HIDE DEF T
    <3>2. LL \in Seq(T)
      BY <1>1, <3>1, ListOver
    <3> QED
      BY <3>2 DEF T
  <2> QED
    BY <2>2, FlattenType
<1>8. Sorted(<<>>, NameOrder) /\ <<>> \in Seq(S)
  BY DEF Sorted
<1> QED
  BY <1>6, <1>7, <1>8 DEF EvNames, LL

LEMMA NamesCatSorted ==
    ASSUME NEW A \in SUBSET NameType, NEW B \in SUBSET NameType, NEW s \in Seq(A), NEW u \in Seq(B),
           Sorted(s, NameOrder), Sorted(u, NameOrder), \A x \in A, y \in B : InOrder(x, y)
    PROVE  Sorted(Cat(s, u), NameOrder) /\ Cat(s, u) \in Seq(A \cup B)
<1>1. s \in Seq(A \cup B) /\ u \in Seq(A \cup B)
  OBVIOUS
<1>2. ASSUME NEW p \in 1..Len(s), NEW q \in 1..Len(u) PROVE <<s[p], u[q]>> \in NameOrder
  <2>1. s[p] \in A /\ u[q] \in B
    OBVIOUS
  <2> QED
    BY <2>1, NameOrderIs
<1>3. Cat(s, u) \in Seq(A \cup B)
  BY <1>1, CatIs
<1> QED
  BY <1>1, <1>2, <1>3, SortedCat

LEMMA OneSorted ==
    ASSUME NEW A, NEW x \in A
    PROVE  <<x>> \in Seq(A) /\ Sorted(<<x>>, NameOrder)
BY DEF Sorted

(* So are the items of a transaction, when its logs follow its messages.   *)
MsgNames(b, t, i) == {n \in NameType : n.kind = "msg"} \cup EvSet(b, t, i)
InTxNames(t) == {n \in NameType : n.kind \in {"tx", "msg"} \/ (n.kind = "event" /\ n.tx = t)}

LEMMA MsgSorted ==
    ASSUME NEW b \in Blocks, Constructible(b), NEW t \in 1..Len(b.txs), NEW i \in 1..b.txs[t].msgs
    PROVE  Sorted(MsgLists(b, t)[i], NameOrder) /\ MsgLists(b, t)[i] \in Seq(MsgNames(b, t, i - 1))
<1> DEFINE x == Name("msg", t, i - 1, 0)
           A == {n \in NameType : n.kind = "msg"}
           B == EvSet(b, t, i - 1)
           u == EvNames(b, t, i - 1)
<1>1. b.txs[t].msgs \in Nat /\ t \in Nat /\ i - 1 \in Nat
  <2>1. b.txs[t].msgs \in Nat
    BY BlockIs
  <2> QED
    BY <2>1
<1>2. MsgLists(b, t)[i] = Cat(<<x>>, u)
  BY MsgListsIs
<1>3. Sorted(u, NameOrder) /\ u \in Seq(B)
  BY EvNamesSorted
<1>4. x \in A
  <2>1. x \in NameType
    BY <1>1, NameIsName
  <2> QED
    BY <2>1 DEF Name
<1>5. A \in SUBSET NameType /\ B \in SUBSET NameType
  BY DEF EvSet
<1>6. \A y \in A, z \in B : InOrder(y, z)
  BY DEF EvSet, InOrder
<1> HIDE DEF x, A, B, u
<1>7. <<x>> \in Seq(A) /\ Sorted(<<x>>, NameOrder)
  BY <1>4, OneSorted
<1>8. Sorted(Cat(<<x>>, u), NameOrder) /\ Cat(<<x>>, u) \in Seq(A \cup B)
  BY <1>3, <1>5, <1>6, <1>7, NamesCatSorted
<1> QED
  BY <1>2, <1>8 DEF MsgNames, A, B

LEMMA TxSorted ==
    ASSUME NEW b \in Blocks, Constructible(b), LogsInOrder(b), NEW t \in 1..Len(b.txs)
    PROVE  Sorted(TxOrders(b)[t], NameOrder) /\ TxOrders(b)[t] \in Seq(InTxNames(t))
<1> DEFINE LL == MsgLists(b, t)
           N == b.txs[t].msgs
           logs == b.results[t].logs
           x == Name("tx", t, 0, 0)
           A == {n \in NameType : n.kind = "tx"}
           B == {n \in NameType : n.kind = "msg" \/ (n.kind = "event" /\ n.tx = t)}
<1>1. N \in Nat /\ Len(logs) \in Nat /\ t \in 1..Len(b.results) /\ t \in Nat
  <2>1. N \in Nat /\ Len(logs) \in Nat
    BY BlockIs
  <2>2. t \in 1..Len(b.results) /\ t \in Nat
    BY BlockIs
  <2> QED
    BY <2>1, <2>2
<1>2. LL \in Seq(Seq(NameType)) /\ Len(LL) = N
  BY MsgListsIs
<1>3. \A i \in 1..N : Sorted(LL[i], NameOrder) /\ LL[i] \in Seq(MsgNames(b, t, i - 1))
  BY MsgSorted
<1>4. \A l \in 1..Len(logs) : logs[l].msg_index \in Nat
  BY <1>1, BlocksAssumption
<1>5. \A l, m \in 1..Len(logs) : l <= m => logs[l].msg_index <= logs[m].msg_index
  BY <1>1 DEF LogsInOrder
<1> HIDE DEF LL, N
<1>6. ASSUME NEW i \in 1..N, NEW j \in 1..N, i < j,
             NEW y \in MsgNames(b, t, i - 1), NEW z \in MsgNames(b, t, j - 1)
      PROVE  InOrder(y, z) /\ y \in NameType /\ z \in NameType
  <2>1. y \in NameType /\ z \in NameType /\ y.kind \in {"msg", "event"} /\ z.kind \in {"msg", "event"}
    BY DEF MsgNames, EvSet
  <2>2. CASE y.kind = "event" /\ z.kind = "event"
    <3>1. /\ y.tx = t /\ y.at \in 1..Len(logs) /\ logs[y.at].msg_index = i - 1
          /\ z.tx = t /\ z.at \in 1..Len(logs) /\ logs[z.at].msg_index = j - 1
      BY <2>2 DEF MsgNames, EvSet
    <3>2. ~(z.at <= y.at)
      <4> HIDE DEF logs
      <4>1. ASSUME z.at <= y.at PROVE FALSE
        <5>1. logs[z.at].msg_index <= logs[y.at].msg_index
          BY <1>5, <3>1, <4>1
        <5>2. j - 1 <= i - 1
          BY <3>1, <5>1
        <5> QED
          BY <1>1, <1>6, <5>2
      <4> QED
        BY <4>1
    <3>3. y.at < z.at
      BY <1>1, <3>1, <3>2
    <3> QED
      BY <2>1, <2>2, <3>1, <3>3 DEF InOrder, Lex
  <2>3. CASE y.kind = "msg" \/ z.kind = "msg"
    BY <2>1, <2>3 DEF InOrder
  <2> QED
    BY <2>1, <2>2, <2>3
<1>7. ASSUME NEW i \in 1..N, NEW j \in 1..N, i < j, NEW p \in 1..Len(LL[i]), NEW q \in 1..Len(LL[j])
      PROVE  <<LL[i][p], LL[j][q]>> \in NameOrder
  <2>1. LL[i] \in Seq(MsgNames(b, t, i - 1)) /\ LL[j] \in Seq(MsgNames(b, t, j - 1))
    BY <1>3
  <2>2. LL[i][p] \in MsgNames(b, t, i - 1) /\ LL[j][q] \in MsgNames(b, t, j - 1)
    BY <2>1
  <2>3. InOrder(LL[i][p], LL[j][q]) /\ LL[i][p] \in NameType /\ LL[j][q] \in NameType
    BY <1>6, <1>7, <2>2
  <2> QED
    BY <2>3, NameOrderIs
<1>8. Sorted(FlattenSeq(LL), NameOrder)
  BY <1>2, <1>3, <1>7, FlattenSorted
<1>9. FlattenSeq(LL) \in Seq(B)
  <2>1. \A i \in 1..N : MsgNames(b, t, i - 1) \subseteq B
    BY DEF MsgNames, EvSet
  <2> HIDE DEF B
  <2>2. ASSUME NEW i \in 1..N PROVE LL[i] \in Seq(B)
    <3>1. LL[i] \in Seq(MsgNames(b, t, i - 1)) /\ MsgNames(b, t, i - 1) \subseteq B
      BY <1>3, <2>1
    <3> QED
      BY <3>1
  <2>3. LL \in Seq(Seq(B))
    <3> DEFINE T == Seq(B)
    <3>1. \A i \in 1..Len(LL) : LL[i] \in T
      BY <1>2, <2>2
    <3> HIDE DEF T
    <3>2. LL \in Seq(T)
      BY <1>2, <3>1, ListOver
    <3> QED
      BY <3>2 DEF T
  <2> QED
    BY <2>3, FlattenType
<1>10. x \in A
  <2>1. x \in NameType
    BY <1>1, NameIsName
  <2> QED
    BY <2>1 DEF Name
<1>11. A \in SUBSET NameType /\ B \in SUBSET NameType /\ A \cup B \subseteq InTxNames(t)
  BY DEF InTxNames
<1>12. \A y \in A, z \in B : InOrder(y, z)
  BY DEF InOrder
<1>13. TxOrders(b)[t] = Cat(<<x>>, FlattenSeq(LL))
  BY TxOrdersIs DEF LL
<1> HIDE DEF x, A, B
<1>14. <<x>> \in Seq(A) /\ Sorted(<<x>>, NameOrder)
  BY <1>10, OneSorted
<1>15. Sorted(Cat(<<x>>, FlattenSeq(LL)), NameOrder) /\ Cat(<<x>>, FlattenSeq(LL)) \in Seq(A \cup B)
  BY <1>8, <1>9, <1>11, <1>12, <1>14, NamesCatSorted
<1> QED
  BY <1>11, <1>13, <1>15

LEMMA NamesSorted ==
    ASSUME NEW k \in {"begin", "end"}, NEW n \in Nat
    PROVE  Sorted(Names(k, n), NameOrder) /\ Names(k, n) \in Seq({m \in NameType : m.kind = k})
<1> DEFINE L == Names(k, n)
<1>1. L \in Seq(NameType) /\ Len(L) = n /\ \A e \in 1..n : L[e] = Name(k, 0, 0, e)
  BY NamesIs
<1> HIDE DEF L
<1>2. ASSUME NEW e \in 1..n PROVE L[e] \in NameType /\ L[e].kind = k /\ L[e].ev = e
  <2>1. L[e] = Name(k, 0, 0, e) /\ L[e] \in NameType
    BY <1>1
  <2> QED
    BY <2>1 DEF Name
<1>3. ASSUME NEW p \in 1..n, NEW q \in 1..n, p < q PROVE <<L[p], L[q]>> \in NameOrder
  <2>1. InOrder(L[p], L[q])
    BY <1>2, <1>3 DEF InOrder
  <2> QED
    BY <1>2, <2>1, NameOrderIs
<1>4. Sorted(L, NameOrder)
  BY <1>1, <1>3 DEF Sorted
<1>5. L \in Seq({m \in NameType : m.kind = k})
  <2> DEFINE T == {m \in NameType : m.kind = k}
  <2>1. \A e \in 1..Len(L) : L[e] \in T
    BY <1>1, <1>2
  <2> HIDE DEF T
  <2>2. L \in Seq(T)
    BY <1>1, <2>1, ListOver
  <2> QED
    BY <2>2 DEF T
<1> QED
  BY <1>4, <1>5 DEF L

(* The chain order lists the events of such a block in their order.        *)
LEMMA ChainOrderSorted ==
    ASSUME NEW b \in Blocks, Constructible(b), LogsInOrder(b)
    PROVE  Sorted(ChainOrder(b), NameOrder)
<1> DEFINE K(ks) == {n \in NameType : n.kind \in ks}
           TT == TxOrders(b)
           X == AfterBegin(b, b.begin)
           Y == AfterTxs(b, Len(b.txs))
<1>0. b.begin \in Nat /\ b.end \in Nat /\ Len(b.txs) \in Nat
  BY BlockIs
<1>1. Sorted(BlockNames, NameOrder) /\ BlockNames \in Seq(K({"block"}))
  <2>1. Name("block", 0, 0, 0) \in NameType
    BY NameIsName
  <2>2. Name("block", 0, 0, 0) \in K({"block"})
    BY <2>1 DEF Name
  <2> HIDE DEF K
  <2> QED
    BY <2>2, OneSorted DEF BlockNames
<1>2. Sorted(X, NameOrder) /\ X \in Seq(K({"block", "begin"}))
  <2> DEFINE A == K({"block"})
             B == {n \in NameType : n.kind = "begin"}
             L == Names("begin", b.begin)
  <2>1. A \in SUBSET NameType /\ B \in SUBSET NameType /\ A \cup B = K({"block", "begin"})
    OBVIOUS
  <2>2. \A y \in A, z \in B : InOrder(y, z)
    BY DEF InOrder
  <2>3. Sorted(L, NameOrder) /\ L \in Seq(B)
    BY <1>0, NamesSorted
  <2>4. X = Cat(BlockNames, L)
    BY BeginPart
  <2>5. Sorted(BlockNames, NameOrder) /\ BlockNames \in Seq(A)
    BY <1>1
  <2> HIDE DEF A, B, L, K, X
  <2>6. Sorted(Cat(BlockNames, L), NameOrder) /\ Cat(BlockNames, L) \in Seq(A \cup B)
    BY <2>1, <2>2, <2>3, <2>5, NamesCatSorted
  <2> QED
    BY <2>1, <2>4, <2>6
<1>3. TT \in Seq(Seq(NameType)) /\ Len(TT) = Len(b.txs)
  BY TxOrdersIs
<1>4. \A t \in 1..Len(b.txs) : Sorted(TT[t], NameOrder) /\ TT[t] \in Seq(InTxNames(t))
  BY TxSorted
<1>5. ASSUME NEW t \in 1..Len(b.txs), NEW u \in 1..Len(b.txs), t < u,
             NEW p \in 1..Len(TT[t]), NEW q \in 1..Len(TT[u])
      PROVE  <<TT[t][p], TT[u][q]>> \in NameOrder
  <2> HIDE DEF TT
  <2>1. TT[t] \in Seq(InTxNames(t)) /\ TT[u] \in Seq(InTxNames(u))
    BY <1>4
  <2>2. TT[t][p] \in InTxNames(t) /\ TT[u][q] \in InTxNames(u)
    BY <2>1
  <2>3. InOrder(TT[t][p], TT[u][q]) /\ TT[t][p] \in NameType /\ TT[u][q] \in NameType
    BY <1>5, <2>2 DEF InTxNames, InOrder, Lex
  <2> QED
    BY <2>3, NameOrderIs
<1>6. Sorted(FlattenSeq(TT), NameOrder)
  <2> HIDE DEF TT
  <2> QED
    BY <1>3, <1>4, <1>5, FlattenSorted
<1>7. FlattenSeq(TT) \in Seq(K({"tx", "msg", "event"}))
  <2> DEFINE B == K({"tx", "msg", "event"})
  <2>1. \A t \in 1..Len(b.txs) : InTxNames(t) \subseteq B
    BY DEF InTxNames
  <2> HIDE DEF B, TT
  <2>2. ASSUME NEW t \in 1..Len(b.txs) PROVE TT[t] \in Seq(B)
    <3>1. TT[t] \in Seq(InTxNames(t)) /\ InTxNames(t) \subseteq B
      BY <1>4, <2>1
    <3> QED
      BY <3>1
  <2>3. TT \in Seq(Seq(B))
    <3> DEFINE T == Seq(B)
    <3>1. \A i \in 1..Len(TT) : TT[i] \in T
      BY <1>3, <2>2
    <3> HIDE DEF T
    <3>2. TT \in Seq(T)
      BY <1>3, <3>1, ListOver
    <3> QED
      BY <3>2 DEF T
  <2>4. FlattenSeq(TT) \in Seq(B)
    BY <2>3, FlattenType
  <2> QED
    BY <2>4 DEF B
<1>8. Sorted(Y, NameOrder) /\ Y \in Seq(K({"block", "begin", "tx", "msg", "event"}))
  <2> DEFINE A == K({"block", "begin"})
             B == K({"tx", "msg", "event"})
             F == FlattenSeq(TT)
  <2>1. /\ A \in SUBSET NameType /\ B \in SUBSET NameType
        /\ A \cup B = K({"block", "begin", "tx", "msg", "event"})
    OBVIOUS
  <2>2. \A y \in A, z \in B : InOrder(y, z)
    BY DEF InOrder
  <2>3. Y = Cat(X, F)
    BY TxsPart
  <2>4. Sorted(X, NameOrder) /\ X \in Seq(A) /\ Sorted(F, NameOrder) /\ F \in Seq(B)
    BY <1>2, <1>6, <1>7
  <2> HIDE DEF A, B, F, K, X, Y
  <2>5. Sorted(Cat(X, F), NameOrder) /\ Cat(X, F) \in Seq(A \cup B)
    BY <2>1, <2>2, <2>4, NamesCatSorted
  <2> QED
    BY <2>1, <2>3, <2>5
<1>9. ChainOrder(b) = Cat(Y, Names("end", b.end))
  <2>1. Names("end", b.end) \in Seq(NameType) /\ Len(Names("end", b.end)) = b.end
    BY <1>0, NamesIs
  <2>2. Y \in Seq(NameType)
    BY <1>0, TxsPart
  <2>3. Upto(Y, Names("end", b.end), Len(Names("end", b.end))) = Cat(Y, Names("end", b.end))
    <3> HIDE DEF Y
    <3> QED
      BY <2>1, <2>2, UptoIs
  <2>4. AfterEnd(b, b.end) = ChainOrder(b)
    BY EndPart
  <2> QED
    BY <2>1, <2>3, <2>4 DEF AfterEnd
<1> DEFINE A == K({"block", "begin", "tx", "msg", "event"})
           B == {n \in NameType : n.kind = "end"}
           L == Names("end", b.end)
<1>10. A \in SUBSET NameType /\ B \in SUBSET NameType
  OBVIOUS
<1>11. \A y \in A, z \in B : InOrder(y, z)
  BY DEF InOrder
<1>12. Sorted(L, NameOrder) /\ L \in Seq(B) /\ Sorted(Y, NameOrder) /\ Y \in Seq(A)
  BY <1>0, <1>8, NamesSorted
<1> HIDE DEF A, B, L, K, Y
<1>13. Sorted(Cat(Y, L), NameOrder)
  BY <1>10, <1>11, <1>12, NamesCatSorted
<1> QED
  BY <1>9, <1>13 DEF L

-----------------------------------------------------------------------------
(* What the lists hold: where an event stands in its list is its place in  *)
(* the block and, up to the offset of the list, its idx.                   *)
LEMMA ListHolds ==
    ASSUME TypeOK, UnsetEmpty, ContentInv, NEW g \in EventGetters
    PROVE  /\ Len(memo[g]) \in Nat
           /\ \E off \in Nat : \A p \in 1..Len(memo[g]) : memo[g][p].idx = off + p - 1
           /\ \A p \in 1..Len(memo[g]) :
                 /\ g = "beginBlockEvents" =>
                       NameOf(Item("event", memo[g][p])) = Name("begin", 0, 0, p)
                 /\ g = "endBlockEvents" =>
                       NameOf(Item("event", memo[g][p])) = Name("end", 0, 0, p)
                 /\ g = "events" =>
                       /\ p \in 1..Len(EventSources(blk))
                       /\ NameOf(Item("event", memo[g][p]))
                             = Name("event", EventSources(blk)[p].tx, EventSources(blk)[p].log,
                                    EventSources(blk)[p].ev)
<1>0. Len(memo[g]) \in Nat
  <2>1. memo[g] \in Seq(EventType)
    BY DEF TypeOK
  <2> QED
    BY <2>1
<1>1. CASE g \notin wrapped
  <2>1. memo[g] = <<>> /\ Len(<<>>) = 0
    BY <1>1 DEF UnsetEmpty
  <2>2. Len(memo[g]) = 0 /\ 0 \in Nat
    BY <2>1
  <2> QED
    BY <2>2
<1>2. ASSUME g \in wrapped, NEW at \in {"begin", "end"}, NEW n \in Nat, NEW off \in Nat,
             memo[g] = WrapBlockBeginAndEndEvents(at, n, off)
      PROVE  \A p \in 1..Len(memo[g]) :
               /\ memo[g][p].idx = off + p - 1
               /\ NameOf(Item("event", memo[g][p])) = Name(at, 0, 0, p)
  <2> DEFINE w == WrapBlockBeginAndEndEvents(at, n, off)
  <2>1. /\ Len(w) = n
        /\ \A i \in 1..n : w[i] = [idx |-> off + i - 1, src |-> Source(at, 0, 0, i), msg |-> NoMsg]
    BY BeginEndSpelled
  <2> HIDE DEF w
  <2>2. ASSUME NEW p \in 1..n
        PROVE  w[p].idx = off + p - 1 /\ NameOf(Item("event", w[p])) = Name(at, 0, 0, p)
    <3>1. w[p] = [idx |-> off + p - 1, src |-> Source(at, 0, 0, p), msg |-> NoMsg]
      BY <2>1
    <3>2. w[p].idx = off + p - 1 /\ w[p].src = Source(at, 0, 0, p)
      BY <3>1
    <3>3. w[p].src.at = at /\ w[p].src.ev = p /\ at # "tx"
      BY <3>2 DEF Source
    <3> QED
      BY <3>2, <3>3 DEF NameOf, Item
  <2> QED
    BY <1>2, <2>1, <2>2 DEF w
<1>3. blk \in Blocks /\ blk.begin \in Nat /\ blk.end \in Nat
  BY BlocksAssumption DEF TypeOK
<1>4. CASE g \in wrapped /\ g = "beginBlockEvents"
  <2>1. PICK off \in Nat : memo[g] = WrapBlockBeginAndEndEvents("begin", blk.begin, off)
    BY <1>4 DEF ContentInv
  <2>2. \A p \in 1..Len(memo[g]) : /\ memo[g][p].idx = off + p - 1
                                   /\ NameOf(Item("event", memo[g][p])) = Name("begin", 0, 0, p)
    BY <1>2, <1>3, <1>4, <2>1
  <2> QED
    BY <1>0, <1>4, <2>2
<1>5. CASE g \in wrapped /\ g = "endBlockEvents"
  <2>1. PICK off \in Nat : memo[g] = WrapBlockBeginAndEndEvents("end", blk.end, off)
    BY <1>5 DEF ContentInv
  <2>2. \A p \in 1..Len(memo[g]) : /\ memo[g][p].idx = off + p - 1
                                   /\ NameOf(Item("event", memo[g][p])) = Name("end", 0, 0, p)
    BY <1>2, <1>3, <1>5, <2>1
  <2> QED
    BY <1>0, <1>5, <2>2
<1>6. CASE g \in wrapped /\ g = "events"
  <2> DEFINE srcs == EventSources(blk)
  <2>1. PICK off \in Nat : memo[g] = WrapEvent(blk, off)
    BY <1>6 DEF ContentInv
  <2>2. /\ srcs \in Seq(TxSource(blk)) /\ Len(memo[g]) = Len(srcs)
        /\ \A k \in 1..Len(srcs) : memo[g][k].idx = off + k - 1 /\ memo[g][k].src = srcs[k]
    BY <1>3, <2>1, WrapEventIs
  <2> HIDE DEF srcs
  <2>3. ASSUME NEW p \in 1..Len(memo[g])
        PROVE  /\ memo[g][p].idx = off + p - 1 /\ p \in 1..Len(srcs)
               /\ NameOf(Item("event", memo[g][p])) = Name("event", srcs[p].tx, srcs[p].log, srcs[p].ev)
    <3>1. /\ p \in 1..Len(srcs) /\ memo[g][p].idx = off + p - 1 /\ memo[g][p].src = srcs[p]
          /\ srcs[p] \in TxSource(blk)
      BY <2>2
    <3>2. srcs[p].at = "tx"
      BY <3>1 DEF TxSource
    <3> QED
      BY <3>1, <3>2 DEF NameOf, Item
  <2> QED
    BY <1>0, <1>6, <2>3 DEF srcs
<1> QED
  BY <1>1, <1>4, <1>5, <1>6 DEF EventGetters

(* Two listed events whose names are in order have increasing idx.         *)
LEMMA IdxByName ==
    ASSUME TypeOK, UnsetEmpty, ContentInv, ListInv,
           NEW e, NEW f, ListedIn(memo, e), ListedIn(memo, f),
           InOrder(NameOf(Item("event", e)), NameOf(Item("event", f)))
    PROVE  e.idx < f.idx
<1>1. PICK g \in EventGetters : \E p \in 1..Len(memo[g]) : e = memo[g][p]
  BY DEF ListedIn
<1>2. PICK p \in 1..Len(memo[g]) : e = memo[g][p]
  BY <1>1
<1>3. PICK h \in EventGetters : \E q \in 1..Len(memo[h]) : f = memo[h][q]
  BY DEF ListedIn
<1>4. PICK q \in 1..Len(memo[h]) : f = memo[h][q]
  BY <1>3
<1> DEFINE x == NameOf(Item("event", e))
           y == NameOf(Item("event", f))
           srcs == EventSources(blk)
<1>5. /\ Len(memo[g]) \in Nat
      /\ g = "beginBlockEvents" => x = Name("begin", 0, 0, p)
      /\ g = "endBlockEvents" => x = Name("end", 0, 0, p)
      /\ g = "events" => /\ p \in 1..Len(srcs)
                         /\ x = Name("event", srcs[p].tx, srcs[p].log, srcs[p].ev)
  BY <1>2, ListHolds
<1>6. /\ Len(memo[h]) \in Nat
      /\ h = "beginBlockEvents" => y = Name("begin", 0, 0, q)
      /\ h = "endBlockEvents" => y = Name("end", 0, 0, q)
      /\ h = "events" => /\ q \in 1..Len(srcs)
                         /\ y = Name("event", srcs[q].tx, srcs[q].log, srcs[q].ev)
  BY <1>4, ListHolds
<1>7. InOrder(x, y)
  OBVIOUS
<1>8. ASSUME g = h, p < q PROVE e.idx < f.idx
  <2>1. PICK off \in Nat : \A k \in 1..Len(memo[g]) : memo[g][k].idx = off + k - 1
    BY ListHolds
  <2> QED
    BY <1>2, <1>4, <1>5, <1>8, <2>1
<1> HIDE DEF x, y
<1>9. CASE g = h /\ g \in {"beginBlockEvents", "endBlockEvents"}
  <2>1. p < q
    BY <1>5, <1>6, <1>7, <1>9 DEF InOrder, Name
  <2> QED
    BY <1>8, <1>9, <2>1
<1>10. CASE g = h /\ g = "events"
  <2>1. blk \in Blocks /\ srcs \in Seq(TxSource(blk)) /\ Sorted(srcs, SourceOrder(blk))
    BY EventSourcesType, SourcesSorted DEF TypeOK
  <2> HIDE DEF srcs
  <2>2. srcs[p] \in TxSource(blk) /\ srcs[q] \in TxSource(blk) /\ p \in Nat /\ q \in Nat
    BY <1>5, <1>6, <1>10, <2>1
  <2>3. /\ srcs[p].tx \in Nat /\ srcs[p].log \in Nat /\ srcs[p].ev \in Nat
        /\ srcs[q].tx \in Nat /\ srcs[q].log \in Nat /\ srcs[q].ev \in Nat
    BY <2>2 DEF TxSource, SourceType
  <2>4. Lex(srcs[p].tx, srcs[p].log, srcs[p].ev, srcs[q].tx, srcs[q].log, srcs[q].ev)
    BY <1>5, <1>6, <1>7, <1>10 DEF InOrder, Name
  <2>5. p # q
    BY <2>3, <2>4 DEF Lex
  <2>6. ~(q < p)
    <3>1. ASSUME q < p PROVE FALSE
      <4>1. <<srcs[q], srcs[p]>> \in SourceOrder(blk)
        BY <1>5, <1>6, <1>10, <2>1, <3>1 DEF Sorted
      <4>2. Lex(srcs[q].tx, srcs[q].log, srcs[q].ev, srcs[p].tx, srcs[p].log, srcs[p].ev)
        BY <2>2, <4>1, SourceOrderIs
      <4> QED
        BY <2>3, <2>4, <4>2 DEF Lex
    <3> QED
      BY <3>1
  <2>7. p < q
    BY <2>2, <2>5, <2>6
  <2> QED
    BY <1>8, <1>10, <2>7
<1>11. CASE \/ g = "beginBlockEvents" /\ h \in {"events", "endBlockEvents"}
            \/ g = "events" /\ h = "endBlockEvents"
  BY <1>2, <1>4, <1>11 DEF ListInv, AllBefore
<1>12. CASE \/ h = "beginBlockEvents" /\ g \in {"events", "endBlockEvents"}
            \/ h = "events" /\ g = "endBlockEvents"
  BY <1>5, <1>6, <1>7, <1>12 DEF InOrder, Name
<1> QED
  BY <1>9, <1>10, <1>11, <1>12 DEF EventGetters

IdxRises(w) ==
    \A j, k \in 1..Len(w) :
        j < k /\ w[j].kind = "event" /\ w[k].kind = "event" => w[j].obj.idx < w[k].obj.idx

LEMMA NamesOfIs ==
    ASSUME NEW S, NEW w \in Seq(S)
    PROVE  /\ NamesOf(w) \in Seq({NameOf(w[k]) : k \in 1..Len(w)} \cup NameType)
           /\ Len(NamesOf(w)) = Len(w)
           /\ \A k \in 1..Len(w) : NamesOf(w)[k] = NameOf(w[k])
<1> DEFINE T == {NameOf(w[k]) : k \in 1..Len(w)} \cup NameType
<1>1. Len(w) \in Nat /\ \A k \in 1..Len(w) : NameOf(w[k]) \in T
  OBVIOUS
<1> HIDE DEF T
<1>2. NamesOf(w) \in [1..Len(w) -> T] /\ \A k \in 1..Len(w) : NamesOf(w)[k] = NameOf(w[k])
  BY <1>1 DEF NamesOf
<1> QED
  BY <1>1, <1>2 DEF T

(* Along a walk the idx of the events rises.                               *)
LEMMA WalkedIdx ==
    ASSUME Base, OrderInv, ListInv, ListedInv, DistinctHashes(blk), LogsInOrder(blk),
           stage # "failed"
    PROVE  IdxRises(Walked)
<1> DEFINE C == ChainOrder(blk)
           W == NamesOf(Walked)
<1>1. PICK S : Walked \in Seq(S)
  BY BaseBlock
<1> DEFINE T == {NameOf(Walked[k]) : k \in 1..Len(Walked)} \cup NameType
<1>2. /\ W \in Seq(T) /\ Len(W) = Len(Walked) /\ \A k \in 1..Len(Walked) : W[k] = NameOf(Walked[k])
  BY <1>1, NamesOfIs
<1>3. C \in Seq(NameType) /\ Sorted(C, NameOrder)
  BY BaseBlock, EndPart, ChainOrderSorted
<1>4. IsPrefix(W, C)
  BY WalkedInOrder
<1>5. C \in Seq(T)
  <2> HIDE DEF C
  <2>1. \A k \in 1..Len(C) : C[k] \in T
    BY <1>3
  <2> HIDE DEF T
  <2> QED
    BY <1>3, <2>1, ListOver
<1> HIDE DEF T, W, C
<1>6. Len(W) <= Len(C) /\ \A k \in 1..Len(W) : W[k] = C[k]
  BY <1>2, <1>4, <1>5, PrefixIs
<1> SUFFICES ASSUME NEW j \in 1..Len(Walked), NEW k \in 1..Len(Walked), j < k,
                    Walked[j].kind = "event", Walked[k].kind = "event"
             PROVE  Walked[j].obj.idx < Walked[k].obj.idx
  BY DEF IdxRises
<1> DEFINE e == Walked[j].obj
           f == Walked[k].obj
<1>7. j \in 1..Len(C) /\ k \in 1..Len(C)
  BY <1>1, <1>2, <1>3, <1>6
<1>8. C[j] \in NameType /\ C[k] \in NameType /\ <<C[j], C[k]>> \in NameOrder
  BY <1>3, <1>7 DEF Sorted
<1>9. InOrder(C[j], C[k])
  BY <1>8, NameOrderIs
<1>10. NameOf(Walked[j]) = NameOf(Item("event", e)) /\ NameOf(Walked[k]) = NameOf(Item("event", f))
  BY DEF NameOf, Item
<1>11. C[j] = NameOf(Walked[j]) /\ C[k] = NameOf(Walked[k])
  BY <1>2, <1>6
<1>12. InOrder(NameOf(Item("event", e)), NameOf(Item("event", f)))
  BY <1>9, <1>10, <1>11
<1>13. ListedIn(memo, e) /\ ListedIn(memo, f)
  BY DEF ListedInv, WalkListed
<1> HIDE DEF e, f
<1>14. e.idx < f.idx
  BY <1>12, <1>13, IdxByName DEF Base, IInv
<1> QED
  BY <1>14 DEF e, f

-----------------------------------------------------------------------------
(* What every data source was given is part of one walk whose names begin  *)
(* the chain order and along which the idx of the events rises; once a     *)
(* handler failed, of the walk as it was then.                             *)
GoodWalk(w) ==
    /\ \E S : w \in Seq(S)
    /\ DistinctHashes(blk) => IsPrefix(NamesOf(w), ChainOrder(blk))
    /\ DistinctHashes(blk) /\ LogsInOrder(blk) => IdxRises(w)

GivenFromWalk == \E w : GoodWalk(w) /\ Handed(w)
FailInv == stage = "failed" => GivenFromWalk

LEMMA WalkIsGood ==
    ASSUME Base, OrderInv, ListInv, ListedInv, stage # "failed"
    PROVE  GoodWalk(Walked)
BY BaseBlock, WalkedInOrder, WalkedIdx DEF GoodWalk

LEMMA FailInvStep ==
    ASSUME Base, OrderInv, ListInv, ListedInv, FailInv, [IndexNext]_indexVars
    PROVE  FailInv'
<1> SUFFICES ASSUME stage' = "failed" PROVE GivenFromWalk'
  BY DEF FailInv
<1>1. blk' = blk
  BY StepReadsContent, StepEffect DEF Base
<1>2. ASSUME NEW w, GoodWalk(w) PROVE GoodWalk(w)'
  BY <1>1, <1>2 DEF GoodWalk
<1>3. ASSUME NEW w, Handed(w), dss' = dss, seen' = seen PROVE Handed(w)'
  BY <1>3 DEF Handed
<1>4. CASE stage = "failed"
  <2>1. dss' = dss /\ seen' = seen
    BY <1>4 DEF IndexNext, IndexStep, IndexData, IndexDataCreatesDs, IndexDataThrows, Give,
       Indexing, StartBlock, EnterBegin, EnterTxs, EnterMsgs, MessagesThrow, EnterEvents,
       EnterEnd, NextBegin, NextTx, NextMsg, NextEvent, NextEnd, Step, LeaveEvents, LeaveMsgs,
       LeaveEnd, Exhausted, Ready, Rest, indexVars, driver
  <2>2. PICK w : GoodWalk(w) /\ Handed(w)
    BY <1>4 DEF FailInv, GivenFromWalk
  <2>3. GoodWalk(w)' /\ Handed(w)'
    BY <1>2, <1>3, <2>1, <2>2
  <2> QED
    BY <2>3 DEF GivenFromWalk
<1>5. CASE stage # "failed"
  <2>1. PICK w : w = Walked
    OBVIOUS
  <2>2. GoodWalk(w) /\ Handed(w)
    BY <1>5, <2>1, WalkIsGood, WalkIsHanded
  <2>3. GoodWalk(w)'
    BY <1>2, <2>2
  <2>4. IndexDataThrows \/ MessagesThrow
    BY <1>5 DEF IndexNext, IndexStep, IndexData, IndexDataCreatesDs, StartBlock, EnterBegin,
       EnterTxs, EnterMsgs, EnterEvents, EnterEnd, Enter, NextBegin, NextTx, NextMsg, NextEvent,
       NextEnd, Step, LeaveEvents, LeaveMsgs, LeaveEnd, Leave, Rest, indexVars, driver
  <2>5. CASE IndexDataThrows
    <3>1. Handed(w)'
      BY <2>1, <2>5, ThrowIsHanded
    <3> QED
      BY <2>3, <3>1 DEF GivenFromWalk
  <2>6. CASE MessagesThrow
    <3>1. dss' = dss /\ seen' = seen
      BY <2>6 DEF MessagesThrow
    <3>2. Handed(w)'
      BY <1>3, <2>2, <3>1
    <3> QED
      BY <2>3, <3>2 DEF GivenFromWalk
  <2> QED
    BY <2>4, <2>5, <2>6
<1> QED
  BY <1>4, <1>5

LEMMA GivenFromWalkHolds ==
    Base /\ OrderInv /\ ListInv /\ ListedInv /\ FailInv => GivenFromWalk
<1> SUFFICES ASSUME Base, OrderInv, ListInv, ListedInv, FailInv PROVE GivenFromWalk
  OBVIOUS
<1>1. CASE stage = "failed"
  BY <1>1 DEF FailInv
<1>2. CASE stage # "failed"
  <2>1. GoodWalk(Walked) /\ Handed(Walked)
    BY <1>2, WalkIsGood, WalkIsHanded
  <2> QED
    BY <2>1 DEF GivenFromWalk
<1> QED
  BY <1>1, <1>2

(* The invariants of the walk, together inductive.                         *)
LEMMA WalkInvariants ==
    IndexSpec => [](Base /\ OrderInv /\ ListInv /\ ListedInv /\ FailInv)
<1>1. IndexSpec => []IInv
  <2>1. IndexInit => IInv
    BY InitIInv DEF IndexInit
  <2>2. IInv /\ [IndexNext]_indexVars => IInv'
    BY StepReadsContent, NextIInv
  <2> QED
    BY <2>1, <2>2, PTL DEF IndexSpec
<1>2. IInv => TypeOK
  BY DEF IInv
<1>3. IndexSpec => []ContentInv
  <2>1. IndexInit => ContentInv
    BY ContentInvInit DEF IndexInit
  <2>2. TypeOK /\ ContentInv /\ [IndexNext]_indexVars => ContentInv'
    BY StepReadsContent, ContentInvInductive
  <2> QED
    BY <1>1, <1>2, <2>1, <2>2, PTL DEF IndexSpec
<1>4. TypeOK /\ IInv /\ ContentInv /\ WalkInv /\ SeenShape /\ FollowInv => Base
  BY DEF Base
<1>5. IndexSpec => []Base
  BY <1>1, <1>2, <1>3, <1>4, FollowInvariant, PTL
<1>6. IndexInit => OrderInv /\ ListInv /\ ListedInv /\ FailInv
  <2>1. IndexInit => FailInv
    BY DEF IndexInit, FailInv
  <2> QED
    BY <2>1, OrderInvInit, ListInvInit, ListedInvInit
<1>7. /\ Base /\ Base' /\ OrderInv /\ ListInv /\ ListedInv /\ FailInv
      /\ [IndexNext]_indexVars
      => OrderInv' /\ ListInv' /\ ListedInv' /\ FailInv'
  <2> SUFFICES ASSUME Base, Base', OrderInv, ListInv, ListedInv, FailInv, [IndexNext]_indexVars
               PROVE  OrderInv' /\ ListInv' /\ ListedInv' /\ FailInv'
    OBVIOUS
  <2>1. ContentInv' /\ TypeOK' /\ IInv
    BY DEF Base
  <2>2. OrderInv'
    BY <2>1, OrderInvStep
  <2>3. ListInv'
    BY <2>1, ListInvStep
  <2>4. ListedInv'
    BY <2>1, ListedInvStep
  <2>5. FailInv'
    BY FailInvStep
  <2> QED
    BY <2>2, <2>3, <2>4, <2>5
<1> QED
  BY <1>5, <1>6, <1>7, PTL DEF IndexSpec

(* The data sources of the project are given the items of a block in chain *)
(* order, none skipped, repeated or out of turn, whatever the handlers do  *)
(* and wherever one fails: for every block whose transactions differ,      *)
(* every number of data sources and every moment of the walk.              *)
THEOREM WalkIsInChainOrder == IndexSpec => []GivenInChainOrder
<1>1. Base /\ GivenFromWalk => GivenInChainOrder
  <2> SUFFICES ASSUME Base, GivenFromWalk, DistinctHashes(blk), NEW d \in 1..StaticDs
               PROVE  IsPrefix(Given(d), ChainOrder(blk))
    BY DEF GivenInChainOrder
  <2> DEFINE C == ChainOrder(blk)
             s == seen[d]
  <2>1. PICK w : GoodWalk(w) /\ Handed(w)
    BY DEF GivenFromWalk
  <2>2. PICK S : w \in Seq(S)
    BY <2>1 DEF GoodWalk
  <2>3. d \in 1..Len(dss) /\ d \in 1..MaxDs /\ d <= StaticDs
    BY DsAssumption DEF Base, WalkInv
  <2>4. PICK R : s \in Seq(R)
    BY <2>3 DEF Base, SeenShape
  <2>5. PICK m \in Nat : /\ m + Len(s) <= Len(w)
                         /\ \A i \in 1..Len(s) : s[i] = w[m + i]
                         /\ d <= StaticDs => m = 0
    BY <2>1, <2>3 DEF Handed
  <2>6. Len(s) \in Nat /\ Len(w) \in Nat /\ m = 0
    BY <2>2, <2>3, <2>4, <2>5
  <2>7. Len(s) <= Len(w) /\ \A i \in 1..Len(s) : i \in 1..Len(w) /\ s[i] = w[i]
    BY <2>5, <2>6
  <2> DEFINE T == {NameOf(w[k]) : k \in 1..Len(w)} \cup NameType
             W == NamesOf(w)
  <2>8. W \in Seq(T) /\ Len(W) = Len(w) /\ \A k \in 1..Len(w) : W[k] = NameOf(w[k])
    BY <2>2, NamesOfIs
  <2>9. C \in Seq(NameType) /\ IsPrefix(W, C)
    BY <2>1, BaseBlock, EndPart DEF GoodWalk
  <2> HIDE DEF C, W
  <2>10. C \in Seq(T)
    <3>1. \A k \in 1..Len(C) : C[k] \in T
      BY <2>9
    <3> HIDE DEF T
    <3> QED
      BY <2>9, <3>1, ListOver
  <2> HIDE DEF T
  <2>11. Len(W) <= Len(C) /\ \A k \in 1..Len(W) : W[k] = C[k]
    BY <2>8, <2>9, <2>10, PrefixIs
  <2>12. Given(d) = [k \in 1..Len(s) |-> NameOf(s[k])]
    BY <2>4 DEF Given
  <2> HIDE DEF s
  <2>13. Len(C) \in Nat /\ Len(s) <= Len(C)
    BY <2>6, <2>7, <2>8, <2>9, <2>11
  <2>14. ASSUME NEW k \in 1..Len(s) PROVE NameOf(s[k]) = C[k] /\ C[k] \in NameType
    <3>1. k \in 1..Len(w) /\ s[k] = w[k] /\ k \in 1..Len(C)
      BY <2>6, <2>7, <2>13
    <3>2. C[k] = NameOf(w[k])
      BY <2>8, <2>11, <3>1
    <3> QED
      BY <2>9, <3>1, <3>2
  <2>15. Given(d) \in [1..Len(s) -> NameType] /\ \A k \in 1..Len(s) : Given(d)[k] = C[k]
    BY <2>12, <2>14
  <2>16. Given(d) \in Seq(NameType) /\ Len(Given(d)) = Len(s)
    BY <2>6, <2>15
  <2> QED
    BY <2>9, <2>13, <2>15, <2>16, PrefixIs DEF C
<1> QED
  BY <1>1, GivenFromWalkHolds, WalkInvariants, PTL

(* When indexBlockData returns, every data source of the project was given *)
(* all of the block: every event of every message of every transaction.    *)
THEOREM WalkGivesWholeBlock == IndexSpec => []WholeBlockGiven
<1>1. Base /\ OrderInv => WholeBlockGiven
  <2> SUFFICES ASSUME Base, OrderInv, stage = "done", DistinctHashes(blk), NEW d \in 1..StaticDs
               PROVE  Given(d) = ChainOrder(blk)
    BY DEF WholeBlockGiven
  <2> DEFINE s == seen[d]
             w == Walked
  <2>1. item = NoItem /\ NamesOf(w) = ChainOrder(blk)
    BY DEF OrderInv
  <2>2. d \in 1..Len(dss) /\ d \in 1..MaxDs /\ d <= StaticDs
    BY DsAssumption DEF Base, WalkInv
  <2>3. /\ Len(s) \in Nat /\ Len(w) \in Nat /\ Missed(d) \in Nat
        /\ Missed(d) + Len(s) + Behind(d) = Len(w)
        /\ \A i \in 1..Len(s) : s[i] = w[Missed(d) + i]
        /\ d <= StaticDs => Missed(d) = 0
    BY <2>2, FollowsHanded
  <2>4. Missed(d) = 0 /\ Behind(d) = 0
    BY <2>1, <2>2, <2>3 DEF Behind
  <2>5. PICK R : s \in Seq(R)
    BY <2>2 DEF Base, SeenShape
  <2>6. Given(d) = [k \in 1..Len(s) |-> NameOf(s[k])]
    BY <2>5 DEF Given
  <2> HIDE DEF s, w
  <2>7. Len(s) = Len(w) /\ \A i \in 1..Len(s) : s[i] = w[i]
    BY <2>3, <2>4
  <2>8. [k \in 1..Len(s) |-> NameOf(s[k])] = [k \in 1..Len(w) |-> NameOf(w[k])]
    BY <2>7
  <2> QED
    BY <2>1, <2>6, <2>8 DEF NamesOf
<1> QED
  BY <1>1, WalkInvariants, PTL

(* Events reach every data source, one created by a handler included, by   *)
(* increasing idx: the lazy reads of the walk number begin block events    *)
(* before those of the transactions and these before end block events.     *)
THEOREM WalkIdxIncreases == IndexSpec => []EventIdxIncreases
<1>1. Base /\ GivenFromWalk => EventIdxIncreases
  <2> SUFFICES ASSUME Base, GivenFromWalk, DistinctHashes(blk), LogsInOrder(blk),
                      NEW d \in 1..Len(dss), NEW j \in 1..Len(seen[d]), NEW k \in 1..Len(seen[d]),
                      j < k, seen[d][j].kind = "event", seen[d][k].kind = "event"
               PROVE  seen[d][j].obj.idx < seen[d][k].obj.idx
    BY DEF EventIdxIncreases
  <2> DEFINE s == seen[d]
  <2>1. PICK w : GoodWalk(w) /\ Handed(w)
    BY DEF GivenFromWalk
  <2>2. PICK S : w \in Seq(S)
    BY <2>1 DEF GoodWalk
  <2>3. PICK m \in Nat : /\ m + Len(s) <= Len(w)
                         /\ \A i \in 1..Len(s) : s[i] = w[m + i]
    BY <2>1 DEF Handed
  <2>4. d \in 1..MaxDs
    BY DsAssumption DEF Base, WalkInv
  <2>5. PICK R : s \in Seq(R)
    BY <2>4 DEF Base, SeenShape
  <2>6. /\ m + j \in 1..Len(w) /\ m + k \in 1..Len(w) /\ m + j < m + k
        /\ s[j] = w[m + j] /\ s[k] = w[m + k]
    BY <2>2, <2>3, <2>5
  <2>7. IdxRises(w)
    BY <2>1 DEF GoodWalk
  <2> QED
    BY <2>6, <2>7 DEF IdxRises
<1> QED
  BY <1>1, GivenFromWalkHolds, WalkInvariants, PTL

=============================================================================
