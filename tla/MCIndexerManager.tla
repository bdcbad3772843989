-------------------------- MODULE MCIndexerManager --------------------------
(* Small blocks for IndexerManager.                                        *)
EXTENDS IndexerManager

Log(i, n) == [msg_index |-> i, events |-> n]

Shape(decodable, msgs, code, parsed, logs) ==
    [decodable |-> decodable, msgs |-> msgs, code |-> code,
     parsed |-> parsed, logs |-> logs]

TwoMsgs == Shape(TRUE, 2, 0, TRUE, <<Log(0, 2), Log(1, 1)>>)
NoLogs == Shape(TRUE, 1, 0, TRUE, <<>>)
Failed == Shape(TRUE, 1, 5, FALSE, <<>>)
Undecodable == Shape(FALSE, 0, 0, TRUE, <<Log(0, 1)>>)
MissingMsg == Shape(TRUE, 1, 0, TRUE, <<Log(0, 1), Log(1, 1)>>)
Swapped == Shape(TRUE, 2, 0, TRUE, <<Log(1, 1), Log(0, 1)>>)

MCBlock(n, m, ss, hash) ==
    [begin |-> n, end |-> m,
     txs |-> [t \in 1..Len(ss) |->
        [hash |-> hash[t], decodable |-> ss[t].decodable, msgs |-> ss[t].msgs]],
     results |-> [t \in 1..Len(ss) |->
        [code |-> ss[t].code, parsed |-> ss[t].parsed, logs |-> ss[t].logs]]]

(* Blocks with every kind of transaction, and two blocks the code does not *)
(* expect: the same transaction twice, and logs that are out of order.     *)
MCShapes == {TwoMsgs, NoLogs, Failed, Undecodable, MissingMsg}

MCBlocks ==
    {MCBlock(n, m, ss, <<1, 2>>) :
        n \in {0, 2}, m \in {0, 1}, ss \in BoundedSeq(MCShapes, 2)}
    \cup {MCBlock(1, 1, <<NoLogs, NoLogs>>, <<1, 1>>),
          MCBlock(1, 1, <<Swapped>>, <<1>>)}

=============================================================================
