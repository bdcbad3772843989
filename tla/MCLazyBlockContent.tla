------------------------- MODULE MCLazyBlockContent -------------------------
(* Small raw blocks for LazyBlockContent.                                  *)
EXTENDS LazyBlockContent

Log(i, n) == [msg_index |-> i, events |-> n]

(* The shapes of a transaction and its result: executed with two messages; *)
(* executed with a log that names a message the body lacks; failed, its    *)
(* raw log no JSON; of a body that does not decode; executed without logs. *)
MCShapes ==
    { [decodable |-> TRUE, msgs |-> 2, code |-> 0, parsed |-> TRUE,
       logs |-> <<Log(0, 2), Log(1, 1)>>],
      [decodable |-> TRUE, msgs |-> 1, code |-> 0, parsed |-> TRUE,
       logs |-> <<Log(0, 1), Log(1, 1)>>],
      [decodable |-> TRUE, msgs |-> 1, code |-> 5, parsed |-> FALSE,
       logs |-> <<>>],
      [decodable |-> FALSE, msgs |-> 0, code |-> 0, parsed |-> TRUE,
       logs |-> <<Log(0, 1)>>],
      [decodable |-> TRUE, msgs |-> 1, code |-> 0, parsed |-> TRUE,
       logs |-> <<>>] }

MCMaxTxs == 2

(* Shapes ss laid out as a block with n begin and m end block events.      *)
MCBlock(n, m, ss) ==
    [begin |-> n, end |-> m,
     txs |-> [t \in 1..Len(ss) |->
        [hash |-> t, decodable |-> ss[t].decodable, msgs |-> ss[t].msgs]],
     results |-> [t \in 1..Len(ss) |->
        [code |-> ss[t].code, parsed |-> ss[t].parsed, logs |-> ss[t].logs]]]

MCBlocks ==
    {MCBlock(n, m, ss) :
        n \in {0, 2}, m \in {0, 1}, ss \in BoundedSeq(MCShapes, MCMaxTxs)}

=============================================================================
