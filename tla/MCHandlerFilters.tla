-------------------------- MODULE MCHandlerFilters --------------------------
(* Messages, events and filters small enough to try all of each other.     *)
EXTENDS HandlerFilters, TLC

Send == "/cosmos.bank.v1beta1.MsgSend"

Paths == {<<"codeId">>, <<"msg">>, <<"msg", "swap">>, <<"msg", "swap", "token">>}

(* Bodies: a plain call, a call with arguments, a body with a Long, none.  *)
MCLeaves ==
    { <<"msg">> :> Str("swap"),
      <<"msg", "swap", "token">> :> Str("A") @@ <<"codeId">> :> Long("4"),
      <<"msg", "swap">> :> Str("A"),
      <<"codeId">> :> Long("4"),
      <<"msg", "swap", "token">> :> Str("B") }

MCMessages ==
    [code : {0, 5}, typeUrl : {ExecuteContract, Send},
     decodable : {TRUE}, leaves : MCLeaves]
    \cup [code : {0, 5}, typeUrl : {ExecuteContract, Send},
          decodable : {FALSE}, leaves : {<<>>}]

MCValue == [path : Paths, wanted : {Str("A"), Str("4"), Num("4")}]

MCValues ==
    {<<>>} \cup {<<v>> : v \in MCValue}
    \cup {<<[path |-> <<"codeId">>, wanted |-> Str("4")],
            [path |-> <<"msg", "swap", "token">>, wanted |-> Str("A")]>>}

MCMessageFilters ==
    {NoFilter} \cup
    {f \in [type : {ExecuteContract, Send}, includeFailedTx : BOOLEAN,
            values : MCValues, contractCall : {"", "swap"}] :
        f.type = Send => f.contractCall = "" /\ ~f.includeFailedTx}

MCAsked == MCMessageFilters \ {NoFilter}

MCEvents ==
    [type : {"wasm", "transfer"},
     attributes : SUBSET {<<"k", "1">>, <<"l", "1">>},
     msg : {<<>>} \cup {<<m>> : m \in {n \in MCMessages : n.code = 0}}]

MCEventFilters ==
    {NoEventFilter} \cup
    [type : {"wasm"},
     messageFilter : {NoFilter} \cup
        {f \in MCAsked : f.type = ExecuteContract /\ ~f.includeFailedTx
                         /\ f.contractCall = "swap"},
     attributes : {{}, {<<"k", "1">>, <<"l", "1">>}}]

=============================================================================
