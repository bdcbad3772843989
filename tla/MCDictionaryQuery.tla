------------------------- MODULE MCDictionaryQuery --------------------------
(* Handlers and blocks for DictionaryQuery.                                *)
EXTENDS DictionaryQuery, TLC

Send == "/cosmos.bank.v1beta1.MsgSend"

MCIndices == <<"0", "1">>

(* Messages with nested fields, an array of two and a Long.                *)
MCMessages ==
    [code : {0, 5}, typeUrl : {ExecuteContract, Send}, decodable : {TRUE},
     leaves : { <<"msg", "swap">> :> Str("A"),
                <<"msg", "swap">> :> Str("B") @@ <<"codeId">> :> Long("4"),
                <<"funds", "0", "denom">> :> Str("A")
                    @@ <<"funds", "1", "denom">> :> Str("B") }]

MCEvents ==
    [type : {"wasm", "transfer"}, attributes : {{<<"k", "1">>}},
     msg : {<<>>} \cup {<<m>> : m \in {n \in MCMessages : n.code = 0}}]

(* At most one message and one event per block.                            *)
MCBlocks ==
    {[height |-> n, txs |-> {m.code : m \in ms}, messages |-> ms, events |-> es] :
        n \in {3, 4},
        ms \in {{}} \cup {{m} : m \in MCMessages},
        es \in {{}} \cup {{e} : e \in MCEvents}}

Value(path, wanted) == [path |-> path, wanted |-> wanted]

MessageFilter(type, values, call) ==
    [type |-> type, includeFailedTx |-> FALSE, values |-> values,
     contractCall |-> call]

MCMessageFilters ==
    { MessageFilter(ExecuteContract, <<>>, "swap"),
      MessageFilter(ExecuteContract, <<Value(<<"msg", "swap">>, Str("A"))>>, ""),
      MessageFilter(Send, <<Value(<<"codeId">>, Str("4")),
                            Value(<<"msg", "swap">>, Str("B"))>>, ""),
      MessageFilter(Send, <<Value(<<"funds", "0", "denom">>, Str("A"))>>, ""),
      MessageFilter("", <<Value(<<"codeId">>, Str("4"))>>, "") }

MCEventFilters ==
    { [type |-> "wasm", messageFilter |-> NoFilter, attributes |-> {<<"k", "1">>}],
      [type |-> "wasm", attributes |-> {},
       messageFilter |-> MessageFilter(ExecuteContract,
                            <<Value(<<"msg", "swap">>, Str("A"))>>, "")] }

MCHandler(custom, kind, filters, query) ==
    [custom |-> custom, kind |-> kind, filters |-> filters, query |-> query]

MCTxHandler == MCHandler(TRUE, "Transaction", <<[includeFailedTx |-> TRUE]>>, <<>>)

MCHandlers ==
    {MCHandler(FALSE, "Block", <<[modulo |-> n]>>, <<>>) : n \in {2, NoModulo}}
    \cup {MCHandler(FALSE, "Message", <<f>>, <<>>) :
            f \in MCMessageFilters \cup {NoFilter}}
    \cup {MCHandler(TRUE, "Message", <<f, g>>, <<>>) :
            f, g \in MCMessageFilters}
    \cup {MCHandler(FALSE, "Event", <<f>>, <<>>) :
            f \in MCEventFilters \cup {NoEventFilter}}
    \cup {MCHandler(FALSE, "Transaction", <<NoFilter>>, <<>>)}
    \cup {MCHandler(TRUE, "Message", <<>>,
            <<[entity |-> "messages", type |-> Send, msgType |-> "",
               data |-> <<>>]>>)}

(* Any two handlers, and a transaction handler beside a block handler.     *)
MCProjects ==
    {<<g, h>> : g, h \in MCHandlers}
    \cup {<<MCTxHandler, MCHandler(FALSE, "Block", <<[modulo |-> 2]>>, <<>>)>>}

ASSUME MCSupported ==
    /\ \A p \in MCProjects : SupportedProject(p)
    /\ \A b \in MCBlocks : IsBlock(b)

(* A filtered transaction handler beside a filtered message handler.       *)
MCTxProjects ==
    {<<MCTxHandler, MCHandler(FALSE, "Message", <<f>>, <<>>)>> :
        f \in {g \in MCMessageFilters : g.type # ""}}

=============================================================================
