----------------------------- MODULE MCProject ------------------------------
(* A project with two chain types and a contract, and its variations: one  *)
(* place of the manifest changed, or two of the network.                   *)
EXTENDS Project

File(at, name) == [at |-> at, name |-> name]

bank == <<"x", "/", "bank">>
dotted == <<"x", ".", "stake">>
gov == <<"gov">>
govtypes == <<"govtypes">>
bare == <<"bare">>
ibc == <<"ibc">>
cw20 == <<"cw20">>
amino == <<"amino">>

MCFiles == {<<"proto", bank>>, <<"proto", gov>>, <<"proto", bare>>, <<"proto", dotted>>,
            <<"lib", ibc>>, <<"lib", govtypes>>, <<"abis", cw20>>}

MCCommonProtos == {amino}

MCProtoFiles ==
    [f \in MCFiles \ {<<"abis", cw20>>} |->
        CASE f[2] = bank     -> [package |-> "x.bank", types |-> {"MsgSend", "Coin"}]
          [] f[2] = gov      -> [package |-> "x.gov", types |-> {"MsgVote"}]
          [] f[2] = govtypes -> [package |-> "x.gov", types |-> {"Proposal"}]
          [] f[2] = ibc      -> [package |-> "x.ibc", types |-> {"MsgSend"}]
          [] f[2] = dotted   -> [package |-> "x.stake", types |-> {"MsgVote"}]
          [] OTHER           -> [package |-> "", types |-> {"MsgBare"}]]

MCOverrides == {NoOverrides,
    [endpoint |-> <<[scheme |-> "https", params |-> <<"apikey">>]>>, dictionary |-> "cli"]}

Type(at, name, messages) == [file |-> File(at, name), messages |-> messages]

Bank == Type("./proto", bank, {"MsgSend", "Coin"})
Gov == Type("proto", gov, {"MsgVote"})

BaseDs == [kind |-> RuntimeKind, processor |-> FALSE,
           handlers |-> <<[kind |-> "message", filter |-> "good"],
                          [kind |-> "transaction", filter |-> "good"]>>,
           assets |-> [n \in {"Cw20"} |-> File("abis", cw20)]]
CustomDs == [kind |-> "other/kind", processor |-> TRUE,
             handlers |-> <<[kind |-> "other", filter |-> "none"]>>, assets |-> <<>>]

BaseNetwork == [chainId |-> "chain", genesisHash |-> "", dictionary |-> "",
    endpoint |-> <<[scheme |-> "https", params |-> <<>>], [scheme |-> "wss", params |-> <<>>]>>,
    chaintypes |-> [k \in {"bank", "gov"} |-> IF k = "bank" THEN Bank ELSE Gov]]

Base == [specVersion |-> "1.0.0", runnerName |-> "@subql/node-cosmos", runnerFits |-> TRUE,
         network |-> {BaseNetwork}, dataSources |-> <<BaseDs>>, templates |-> <<CustomDs>>]

-----------------------------------------------------------------------------
(* The manifests of a project over its edits: the base, one without assets *)
(* and one with another asset.                                             *)
MCEdits ==
    {Base, [Base EXCEPT !.dataSources = <<CustomDs>>],
     [Base EXCEPT !.dataSources = <<[BaseDs EXCEPT !.assets = [n \in {"Cw721"} |-> File("abis", cw20)]]>>]}

-----------------------------------------------------------------------------
ChaintypeVariants ==
    {<<>>,
     [k \in {"bank"} |-> Gov],
     [k \in {"x.bare"} |-> Type("./proto", bare, {"MsgBare"})],
     [k \in {"bank"} |-> Type("lib", ibc, {"MsgSend"})],
     [k \in {"bank"} |-> Type("./proto", <<"missing">>, {"MsgSend"})],
     [k \in {"bank"} |-> Type("./proto", bank, {"MsgMissing"})],
     [k \in {"stake"} |-> Type("./proto", dotted, {"MsgVote"})],
     [k \in {"bank"} |-> [file |-> Malformed, messages |-> {}]],
     [k \in {"bank", "again"} |-> Bank],
     [k \in {"gov", "types"} |-> IF k = "gov" THEN Type("./proto", gov, {"MsgVote", "Proposal"})
                                 ELSE Type("lib", govtypes, {"Proposal"})]}

EndpointVariants ==
    {<<>>} \cup {<<[scheme |-> s, params |-> p]>> :
        s \in {"https", "ws"},
        p \in {<<"apikey">>, <<"chain">>, <<"chain", "apikey">>, <<"apikey", "chain">>}}

NetworkVariants ==
    {[BaseNetwork EXCEPT !.chaintypes = c] : c \in ChaintypeVariants} \cup
    {[BaseNetwork EXCEPT !.endpoint = e] : e \in EndpointVariants} \cup
    {[BaseNetwork EXCEPT !.chainId = c, !.genesisHash = g, !.dictionary = "written"] :
        c \in {"", "chain"}, g \in {"", "genesis"}}

HandlerVariants ==
    [kind : HandlerKinds \cup {"other"}, filter : {"good", "bad"}] \cup
    [kind : {"event"}, filter : {"none", "bad inside"}]

AssetVariants ==
    {<<>>, [n \in {"Cw20"} |-> Malformed], [n \in {"Cw20"} |-> File("abis", <<"missing">>)],
     [n \in {"Cw20", "Cw721"} |-> File("abis", cw20)],
     [n \in {"Cw20", "Cw721"} |-> IF n = "Cw20" THEN File("abis", cw20) ELSE Malformed]}

DsVariants ==
    {[BaseDs EXCEPT !.handlers = <<h>>] : h \in HandlerVariants} \cup
    {[ds EXCEPT !.assets = a] : a \in AssetVariants, ds \in {BaseDs, CustomDs}} \cup
    {[CustomDs EXCEPT !.processor = FALSE],
     [CustomDs EXCEPT !.handlers = <<[kind |-> "message", filter |-> "bad"]>>]}

MCManifests ==
    MCEdits \cup
    {Base, [Base EXCEPT !.specVersion = "0.3.0"], [Base EXCEPT !.runnerName = "@subql/node"],
     [Base EXCEPT !.runnerFits = FALSE], [Base EXCEPT !.network = {}]} \cup
    {[Base EXCEPT !.network = {n}] : n \in NetworkVariants} \cup
    {[Base EXCEPT !.dataSources = <<ds>>] : ds \in DsVariants} \cup
    {[Base EXCEPT !.templates = <<ds>>] : ds \in
        {ds \in DsVariants : ds.assets = <<>> \/ ds.handlers[1].kind = "other"}}

=============================================================================
