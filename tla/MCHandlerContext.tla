-------------------------- MODULE MCHandlerContext --------------------------
(* Two threads, two mapping files, a custom and a runtime template that    *)
(* share their mapping files with the static data sources.                 *)
EXTENDS Indexing

Ds(kind, entry, options) ==
    [kind |-> kind, entry |-> entry, options |-> options, startBlock |-> 0]

MCStaticDs == <<Ds("runtime", "e1", <<>>), Ds("custom", "e2", [abi |-> "x"])>>

MCTemplates == [factory |-> Ds("custom", "e2", [abi |-> "x", pool |-> "none"]),
                plain |-> Ds("runtime", "e1", <<>>)]

MCArgs == {[pool |-> "a"], [fee |-> "b"]}

=============================================================================
