------------------------------ MODULE Manifest ------------------------------
(***************************************************************************)
(* packages/common-cosmos/src/project: which project manifests are         *)
(* accepted, and what a deployment keeps of them.  The classes of          *)
(* models.ts and versioned/v1_0_0/model.ts, over the shapes of packages/   *)
(* types/src/project.ts.                                                   *)
(*                                                                         *)
(* Of a manifest what the checks and the loading tell apart is kept:       *)
(*   specVersion, runnerName                                               *)
(*   runnerFits   the version the runner asks for is this node's           *)
(*   network      {} when left out, else {n}, n with chainId, genesisHash, *)
(*                dictionary ("" when left out), endpoint (a sequence) and *)
(*                chaintypes, from keys to [file, messages]                *)
(*   dataSources, templates    sequences of [kind, handlers, assets,       *)
(*                processor], assets from names to files (the empty        *)
(*                function when left out), processor a Boolean             *)
(* A handler is its kind and its filter: "none", "good", "bad" (a field of *)
(* another type than declared; of a custom handler, no object) or "bad     *)
(* inside" (only its messageFilter).                                       *)
(* A file is [at, name], the directory it is looked for in and its path    *)
(* there without the suffix, as a sequence of words and of the separators  *)
(* "/" and ".": ./proto/x.y.proto is [at |-> "./proto", name |-> <<"x",    *)
(* ".", "y">>].  Malformed stands for a reference without one, and "." for *)
(* where generated modules are.                                            *)
(***************************************************************************)
EXTENDS Sequences

Malformed == [at |-> "malformed", name |-> <<>>]

(* ./proto/x and proto/x are one file.                                     *)
OnDisk(file) == <<IF file.at = "./proto" THEN "proto" ELSE file.at, file.name>>

(* enum CosmosHandlerKind, CosmosDatasourceKind.Runtime                    *)
HandlerKinds == {"block", "transaction", "message", "event"}
RuntimeKind == "cosmos/Runtime"

(* The shapes, as the types package declares them.  Values may still be    *)
(* wrong, as in a YAML file they are.                                      *)
IsFile(file) ==
    DOMAIN file = {"at", "name"} /\ file.at # "." /\ file.name \in Seq(STRING)

IsModule(c) == DOMAIN c = {"file", "messages"} /\ IsFile(c.file)

IsNetwork(n) ==
    /\ DOMAIN n = {"chainId", "genesisHash", "dictionary", "endpoint", "chaintypes"}
    /\ \A k \in DOMAIN n.chaintypes : IsModule(n.chaintypes[k])

IsHandler(h) ==
    DOMAIN h = {"kind", "filter"} /\ h.filter \in {"none", "good", "bad", "bad inside"}

IsDatasource(ds) ==
    /\ DOMAIN ds = {"kind", "handlers", "assets", "processor"}
    /\ \A i \in DOMAIN ds.handlers : IsHandler(ds.handlers[i])
    /\ \A n \in DOMAIN ds.assets : IsFile(ds.assets[n])

IsManifest(m) ==
    /\ DOMAIN m = {"specVersion", "runnerName", "runnerFits", "network", "dataSources", "templates"}
    /\ \A n, o \in m.network : IsNetwork(n) /\ n = o
    /\ \A i \in DOMAIN m.dataSources : IsDatasource(m.dataSources[i])
    /\ \A i \in DOMAIN m.templates : IsDatasource(m.templates[i])

-----------------------------------------------------------------------------
isRuntimeCosmosDs(ds) == ds.kind = RuntimeKind

(* RuntimeMapping: the transformation of handlers throws on another kind,  *)
(* while the instance is made.                                             *)
MappingThrows(ds) ==
    isRuntimeCosmosDs(ds) /\ \E i \in DOMAIN ds.handlers : ds.handlers[i].kind \notin HandlerKinds

(* The handler classes.  Only MessageHandler and EventHandler validate     *)
(* their filter as nested object, and EventFilter its messageFilter not;   *)
(* CustomHandler wants an object.                                          *)
HandlerAccepted(ds, h) ==
    ~isRuntimeCosmosDs(ds) \/ h.kind \in {"message", "event"} => h.filter # "bad"

(* FileReferenceImp: one of the references is a file.                      *)
FileReferenceImp(assets) == \E n \in DOMAIN assets : assets[n] # Malformed

(* CosmosRuntimeDataSourceBase                                             *)
RuntimeDsAccepted(ds) == DOMAIN ds.assets = {} \/ FileReferenceImp(ds.assets)

(* CosmosCustomDataSourceBase: assets are validated each.                  *)
CustomDsAccepted(ds) ==
    ds.processor /\ \A n \in DOMAIN ds.assets : ds.assets[n] # Malformed

(* The class is picked by the kind: runtime, or custom for all others.     *)
DsAccepted(ds) ==
    /\ IF isRuntimeCosmosDs(ds) THEN RuntimeDsAccepted(ds) ELSE CustomDsAccepted(ds)
    /\ \A i \in DOMAIN ds.handlers : HandlerAccepted(ds, ds.handlers[i])

AllDs(m) == {m.dataSources[i] : i \in DOMAIN m.dataSources} \cup
            {m.templates[i] : i \in DOMAIN m.templates}

(* CosmosCustomModuleImpl, the messages being strings                      *)
ModuleAccepted(c) == c.file # Malformed

(* CosmosProjectNetworkDeployment                                          *)
NetworkAccepted(n) ==
    n.chainId # "" /\ \A k \in DOMAIN n.chaintypes : ModuleAccepted(n.chaintypes[k])

(* CosmosRunnerNodeImpl                                                    *)
RunnerAccepted(m) == m.runnerName = "@subql/node-cosmos"

(* Faulty variant: the network of a deployment has no chain types.         *)
DeployedNetworkPlain(n) ==
    [n EXCEPT !.genesisHash = "", !.endpoint = <<>>, !.dictionary = "", !.chaintypes = <<>>]

(* Of the network a deployment keeps what CosmosProjectNetworkDeployment   *)
(* declares.                                                               *)
DeployedNetwork(n) == [n EXCEPT !.genesisHash = "", !.endpoint = <<>>, !.dictionary = ""]

(* TransactionHandler declares no filter.                                  *)
DeployedHandler(ds, h) ==
    IF isRuntimeCosmosDs(ds) /\ h.kind = "transaction" THEN [h EXCEPT !.filter = "none"] ELSE h

DeployedDs(ds) ==
    [ds EXCEPT !.handlers = [i \in DOMAIN ds.handlers |-> DeployedHandler(ds, ds.handlers[i])]]

DeployedAll(dss) == [i \in DOMAIN dss |-> DeployedDs(dss[i])]

(* manifest.deployment, of @subql/common: an instance of DeploymentV1_0_0  *)
(* with the declared properties and no others.                             *)
Deployment(m) ==
    [m EXCEPT !.network = {DeployedNetwork(n) : n \in m.network},
              !.dataSources = DeployedAll(@), !.templates = DeployedAll(@)]

(* validate() validates the deployment, a DeploymentV1_0_0.  A network     *)
(* left out is not looked at.                                              *)
Validates(m) ==
    LET d == Deployment(m)
    IN  /\ RunnerAccepted(d)
        /\ \A n \in d.network : NetworkAccepted(n)
        /\ \A ds \in AllDs(d) : DsAccepted(ds)

(* new CosmosProjectManifestVersioned: "specVersion not supported ..."     *)
Constructs(m) == m.specVersion = "1.0.0" /\ \A ds \in AllDs(m) : ~MappingThrows(ds)

(* parseCosmosProjectManifest, and validateCosmosManifest which answers    *)
(* false where it throws.                                                  *)
Accepted(m) == Constructs(m) /\ Validates(m)

=============================================================================
