------------------------------ MODULE Startup -------------------------------
(***************************************************************************)
(* The start of a node on a project: bootstrap of packages/node/src/       *)
(* init.ts, which has SubqueryProject.create load the project, asks for a  *)
(* dictionary and has ApiService build the registry of protobuf types and  *)
(* the connections.                                                        *)
(*                                                                         *)
(* The node is given the manifest as it was written, or the deployment     *)
(* made from it, with an endpoint and a dictionary as options of the       *)
(* command.  Reading files, the dictionary registry, the pool of           *)
(* connections and what @subql/node-core starts are external; each may     *)
(* fail.                                                                   *)
(***************************************************************************)
EXTENDS Manifest, HttpClient

CONSTANTS
    Manifests,  \* manifests that may be written
    Overrides,  \* network options of the command: [endpoint, dictionary]
    ProtoFiles  \* protobuf files of the project, by place, with the package
                \* they declare ("" if none) and the types they define

VARIABLES
    written,    \* the manifest as written
    given,      \* what the node is given
    overrides,
    stage,      \* how far the start has come
    toLoad,     \* keys of chain types not loaded yet
    project,    \* the SubqueryProject under construction
    protoRoot,  \* network.chaintypes.protoRoot, the types it holds
    registry,   \* types that can be decoded
    connections

ASSUME StartAssumption == \A m \in Manifests : IsManifest(m)

nodeVars == <<stage, toLoad, project, protoRoot, registry, connections>>
startVars == <<written, given, overrides, nodeVars>>

NoProject == [chainId |-> "", endpoint |-> <<>>, dictionary |-> "", chaintypes |-> <<>>,
              dataSources |-> <<>>, templates |-> <<>>]

NoOverrides == [endpoint |-> <<>>, dictionary |-> ""]

StartInit ==
    /\ written \in Manifests /\ given = written /\ overrides = NoOverrides
    /\ stage = "none" /\ toLoad = {} /\ project = NoProject
    /\ protoRoot = {} /\ registry = {} /\ connections = {}

(* The command is run on the manifest or on its deployment.                *)
Start(manifest, options) ==
    /\ stage = "none"
    /\ manifest = written \/ (Accepted(written) /\ manifest = Deployment(written))
    /\ stage' = "create" /\ given' = manifest /\ overrides' = options
    /\ UNCHANGED <<written, toLoad, project, protoRoot, registry, connections>>

(* Faulty variant: the error is logged and the process stays.              *)
ExitNot == UNCHANGED nodeVars

(* "Node failed to start": process.exit(1).                                *)
Exit == stage' = "exited" /\ UNCHANGED <<toLoad, project, protoRoot, registry, connections>>

Advance(from, to) == stage = from /\ stage' = to

ThrowUnless(condition, step) == IF condition THEN step ELSE Exit

-----------------------------------------------------------------------------
(* SubqueryProject.create.  A manifest without network is accepted, but    *)
(* reading its endpoint throws.                                            *)
Create ==
    /\ stage = "create"
    /\ ThrowUnless(Accepted(given) /\ given.network # {},
          /\ stage' = "network"
          /\ UNCHANGED <<toLoad, project, protoRoot, registry, connections>>)

(* { ...projectManifest.network, ...networkOverrides }                     *)
MergedNetwork(n) ==
    [n EXCEPT !.endpoint = IF overrides.endpoint # <<>> THEN overrides.endpoint ELSE @,
              !.dictionary = IF overrides.dictionary # "" THEN overrides.dictionary ELSE @]

(* processNetworkConfig up to its loop; the chain types are loaded into a  *)
(* new map.                                                                *)
ProcessNetworkConfig ==
    /\ stage = "network"
    /\ \E n \in given.network :
          ThrowUnless(~(n.chainId # "" /\ n.genesisHash # ""),
             /\ stage' = "chaintypes"
             /\ toLoad' = DOMAIN n.chaintypes
             /\ LET merged == MergedNetwork(n)
                IN  project' = [NoProject EXCEPT
                       !.chainId = IF n.chainId # "" THEN n.chainId ELSE n.genesisHash,
                       !.endpoint = merged.endpoint, !.dictionary = merged.dictionary]
             /\ UNCHANGED <<protoRoot, registry, connections>>)

Extended(f, k, v) == [x \in DOMAIN f \cup {k} |-> IF x = k THEN v ELSE f[x]]

TypesOf(proto) == {<<proto.package, t>> : t \in proto.types}

(* loadNetworkChainType throws on a file that is missing or empty, and     *)
(* protoRoot.add on a type that the root has.                              *)
LoadNetworkChainType(k) ==
    /\ stage = "chaintypes" /\ k \in toLoad
    /\ \E n \in given.network :
          LET module == n.chaintypes[k]
              place == OnDisk(module.file)
          IN  ThrowUnless(place \in DOMAIN ProtoFiles /\ TypesOf(ProtoFiles[place]) \cap protoRoot = {},
                 /\ toLoad' = toLoad \ {k}
                 /\ project' = [project EXCEPT !.chaintypes =
                       Extended(@, k, [file |-> module.file, messages |-> module.messages,
                                       package |-> ProtoFiles[place].package])]
                 /\ protoRoot' = protoRoot \cup TypesOf(ProtoFiles[place])
                 /\ UNCHANGED <<stage, registry, connections>>)

(* "Network endpoint must be provided for network."                        *)
CheckEndpoint ==
    /\ stage = "chaintypes" /\ toLoad = {}
    /\ ThrowUnless(project.endpoint # <<>>,
          stage' = "sources" /\ UNCHANGED <<toLoad, project, protoRoot, registry, connections>>)

(* The schema, the data sources and the templates, as the files they name  *)
(* are read.                                                               *)
LoadSources ==
    /\ Advance("sources", "runner")
    /\ project' = [project EXCEPT !.dataSources = given.dataSources,
                                  !.templates = given.templates]
    /\ UNCHANGED <<toLoad, protoRoot, registry, connections>>

(* assert(validateSemver(packageVersion, runner.node.version))             *)
CheckRunner ==
    /\ stage = "runner"
    /\ ThrowUnless(given.runnerFits,
          stage' = "dictionary" /\ UNCHANGED <<toLoad, project, protoRoot, registry, connections>>)

(* DictionaryService.create: the project's dictionary or the one the       *)
(* registry of dictionaries has for the chain; without either the          *)
(* assertion on its type fails.                                            *)
CreateDictionary(resolved) ==
    /\ stage = "dictionary"
    /\ ThrowUnless(project.dictionary # "" \/ resolved,
          stage' = "registry" /\ UNCHANGED <<toLoad, project, protoRoot, registry, connections>>)

-----------------------------------------------------------------------------
(* packageName ?? userPackageName                                          *)
PackageName(k) ==
    IF project.chaintypes[k].package # "" THEN project.chaintypes[k].package ELSE k

(* Faulty variant: one message of each package.                            *)
ChainTypesFirst ==
    UNION {{<<PackageName(k), m>> : m \in
              {CHOOSE x \in project.chaintypes[k].messages : TRUE}} :
              k \in DOMAIN project.chaintypes}

(* getChainType: the names that are looked up.                             *)
ChainTypes ==
    UNION {{<<PackageName(k), m>> : m \in project.chaintypes[k].messages} :
              k \in DOMAIN project.chaintypes}

WasmTypes == {<<"cosmwasm.wasm.v1", m>> : m \in
    {"MsgClearAdmin", "MsgExecuteContract", "MsgMigrateContract", "MsgStoreCode",
     "MsgInstantiateContract", "MsgUpdateAdmin"}}

(* Faulty variant: a name the root lacks is registered all the same.       *)
BuildRegistryUnchecked ==
    /\ stage = "registry" /\ stage' = "connect"
    /\ registry' = WasmTypes \cup ChainTypes
    /\ UNCHANGED <<toLoad, project, protoRoot, connections>>

(* buildRegistry: lookupTypeOrEnum throws on a name the root lacks.        *)
BuildRegistry ==
    /\ stage = "registry"
    /\ ThrowUnless(ChainTypes \subseteq protoRoot,
          /\ stage' = "connect"
          /\ registry' = WasmTypes \cup ChainTypes
          /\ UNCHANGED <<toLoad, project, protoRoot, connections>>)

(* createConnections, the pool being external: the endpoints in some get   *)
(* a connection, by CosmosClientConnection.create.  A websocket that fails *)
(* exits the process; without any connection init() throws.                *)
Connect(some) ==
    /\ stage = "connect"
    /\ ThrowUnless(
          /\ some # {}
          /\ \A i \in DOMAIN project.endpoint \ some : ~IsWebsocket(project.endpoint[i]),
          /\ stage' = "services"
          /\ connections' = {[endpoint |-> project.endpoint[i],
                              target |-> Target(project.endpoint[i])] : i \in some}
          /\ UNCHANGED <<toLoad, project, protoRoot, registry>>)

(* projectService.init, fetchService.init, app.listen                      *)
Listen ==
    /\ Advance("services", "listening")
    /\ UNCHANGED <<toLoad, project, protoRoot, registry, connections>>

(* What is awaited at these stages is external and may reject.             *)
ExternalFailure ==
    /\ stage \in {"create", "chaintypes", "sources", "connect", "services"}
    /\ Exit

(* It may also never settle: neither axios.create nor its agents set a     *)
(* timeout, and bootstrap waits without one.  Nothing changes any more.    *)
Silence ==
    /\ stage \in {"create", "chaintypes", "sources", "dictionary", "connect", "services"}
    /\ stage' = "waiting"
    /\ UNCHANGED <<written, given, overrides, toLoad, project, protoRoot, registry, connections>>

Bootstrap ==
    /\ \/ Create \/ ProcessNetworkConfig \/ CheckEndpoint \/ LoadSources \/ CheckRunner
       \/ \E k \in toLoad : LoadNetworkChainType(k)
       \/ \E resolved \in BOOLEAN : CreateDictionary(resolved)
       \/ BuildRegistry
       \/ \E some \in SUBSET DOMAIN project.endpoint : Connect(some)
       \/ Listen
       \/ ExternalFailure
    /\ UNCHANGED <<written, given, overrides>>

-----------------------------------------------------------------------------
Loaded == stage \in {"runner", "dictionary", "registry", "connect", "services", "listening"}

StartTypeOK ==
    /\ \/ stage \in {"none", "create", "network", "chaintypes", "sources", "exited", "waiting"}
       \/ Loaded
    /\ IsManifest(given) /\ DOMAIN project = DOMAIN NoProject
    /\ \A n \in given.network : toLoad \subseteq DOMAIN n.chaintypes
    /\ registry \subseteq protoRoot \cup WasmTypes

SameSources(loaded, dss) ==
    /\ DOMAIN loaded = DOMAIN dss
    /\ \A i \in DOMAIN dss :
          /\ [loaded[i] EXCEPT !.handlers = <<>>] = [dss[i] EXCEPT !.handlers = <<>>]
          /\ DOMAIN loaded[i].handlers = DOMAIN dss[i].handlers
          /\ \A j \in DOMAIN dss[i].handlers :
                LET was == dss[i].handlers[j]
                    is == loaded[i].handlers[j]
                IN  is = was \/ (given # written /\ was.kind = "transaction" /\ is.kind = was.kind)

(* What is loaded is what was written, also by way of a deployment: the    *)
(* chain, every chain type with its file and messages, the data sources    *)
(* and the templates.  The one thing a deployment loses is the filter of   *)
(* transaction handlers.                                                   *)
LoadedAsWritten ==
    Loaded => \A n \in written.network :
        /\ project.chainId = n.chainId
        /\ DOMAIN project.chaintypes = DOMAIN n.chaintypes
        /\ \A k \in DOMAIN n.chaintypes :
              /\ project.chaintypes[k].file = n.chaintypes[k].file
              /\ project.chaintypes[k].messages = n.chaintypes[k].messages
        /\ SameSources(project.dataSources, written.dataSources)
        /\ SameSources(project.templates, written.templates)

Keys(endpoint) == {i \in DOMAIN endpoint.params : endpoint.params[i] = "apikey"}

(* A connection, to an endpoint of the project, sends what the endpoint    *)
(* says: to a websocket, and over HTTP without an api key, every parameter *)
(* stays; over HTTP a key that is the only parameter goes as a header and  *)
(* no longer in the URL.  Of a key beside another parameter, which the cut *)
(* loses or spoils (see CutAtApikey), nothing is promised.                 *)
ConnectedAsConfigured ==
    \A c \in connections :
        /\ \E i \in DOMAIN project.endpoint : c.endpoint = project.endpoint[i]
        /\ IsWebsocket(c.endpoint) \/ Keys(c.endpoint) = {} =>
              c.target.params = c.endpoint.params
        /\ ~IsWebsocket(c.endpoint) /\ c.endpoint.params = <<"apikey">> =>
              c.target.params = <<>> /\ "apikey" \in c.target.headers

(* A start whose awaits settle ends: the node listens or the process       *)
(* exits, whichever of them rejects and whatever is wrong with the         *)
(* manifest.  That endpoints and registries answer is an assumption on     *)
(* them: one that accepts a connection and stays silent leaves a process   *)
(* that neither listens nor exits ("waiting").                             *)
StartEnds == stage = "create" ~> stage \in {"listening", "exited", "waiting"}

=============================================================================
