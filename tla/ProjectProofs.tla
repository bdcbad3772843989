--------------------------- MODULE ProjectProofs ----------------------------
(***************************************************************************)
(* Proofs about Project: code generation and the start of a node, for      *)
(* every set of manifests, options, files and errors.                      *)
(***************************************************************************)
EXTENDS Project, TLAPS

-----------------------------------------------------------------------------
(* What a deployment keeps of a manifest.                                  *)

LEMMA DeploymentFields ==
    ASSUME NEW m, IsManifest(m)
    PROVE  /\ DOMAIN Deployment(m) = DOMAIN m
           /\ Deployment(m).network = {DeployedNetwork(n) : n \in m.network}
           /\ Deployment(m).dataSources = DeployedAll(m.dataSources)
           /\ Deployment(m).templates = DeployedAll(m.templates)
BY DEF Deployment, IsManifest

LEMMA DeployedNetworkFields ==
    ASSUME NEW n, IsNetwork(n)
    PROVE  /\ DOMAIN DeployedNetwork(n) = DOMAIN n
           /\ DeployedNetwork(n).chainId = n.chainId
           /\ DeployedNetwork(n).chaintypes = n.chaintypes
BY DEF DeployedNetwork, IsNetwork

LEMMA DeployedHandlerFields ==
    ASSUME NEW ds, NEW h, IsHandler(h)
    PROVE  /\ IsHandler(DeployedHandler(ds, h))
           /\ DeployedHandler(ds, h).kind = h.kind
           /\ h.kind # "transaction" => DeployedHandler(ds, h) = h
BY DEF DeployedHandler, IsHandler

LEMMA DeployedDsFields ==
    ASSUME NEW ds, IsDatasource(ds)
    PROVE  /\ DOMAIN DeployedDs(ds) = DOMAIN ds
           /\ DeployedDs(ds).kind = ds.kind
           /\ DeployedDs(ds).processor = ds.processor
           /\ DeployedDs(ds).assets = ds.assets
BY DEF DeployedDs, IsDatasource

LEMMA DeployedHandlers ==
    ASSUME NEW ds, IsDatasource(ds)
    PROVE  /\ DOMAIN DeployedDs(ds).handlers = DOMAIN ds.handlers
           /\ \A i \in DOMAIN ds.handlers :
                 DeployedDs(ds).handlers[i] = DeployedHandler(ds, ds.handlers[i])
<1>1. DeployedDs(ds).handlers =
          [i \in DOMAIN ds.handlers |-> DeployedHandler(ds, ds.handlers[i])]
  BY DEF DeployedDs, IsDatasource
<1> QED
  BY <1>1, Zenon

LEMMA DeployedAllFields ==
    ASSUME NEW dss
    PROVE  /\ DOMAIN DeployedAll(dss) = DOMAIN dss
           /\ \A i \in DOMAIN dss : DeployedAll(dss)[i] = DeployedDs(dss[i])
BY Zenon DEF DeployedAll

LEMMA DeployedIsDatasource ==
    ASSUME NEW ds, IsDatasource(ds)
    PROVE  IsDatasource(DeployedDs(ds))
<1>1. \A i \in DOMAIN ds.handlers : IsHandler(DeployedHandler(ds, ds.handlers[i]))
  BY DeployedHandlerFields DEF IsDatasource
<1>2. \A i \in DOMAIN DeployedDs(ds).handlers : IsHandler(DeployedDs(ds).handlers[i])
  BY <1>1, DeployedHandlers
<1> QED
  BY <1>2, DeployedDsFields DEF IsDatasource

(* A deployment is a manifest too.                                         *)
LEMMA DeploymentIsManifest ==
    ASSUME NEW m, IsManifest(m)
    PROVE  IsManifest(Deployment(m))
<1>1. \A n \in m.network : IsNetwork(DeployedNetwork(n))
  BY DeployedNetworkFields DEF IsManifest, IsNetwork
<1>2. \A n, o \in Deployment(m).network : IsNetwork(n) /\ n = o
  BY <1>1, DeploymentFields DEF IsManifest
<1>3. /\ \A i \in DOMAIN m.dataSources : IsDatasource(DeployedDs(m.dataSources[i]))
      /\ \A i \in DOMAIN m.templates : IsDatasource(DeployedDs(m.templates[i]))
  BY DeployedIsDatasource DEF IsManifest
<1>4. /\ \A i \in DOMAIN Deployment(m).dataSources : IsDatasource(Deployment(m).dataSources[i])
      /\ \A i \in DOMAIN Deployment(m).templates : IsDatasource(Deployment(m).templates[i])
  BY <1>3, DeploymentFields, DeployedAllFields
<1> QED
  BY <1>2, <1>4, DeploymentFields DEF IsManifest

-----------------------------------------------------------------------------
(* What validate() guarantees, although it looks at the deployment only.   *)

LEMMA AcceptedNetwork ==
    ASSUME NEW m, IsManifest(m), Accepted(m), NEW n \in m.network
    PROVE  n.chainId # ""
<1>1. NetworkAccepted(DeployedNetwork(n))
  BY DeploymentFields DEF Accepted, Validates
<1> QED
  BY <1>1, DeployedNetworkFields DEF NetworkAccepted, IsManifest

-----------------------------------------------------------------------------
(* The inductive invariant of code generation.                             *)

ProtoJobs == {"copy", "props", "directory", "telescope", "render"}
WasmJobs == {"keep", "dirs", "interfaces", "wrap"}

CodegenShape ==
    /\ job \in {"idle"} \cup ProtoJobs \cup WasmJobs
    /\ tmpPath \in BOOLEAN
    /\ DOMAIN args = {"chaintypes", "datasources"}
    /\ DOMAIN tmp = {"exists", "protos"}
    /\ DOMAIN out = {"interfaces", "types", "cosmwasm", "wrappers"}
    /\ DOMAIN ended = {"proto", "cosmwasm"}

(* The temporary directory belongs to a run that knows its path, but for   *)
(* the time it is filled.                                                  *)
TmpInv ==
    /\ job = "copy" => tmp.exists /\ tmp.protos = {} /\ tmpPath = FALSE
    /\ job \in ProtoJobs \ {"copy"} =>
          tmp.exists /\ tmpPath = TRUE /\ UserProtos \subseteq tmp.protos
    /\ job \notin ProtoJobs =>
          /\ tmpPath = FALSE
          /\ tmp.exists => tmp.protos = {} /\ ended.proto = "TypeError"

CauseInv == CauseTold /\ (job \in ProtoJobs => cause = "none")

(* What the module types import is generated by the time they are written, *)
(* and they are written for the chain types of the run.                    *)
ModulesInv ==
    /\ \A c \in args.chaintypes : IsModule(c)
    /\ job \in {"directory", "telescope", "render"} =>
          \A c \in args.chaintypes : OnDisk(c.file) \in Files
    /\ job = "render" => \A n \in UserProtos : <<".", n>> \in out.interfaces
    /\ job \notin ProtoJobs /\ ended.proto = "resolved" =>
          /\ out.types = PrepareProtobufRenderProps(args.chaintypes)
          /\ \A t \in out.types :
                t.file.at = "./proto" /\ Slashed(t.file.name) = t.file.name =>
                    t.path \in out.interfaces

(* Wrappers are written after the directories were emptied, whatever an    *)
(* earlier run on other assets left in them.                               *)
WrappersInv ==
    /\ job = "keep" => AssetNames(args.datasources) = {}
    /\ job \in {"interfaces", "wrap"} => out.wrappers = {}
    /\ job = "wrap" => out.cosmwasm = AssetNames(args.datasources)
    /\ /\ job \notin WasmJobs /\ ended.cosmwasm \in {"resolved", "printed"}
       /\ AssetNames(args.datasources) # {}
       => out.wrappers \subseteq out.cosmwasm \cap AssetNames(args.datasources)

CodegenInv == CodegenShape /\ TmpInv /\ CauseInv /\ ModulesInv /\ WrappersInv

(* The node is started between runs of the generators.                     *)
IdleInv == stage # "none" => job = "idle"

-----------------------------------------------------------------------------
(* The inductive invariant of the start.                                   *)

LoadedStages == {"runner", "dictionary", "registry", "connect", "services", "listening"}

(* The network was processed and what it holds is still the project's.     *)
Configured == stage \in {"chaintypes", "sources"} \cup LoadedStages \/ registry # {}

GivenInv ==
    /\ written \in Manifests
    /\ given = written \/ given = Deployment(written)
    /\ stage \in {"none", "create", "network", "chaintypes", "sources", "exited", "waiting"} \cup LoadedStages
    /\ DOMAIN project = DOMAIN NoProject
    /\ \A n \in given.network : toLoad \subseteq DOMAIN n.chaintypes
    /\ stage \in {"network", "chaintypes", "sources"} \cup LoadedStages \/ registry # {} =>
          Accepted(given) /\ given.network # {}

(* The chain types loaded so far are those of the manifest with the        *)
(* packages of their files, and the root holds nothing else.               *)
ChainTypesInv ==
    Configured => \A n \in given.network :
        /\ project.chainId = n.chainId
        /\ DOMAIN project.chaintypes = DOMAIN n.chaintypes \ toLoad
        /\ \A k \in DOMAIN project.chaintypes :
              /\ OnDisk(n.chaintypes[k].file) \in DOMAIN ProtoFiles
              /\ project.chaintypes[k].file = n.chaintypes[k].file
              /\ project.chaintypes[k].messages = n.chaintypes[k].messages
              /\ project.chaintypes[k].package =
                    ProtoFiles[OnDisk(n.chaintypes[k].file)].package
        /\ \A p \in protoRoot : \E k \in DOMAIN project.chaintypes :
              p \in TypesOf(ProtoFiles[OnDisk(n.chaintypes[k].file)])

StagesInv ==
    /\ stage \in {"none", "create", "network"} => toLoad = {} /\ protoRoot = {}
    /\ stage \in {"sources"} \cup LoadedStages \/ registry # {} => toLoad = {}
    /\ stage \in LoadedStages =>
          project.dataSources = given.dataSources /\ project.templates = given.templates
    /\ stage \notin {"connect", "services", "listening", "exited", "waiting"} => registry = {}
    /\ registry # {} => registry = WasmTypes \cup ChainTypes /\ ChainTypes \subseteq protoRoot
    /\ stage \notin {"services", "listening", "exited", "waiting"} => connections = {}
    /\ \A c \in connections : \E i \in DOMAIN project.endpoint :
          c.endpoint = project.endpoint[i] /\ c.target = Target(c.endpoint)

StartInv == GivenInv /\ ChainTypesInv /\ StagesInv

-----------------------------------------------------------------------------
(* Code generation keeps its invariant.                                    *)

(* The actions of the codegen command, given its arguments.                *)
CodegenAction ==
    \/ GenerateProto(Chaintypes) \/ GenerateCosmwasm(Datasources) \/ CodegenStep

LEMMA CommandActs == CodegenCommand => CodegenAction
BY DEF CodegenCommand, CodegenAction

LEMMA CodegenInvInit == ProjectInit => CodegenInv
<1> SUFFICES ASSUME ProjectInit PROVE CodegenInv
  OBVIOUS
<1> USE DEF ProjectInit, CodegenInit, NoTmp
<1>1. DOMAIN out = {"interfaces", "types", "cosmwasm", "wrappers"}
  OBVIOUS
<1>2. CodegenShape /\ TmpInv /\ CauseInv
  BY <1>1 DEF CodegenShape, TmpInv, CauseInv, CauseTold, ProtoJobs, WasmJobs
<1>3. ModulesInv /\ WrappersInv
  BY <1>1 DEF ModulesInv, WrappersInv, ProtoJobs, WasmJobs
<1> QED
  BY <1>2, <1>3 DEF CodegenInv

LEMMA CodegenInvStays ==
    ASSUME CodegenInv, UNCHANGED codegenVars
    PROVE  CodegenInv'
BY DEF CodegenInv, codegenVars, CodegenShape, TmpInv, CauseInv, CauseTold, ModulesInv,
       WrappersInv

LEMMA ShapeStep == CodegenShape /\ CodegenAction => CodegenShape'
<1> SUFFICES ASSUME CodegenShape, CodegenAction PROVE CodegenShape'
  OBVIOUS
<1> USE DEF CodegenShape, ProtoJobs, WasmJobs
<1>1. CASE GenerateProto(Chaintypes)
  BY <1>1 DEF GenerateProto, NoTmp
<1>2. CASE GenerateCosmwasm(Datasources)
  BY <1>2 DEF GenerateCosmwasm, EndCosmwasm
<1>3. CASE CopyProtos \/ PrepareRenderProps
  BY <1>3 DEF CopyProtos, PrepareRenderProps
<1>4. CASE PrepareProtoDir \/ Telescope
  BY <1>4 DEF PrepareProtoDir, Telescope
<1>5. CASE RenderTypes
  BY <1>5 DEF RenderTypes, Finally, NoTmp
<1>6. CASE \E e \in Errors : GenerateProtoThrows(e)
  BY <1>6 DEF GenerateProtoThrows, Finally, NoTmp
<1>7. CASE \E ok \in BOOLEAN : KeepDir(ok) \/ GenerateInterfaces(ok)
  BY <1>7 DEF KeepDir, GenerateInterfaces, EndCosmwasm
<1>8. CASE \E done \in SUBSET {"cosmwasm", "wrappers"} : PrepareDirs(done)
  BY <1>8 DEF PrepareDirs, EndCosmwasm
<1>9. CASE \E some \in SUBSET CosmwasmJobs(args.datasources) : RenderWrappers(some)
  BY <1>9 DEF RenderWrappers, EndCosmwasm
<1> QED
  BY <1>1, <1>2, <1>3, <1>4, <1>5, <1>6, <1>7, <1>8, <1>9 DEF CodegenAction, CodegenStep

LEMMA TmpStep == CodegenShape /\ TmpInv /\ CodegenAction => TmpInv'
<1> SUFFICES ASSUME CodegenShape, TmpInv, CodegenAction PROVE TmpInv'
  OBVIOUS
<1> USE DEF CodegenShape, TmpInv, ProtoJobs, WasmJobs
<1>1. CASE GenerateProto(Chaintypes)
  BY <1>1 DEF GenerateProto, NoTmp
<1>2. CASE GenerateCosmwasm(Datasources)
  BY <1>2 DEF GenerateCosmwasm, EndCosmwasm
<1>3. CASE CopyProtos
  BY <1>3 DEF CopyProtos
<1>4. CASE PrepareRenderProps \/ PrepareProtoDir \/ Telescope
  BY <1>4 DEF PrepareRenderProps, PrepareProtoDir, Telescope
<1>5. CASE RenderTypes
  BY <1>5 DEF RenderTypes, Finally, NoTmp
<1>6. CASE \E e \in Errors : GenerateProtoThrows(e)
  BY <1>6 DEF GenerateProtoThrows, Finally, NoTmp
<1>7. CASE \E ok \in BOOLEAN : KeepDir(ok) \/ GenerateInterfaces(ok)
  BY <1>7 DEF KeepDir, GenerateInterfaces, EndCosmwasm
<1>8. CASE \E done \in SUBSET {"cosmwasm", "wrappers"} : PrepareDirs(done)
  BY <1>8 DEF PrepareDirs, EndCosmwasm
<1>9. CASE \E some \in SUBSET CosmwasmJobs(args.datasources) : RenderWrappers(some)
  BY <1>9 DEF RenderWrappers, EndCosmwasm
<1> QED
  BY <1>1, <1>2, <1>3, <1>4, <1>5, <1>6, <1>7, <1>8, <1>9 DEF CodegenAction, CodegenStep

LEMMA CauseStep == CodegenShape /\ CauseInv /\ CodegenAction => CauseInv'
<1> SUFFICES ASSUME CodegenShape, CauseInv, CodegenAction PROVE CauseInv'
  OBVIOUS
<1> USE DEF CodegenShape, CauseInv, CauseTold, ProtoJobs, WasmJobs
<1>1. CASE GenerateProto(Chaintypes)
  BY <1>1 DEF GenerateProto
<1>2. CASE GenerateCosmwasm(Datasources)
  BY <1>2 DEF GenerateCosmwasm, EndCosmwasm
<1>3. CASE CopyProtos \/ PrepareRenderProps \/ PrepareProtoDir \/ Telescope
  BY <1>3 DEF CopyProtos, PrepareRenderProps, PrepareProtoDir, Telescope
<1>4. CASE RenderTypes
  BY <1>4 DEF RenderTypes, Finally
<1>5. CASE \E e \in Errors : GenerateProtoThrows(e)
  BY <1>5 DEF GenerateProtoThrows, Finally
<1>6. CASE \E ok \in BOOLEAN : KeepDir(ok) \/ GenerateInterfaces(ok)
  BY <1>6 DEF KeepDir, GenerateInterfaces, EndCosmwasm
<1>7. CASE \E done \in SUBSET {"cosmwasm", "wrappers"} : PrepareDirs(done)
  BY <1>7 DEF PrepareDirs, EndCosmwasm
<1>8. CASE \E some \in SUBSET CosmwasmJobs(args.datasources) : RenderWrappers(some)
  BY <1>8 DEF RenderWrappers, EndCosmwasm
<1> QED
  BY <1>1, <1>2, <1>3, <1>4, <1>5, <1>6, <1>7, <1>8 DEF CodegenAction, CodegenStep

(* A file spelled ./proto/... that is on disk is among those of the        *)
(* project, so that without a dot to convert the import of its types is of *)
(* a module made from it.                                                  *)
LEMMA ImportedIsUserProto ==
    ASSUME NEW c, OnDisk(c.file) \in Files,
           c.file.at = "./proto", Slashed(c.file.name) = c.file.name
    PROVE  \E n \in UserProtos : ProcessProtoFilePath(c.file) = <<".", n>>
<1>1. OnDisk(c.file) = <<"proto", c.file.name>>
  BY DEF OnDisk
<1>2. c.file.name \in UserProtos
  BY <1>1 DEF UserProtos
<1>3. ProcessProtoFilePath(c.file) = <<".", c.file.name>>
  BY DEF ProcessProtoFilePath
<1> QED
  BY <1>2, <1>3

LEMMA ChaintypesAreModules == written \in Manifests => \A c \in Chaintypes : IsModule(c)
BY StartAssumption DEF Chaintypes, IsManifest, IsNetwork

LEMMA ModulesStep ==
    ASSUME written \in Manifests, CodegenShape, TmpInv, ModulesInv, CodegenAction
    PROVE  ModulesInv'
<1> USE DEF CodegenShape, ProtoJobs, WasmJobs
<1>1. CASE GenerateProto(Chaintypes)
  BY <1>1, ChaintypesAreModules DEF GenerateProto, ModulesInv
<1>2. CASE GenerateCosmwasm(Datasources)
  BY <1>2 DEF GenerateCosmwasm, EndCosmwasm, ModulesInv
<1>3. CASE CopyProtos \/ PrepareRenderProps \/ PrepareProtoDir
  BY <1>3 DEF CopyProtos, PrepareRenderProps, PrepareProtoDir, ModulesInv
<1>4. CASE Telescope
  <2>1. out'.interfaces = {<<".", n>> : n \in tmp.protos}
    BY <1>4 DEF Telescope
  <2>2. \A n \in UserProtos : <<".", n>> \in out'.interfaces
    BY <1>4, <2>1 DEF Telescope, TmpInv
  <2> QED
    BY <1>4, <2>2 DEF Telescope, ModulesInv
<1>5. CASE RenderTypes
  <2>1. /\ out'.interfaces = out.interfaces
        /\ out'.types = PrepareProtobufRenderProps(args.chaintypes)
    BY <1>5 DEF RenderTypes
  <2>2. ASSUME NEW t \in out'.types,
               t.file.at = "./proto", Slashed(t.file.name) = t.file.name
        PROVE  t.path \in out'.interfaces
    <3>1. PICK c \in args.chaintypes :
            t.file = c.file /\ t.path = ProcessProtoFilePath(c.file)
      BY <2>1 DEF PrepareProtobufRenderProps
    <3>2. OnDisk(c.file) \in Files
      BY <1>5 DEF RenderTypes, ModulesInv
    <3>3. \E n \in UserProtos : t.path = <<".", n>>
      BY <2>2, <3>1, <3>2, ImportedIsUserProto
    <3> QED
      BY <1>5, <2>1, <3>3 DEF RenderTypes, ModulesInv
  <2> QED
    BY <1>5, <2>1, <2>2 DEF RenderTypes, Finally, ModulesInv
<1>6. CASE \E e \in Errors : GenerateProtoThrows(e)
  BY <1>6, ErrorsAssumption DEF GenerateProtoThrows, Finally, ModulesInv
<1>7. CASE \E ok \in BOOLEAN : KeepDir(ok) \/ GenerateInterfaces(ok)
  BY <1>7 DEF KeepDir, GenerateInterfaces, EndCosmwasm, ModulesInv
<1>8. CASE \E done \in SUBSET {"cosmwasm", "wrappers"} : PrepareDirs(done)
  <2>1. out'.interfaces = out.interfaces /\ out'.types = out.types
    BY <1>8 DEF PrepareDirs
  <2> QED
    BY <1>8, <2>1 DEF PrepareDirs, EndCosmwasm, ModulesInv
<1>9. CASE \E some \in SUBSET CosmwasmJobs(args.datasources) : RenderWrappers(some)
  BY <1>9 DEF RenderWrappers, EndCosmwasm, ModulesInv
<1> QED
  BY <1>1, <1>2, <1>3, <1>4, <1>5, <1>6, <1>7, <1>8, <1>9 DEF CodegenAction, CodegenStep

LEMMA WrappersStep ==
    ASSUME CodegenShape, WrappersInv, CodegenAction
    PROVE  WrappersInv'
<1> USE DEF CodegenShape, ProtoJobs, WasmJobs
<1>1. CASE GenerateProto(Chaintypes)
  BY <1>1 DEF GenerateProto, WrappersInv
<1>2. CASE GenerateCosmwasm(Datasources)
  BY <1>2 DEF GenerateCosmwasm, EndCosmwasm, WrappersInv
<1>3. CASE CopyProtos \/ PrepareRenderProps \/ PrepareProtoDir \/ Telescope
  BY <1>3 DEF CopyProtos, PrepareRenderProps, PrepareProtoDir, Telescope, WrappersInv
<1>4. CASE RenderTypes
  BY <1>4 DEF RenderTypes, Finally, WrappersInv
<1>5. CASE \E e \in Errors : GenerateProtoThrows(e)
  BY <1>5 DEF GenerateProtoThrows, Finally, WrappersInv
<1>6. CASE \E ok \in BOOLEAN : KeepDir(ok) \/ GenerateInterfaces(ok)
  BY <1>6 DEF KeepDir, GenerateInterfaces, EndCosmwasm, WrappersInv
<1>7. CASE \E done \in SUBSET {"cosmwasm", "wrappers"} : PrepareDirs(done)
  <2>1. PICK done \in SUBSET {"cosmwasm", "wrappers"} : PrepareDirs(done)
    BY <1>7
  <2>2. /\ out'.wrappers = IF "wrappers" \in done THEN {} ELSE out.wrappers
        /\ out'.cosmwasm = IF "cosmwasm" \in done THEN {} ELSE out.cosmwasm
    BY <2>1 DEF PrepareDirs
  <2>3. CASE done = {"cosmwasm", "wrappers"}
    BY <2>1, <2>2, <2>3 DEF PrepareDirs, WrappersInv
  <2>4. CASE done # {"cosmwasm", "wrappers"}
    BY <2>1, <2>2, <2>4 DEF PrepareDirs, EndCosmwasm, WrappersInv
  <2> QED
    BY <2>3, <2>4
<1>8. CASE \E some \in SUBSET CosmwasmJobs(args.datasources) : RenderWrappers(some)
  BY <1>8 DEF RenderWrappers, EndCosmwasm, CosmwasmJobs, WrappersInv
<1> QED
  BY <1>1, <1>2, <1>3, <1>4, <1>5, <1>6, <1>7, <1>8 DEF CodegenAction, CodegenStep

LEMMA CodegenInvStep ==
    ASSUME written \in Manifests, CodegenInv, CodegenCommand
    PROVE  CodegenInv'
<1>1. CodegenAction
  BY CommandActs
<1> QED
  BY <1>1, ShapeStep, TmpStep, CauseStep, ModulesStep, WrappersStep DEF CodegenInv

-----------------------------------------------------------------------------
(* The start keeps its invariant.                                          *)

LEMMA StartInvInit == ProjectInit => StartInv
<1> SUFFICES ASSUME ProjectInit PROVE StartInv
  OBVIOUS
<1>1. GivenInv
  BY DEF ProjectInit, StartInit, GivenInv, LoadedStages
<1>2. ChainTypesInv /\ StagesInv
  BY DEF ProjectInit, StartInit, ChainTypesInv, StagesInv, Configured, LoadedStages
<1> QED
  BY <1>1, <1>2 DEF StartInv

LEMMA StartInvStays ==
    ASSUME StartInv, UNCHANGED startVars
    PROVE  StartInv'
<1>1. GivenInv'
  BY DEF StartInv, startVars, nodeVars, GivenInv
<1>2. ChainTypesInv'
  BY DEF StartInv, startVars, nodeVars, ChainTypesInv, Configured
<1>3. StagesInv'
  <2>1. ChainTypes' = ChainTypes
    BY DEF startVars, nodeVars, ChainTypes, PackageName
  <2> QED
    BY <2>1 DEF StartInv, startVars, nodeVars, StagesInv
<1> QED
  BY <1>1, <1>2, <1>3 DEF StartInv

(* A step that leaves project, registry and root alone keeps what was said *)
(* of them, when the stage it reaches asks for nothing new.                *)
LEMMA QuietStep ==
    ASSUME StartInv, UNCHANGED <<written, toLoad, project, protoRoot, registry, connections>>,
           given' = given,
           \/ stage' \in {"exited", "waiting"}
           \/ /\ stage \in LoadedStages /\ stage' \in LoadedStages
              /\ stage \in {"connect", "services", "listening"} => stage' = "listening"
    PROVE  StartInv'
<1>1. GivenInv'
  BY DEF StartInv, GivenInv, LoadedStages
<1>2. ChainTypesInv'
  BY DEF StartInv, ChainTypesInv, Configured, LoadedStages
<1>3. StagesInv'
  <2>1. ChainTypes' = ChainTypes
    BY DEF ChainTypes, PackageName
  <2> QED
    BY <2>1 DEF StartInv, StagesInv, LoadedStages
<1> QED
  BY <1>1, <1>2, <1>3 DEF StartInv

LEMMA StartInvStart ==
    ASSUME StartInv, NEW manifest, NEW options, Start(manifest, options)
    PROVE  StartInv'
<1>0. stage = "none" /\ stage' = "create" /\ registry = {} /\ registry' = {}
  BY DEF Start, StartInv, StagesInv
<1>1. GivenInv'
  <2>1. \A n \in given'.network : toLoad' \subseteq DOMAIN n.chaintypes
    BY DEF Start, StartInv, StagesInv
  <2> QED
    BY <1>0, <2>1 DEF Start, StartInv, GivenInv, LoadedStages
<1>2. ChainTypesInv' /\ StagesInv'
  BY <1>0 DEF Start, StartInv, StagesInv, ChainTypesInv, Configured, LoadedStages
<1> QED
  BY <1>1, <1>2 DEF StartInv

LEMMA StartInvEdit ==
    ASSUME StartInv, EditManifest
    PROVE  StartInv'
<1>0. stage = "none" /\ stage' = "none" /\ registry = {} /\ registry' = {}
  BY DEF EditManifest, nodeVars, StartInv, StagesInv
<1>1. GivenInv'
  <2>1. \A n \in given'.network : toLoad' \subseteq DOMAIN n.chaintypes
    BY DEF EditManifest, nodeVars, StartInv, StagesInv
  <2> QED
    BY <1>0, <2>1, ProjectAssumption DEF EditManifest, nodeVars, StartInv, GivenInv, LoadedStages
<1>2. ChainTypesInv' /\ StagesInv'
  BY <1>0 DEF EditManifest, nodeVars, StartInv, StagesInv, ChainTypesInv, Configured, LoadedStages
<1> QED
  BY <1>1, <1>2 DEF StartInv

LEMMA ExitStep ==
    ASSUME StartInv, Exit, UNCHANGED <<written, given>>
    PROVE  StartInv'
BY QuietStep DEF Exit

(* Once the network is there, it is the one of the manifest.               *)
LEMMA GivenIsManifest == StartInv => IsManifest(given)
BY StartAssumption, DeploymentIsManifest DEF StartInv, GivenInv

LEMMA CreateStep ==
    ASSUME StartInv, Create, UNCHANGED <<written, given>>
    PROVE  StartInv'
<1>1. CASE Exit
  BY <1>1, ExitStep
<1>2. CASE ~Exit
  <2>1. /\ stage = "create" /\ stage' = "network" /\ Accepted(given) /\ given.network # {}
        /\ UNCHANGED <<toLoad, project, protoRoot, registry, connections>>
    BY <1>2 DEF Create, ThrowUnless
  <2>2. registry = {} /\ connections = {}
    BY <2>1 DEF StartInv, StagesInv
  <2>3. GivenInv'
    BY <2>1 DEF StartInv, GivenInv, LoadedStages
  <2>4. ChainTypesInv' /\ StagesInv'
    BY <2>1, <2>2 DEF StartInv, StagesInv, ChainTypesInv, Configured, LoadedStages
  <2> QED
    BY <2>3, <2>4 DEF StartInv
<1> QED
  BY <1>1, <1>2

LEMMA NetworkStep ==
    ASSUME StartInv, ProcessNetworkConfig, UNCHANGED <<written, given>>
    PROVE  StartInv'
<1>1. CASE Exit
  BY <1>1, ExitStep
<1>2. CASE ~Exit
  <2>1. stage = "network"
    BY DEF ProcessNetworkConfig
  <2>2. PICK n \in given.network :
          /\ stage' = "chaintypes" /\ toLoad' = DOMAIN n.chaintypes
          /\ project' = [NoProject EXCEPT
                !.chainId = IF n.chainId # "" THEN n.chainId ELSE n.genesisHash,
                !.endpoint = MergedNetwork(n).endpoint, !.dictionary = MergedNetwork(n).dictionary]
          /\ UNCHANGED <<protoRoot, registry, connections>>
    BY <1>2 DEF ProcessNetworkConfig, ThrowUnless
  <2>3. registry = {} /\ connections = {} /\ protoRoot = {} /\ Accepted(given)
    BY <2>1 DEF StartInv, StagesInv, GivenInv
  <2>4. /\ IsManifest(given) /\ n.chainId # ""
        /\ \A o \in given.network : o = n
    BY <2>3, GivenIsManifest, AcceptedNetwork DEF IsManifest
  <2>5. /\ DOMAIN project' = DOMAIN NoProject /\ project'.chainId = n.chainId
        /\ project'.chaintypes = <<>>
    BY <2>2, <2>4 DEF NoProject
  <2>6. GivenInv'
    BY <2>1, <2>2, <2>3, <2>4, <2>5 DEF StartInv, GivenInv, LoadedStages
  <2>7. ChainTypesInv'
    <3>1. DOMAIN project'.chaintypes = {}
      BY <2>5
    <3> QED
      BY <2>2, <2>3, <2>4, <2>5, <3>1 DEF ChainTypesInv
  <2>8. StagesInv'
    BY <2>2, <2>3 DEF StagesInv, LoadedStages
  <2> QED
    BY <2>6, <2>7, <2>8 DEF StartInv
<1> QED
  BY <1>1, <1>2

LEMMA ChainTypeStep ==
    ASSUME StartInv, NEW k, LoadNetworkChainType(k), UNCHANGED <<written, given>>
    PROVE  StartInv'
<1>1. CASE Exit
  BY <1>1, ExitStep
<1>2. CASE ~Exit
  <2>1. stage = "chaintypes" /\ k \in toLoad
    BY DEF LoadNetworkChainType
  <2> DEFINE Place(n) == OnDisk(n.chaintypes[k].file)
             Entry(n) == [file |-> n.chaintypes[k].file, messages |-> n.chaintypes[k].messages,
                          package |-> ProtoFiles[Place(n)].package]
  <2>2. PICK n \in given.network :
          /\ Place(n) \in DOMAIN ProtoFiles
          /\ toLoad' = toLoad \ {k}
          /\ project' = [project EXCEPT !.chaintypes = Extended(@, k, Entry(n))]
          /\ protoRoot' = protoRoot \cup TypesOf(ProtoFiles[Place(n)])
          /\ UNCHANGED <<stage, registry, connections>>
    BY <1>2 DEF LoadNetworkChainType, ThrowUnless
  <2>3. /\ registry = {} /\ connections = {} /\ DOMAIN project = DOMAIN NoProject
        /\ toLoad \subseteq DOMAIN n.chaintypes
    BY <2>1 DEF StartInv, StagesInv, GivenInv
  <2>4. \A o \in given.network : o = n
    BY GivenIsManifest DEF IsManifest
  <2>5. /\ DOMAIN project' = DOMAIN NoProject /\ project'.chainId = project.chainId
        /\ project'.chaintypes = Extended(project.chaintypes, k, Entry(n))
    BY <2>2, <2>3 DEF NoProject
  <2>6. GivenInv'
    BY <2>1, <2>2, <2>3, <2>5 DEF StartInv, GivenInv, LoadedStages
  <2>7. ChainTypesInv'
    <3>1. /\ project.chainId = n.chainId
          /\ DOMAIN project.chaintypes = DOMAIN n.chaintypes \ toLoad
          /\ \A j \in DOMAIN project.chaintypes :
                /\ OnDisk(n.chaintypes[j].file) \in DOMAIN ProtoFiles
                /\ project.chaintypes[j].file = n.chaintypes[j].file
                /\ project.chaintypes[j].messages = n.chaintypes[j].messages
                /\ project.chaintypes[j].package =
                      ProtoFiles[OnDisk(n.chaintypes[j].file)].package
          /\ \A p \in protoRoot : \E j \in DOMAIN project.chaintypes :
                p \in TypesOf(ProtoFiles[OnDisk(n.chaintypes[j].file)])
      BY <2>1 DEF StartInv, ChainTypesInv, Configured
    <3>2. /\ DOMAIN project'.chaintypes = DOMAIN n.chaintypes \ toLoad'
          /\ project'.chaintypes[k] = Entry(n)
          /\ \A j \in DOMAIN project.chaintypes : project'.chaintypes[j] = project.chaintypes[j]
      <4>1. /\ DOMAIN project'.chaintypes = DOMAIN project.chaintypes \cup {k}
            /\ project'.chaintypes[k] = Entry(n)
            /\ \A j \in DOMAIN project.chaintypes :
                  j # k => project'.chaintypes[j] = project.chaintypes[j]
        <5>1. PICK e : e = Entry(n)
          OBVIOUS
        <5> HIDE DEF Entry
        <5>2. PICK f : f = project.chaintypes
          OBVIOUS
        <5>3. /\ DOMAIN Extended(f, k, e) = DOMAIN f \cup {k}
              /\ Extended(f, k, e)[k] = e
              /\ \A j \in DOMAIN f : j # k => Extended(f, k, e)[j] = f[j]
          BY DEF Extended
        <5>4. project'.chaintypes = Extended(f, k, e)
          BY <2>5, <5>1, <5>2
        <5> QED
          BY <5>1, <5>2, <5>3, <5>4
      <4>2. k \notin DOMAIN project.chaintypes /\ k \in DOMAIN n.chaintypes
        BY <2>1, <2>3, <3>1
      <4>3. DOMAIN project.chaintypes \cup {k} = DOMAIN n.chaintypes \ (toLoad \ {k})
        BY <2>1, <2>3, <3>1, <4>2
      <4> QED
        BY <2>2, <4>1, <4>2, <4>3
    <3>3. ASSUME NEW j \in DOMAIN project'.chaintypes
          PROVE  /\ OnDisk(n.chaintypes[j].file) \in DOMAIN ProtoFiles
                 /\ project'.chaintypes[j].file = n.chaintypes[j].file
                 /\ project'.chaintypes[j].messages = n.chaintypes[j].messages
                 /\ project'.chaintypes[j].package =
                       ProtoFiles[OnDisk(n.chaintypes[j].file)].package
      <4>1. CASE j = k
        BY <2>2, <3>2, <4>1
      <4>2. CASE j # k
        <5>1. j \in DOMAIN project.chaintypes
          BY <2>2, <3>1, <3>2, <4>2
        <5> QED
          BY <3>1, <3>2, <5>1
      <4> QED
        BY <4>1, <4>2
    <3>4. ASSUME NEW p \in protoRoot'
          PROVE  \E j \in DOMAIN project'.chaintypes :
                    p \in TypesOf(ProtoFiles[OnDisk(n.chaintypes[j].file)])
      <4>1. k \in DOMAIN project'.chaintypes
            /\ DOMAIN project.chaintypes \subseteq DOMAIN project'.chaintypes
        BY <2>1, <2>2, <2>3, <3>1, <3>2
      <4> QED
        BY <2>2, <3>1, <4>1
    <3> QED
      <4>1. project'.chainId = n.chainId
        BY <2>5, <3>1
      <4>2. \A o \in given'.network : o = n
        BY <2>4
      <4> HIDE DEF Place, Entry
      <4> QED
        BY <3>2, <3>3, <3>4, <4>1, <4>2 DEF ChainTypesInv
  <2>8. StagesInv'
    BY <2>1, <2>2, <2>3 DEF StagesInv, LoadedStages
  <2> QED
    BY <2>6, <2>7, <2>8 DEF StartInv
<1> QED
  BY <1>1, <1>2

LEMMA EndpointStep ==
    ASSUME StartInv, CheckEndpoint, UNCHANGED <<written, given>>
    PROVE  StartInv'
<1>1. CASE Exit
  BY <1>1, ExitStep
<1>2. CASE ~Exit
  <2>1. /\ stage = "chaintypes" /\ stage' = "sources" /\ toLoad = {}
        /\ UNCHANGED <<toLoad, project, protoRoot, registry, connections>>
    BY <1>2 DEF CheckEndpoint, ThrowUnless
  <2>2. registry = {} /\ connections = {}
    BY <2>1 DEF StartInv, StagesInv
  <2>3. GivenInv'
    BY <2>1 DEF StartInv, GivenInv, LoadedStages
  <2>4. ChainTypesInv'
    BY <2>1 DEF StartInv, ChainTypesInv, Configured
  <2>5. StagesInv'
    BY <2>1, <2>2 DEF StagesInv, LoadedStages
  <2> QED
    BY <2>3, <2>4, <2>5 DEF StartInv
<1> QED
  BY <1>1, <1>2

LEMMA SourcesStep ==
    ASSUME StartInv, LoadSources, UNCHANGED <<written, given>>
    PROVE  StartInv'
<1>1. /\ stage = "sources" /\ stage' = "runner"
      /\ UNCHANGED <<toLoad, protoRoot, registry, connections>>
      /\ DOMAIN project = DOMAIN NoProject
      /\ registry = {} /\ connections = {} /\ toLoad = {}
  BY DEF LoadSources, Advance, StartInv, GivenInv, StagesInv
<1>2. /\ DOMAIN project' = DOMAIN NoProject
      /\ project'.dataSources = given.dataSources /\ project'.templates = given.templates
      /\ project'.chainId = project.chainId /\ project'.chaintypes = project.chaintypes
  BY <1>1 DEF LoadSources, NoProject
<1>3. GivenInv'
  BY <1>1, <1>2 DEF StartInv, GivenInv, LoadedStages
<1>4. ChainTypesInv'
  BY <1>1, <1>2 DEF StartInv, ChainTypesInv, Configured
<1>5. StagesInv'
  BY <1>1, <1>2 DEF StagesInv, LoadedStages
<1> QED
  BY <1>3, <1>4, <1>5 DEF StartInv

LEMMA RegistryStep ==
    ASSUME StartInv, BuildRegistry, UNCHANGED <<written, given>>
    PROVE  StartInv'
<1>1. CASE Exit
  BY <1>1, ExitStep
<1>2. CASE ~Exit
  <2>1. /\ stage = "registry" /\ stage' = "connect"
        /\ ChainTypes \subseteq protoRoot /\ registry' = WasmTypes \cup ChainTypes
        /\ UNCHANGED <<toLoad, project, protoRoot, connections>>
    BY <1>2 DEF BuildRegistry, ThrowUnless
  <2>2. ChainTypes' = ChainTypes
    <3>1. project' = project
      BY <2>1
    <3> QED
      BY <3>1 DEF ChainTypes, PackageName
  <2>3. GivenInv'
    BY <2>1 DEF StartInv, GivenInv, LoadedStages
  <2>4. ChainTypesInv'
    BY <2>1 DEF StartInv, ChainTypesInv, Configured, LoadedStages
  <2>5. StagesInv'
    BY <2>1, <2>2 DEF StartInv, StagesInv, LoadedStages
  <2> QED
    BY <2>3, <2>4, <2>5 DEF StartInv
<1> QED
  BY <1>1, <1>2

LEMMA ConnectStep ==
    ASSUME StartInv, UNCHANGED <<written, given>>,
           NEW some \in SUBSET DOMAIN project.endpoint, Connect(some)
    PROVE  StartInv'
<1>1. CASE Exit
  BY <1>1, ExitStep
<1>2. CASE ~Exit
  <2>1. /\ stage = "connect" /\ stage' = "services"
        /\ connections' = {[endpoint |-> project.endpoint[i],
                            target |-> Target(project.endpoint[i])] : i \in some}
        /\ UNCHANGED <<toLoad, project, protoRoot, registry>>
    BY <1>2 DEF Connect, ThrowUnless
  <2>2. ChainTypes' = ChainTypes
    <3>1. project' = project
      BY <2>1
    <3> QED
      BY <3>1 DEF ChainTypes, PackageName
  <2>3. GivenInv'
    BY <2>1 DEF StartInv, GivenInv, LoadedStages
  <2>4. ChainTypesInv'
    BY <2>1 DEF StartInv, ChainTypesInv, Configured, LoadedStages
  <2>5. \A c \in connections' : \E i \in DOMAIN project'.endpoint :
            c.endpoint = project'.endpoint[i] /\ c.target = Target(c.endpoint)
    BY <2>1
  <2>6. StagesInv'
    BY <2>1, <2>2, <2>5 DEF StartInv, StagesInv, LoadedStages
  <2> QED
    BY <2>3, <2>4, <2>6 DEF StartInv
<1> QED
  BY <1>1, <1>2

LEMMA CheckStep ==
    ASSUME StartInv, UNCHANGED <<written, given>>,
           \/ CheckRunner \/ Listen \/ ExternalFailure
           \/ \E resolved \in BOOLEAN : CreateDictionary(resolved)
    PROVE  StartInv'
<1>1. CASE Exit
  BY <1>1, ExitStep
<1>2. CASE ~Exit
  <2>1. /\ UNCHANGED <<toLoad, project, protoRoot, registry, connections>>
        /\ stage \in {"runner", "dictionary", "services"}
        /\ stage' \in {"dictionary", "registry", "listening"}
        /\ stage = "services" => stage' = "listening"
    BY <1>2 DEF CheckRunner, Listen, Advance, ExternalFailure, CreateDictionary, ThrowUnless
  <2> QED
    BY <2>1, QuietStep DEF LoadedStages
<1> QED
  BY <1>1, <1>2

LEMMA StartInvBootstrap ==
    ASSUME StartInv, Bootstrap
    PROVE  StartInv'
<1>1. UNCHANGED <<written, given>>
  BY DEF Bootstrap
<1> QED
  BY <1>1, CreateStep, NetworkStep, EndpointStep, SourcesStep, ChainTypeStep, RegistryStep,
     ConnectStep, CheckStep DEF Bootstrap

LEMMA SilenceStep ==
    ASSUME StartInv, Silence
    PROVE  StartInv'
BY QuietStep DEF Silence

LEMMA BootstrapIsStarted == Bootstrap \/ Silence => stage # "none"
BY DEF Bootstrap, Silence, Create, ProcessNetworkConfig, CheckEndpoint, LoadSources, CheckRunner,
       LoadNetworkChainType, CreateDictionary, BuildRegistry, Connect, Listen, ExternalFailure,
       Advance

-----------------------------------------------------------------------------
(* The invariants hold of every state of a project, through edits of its   *)
(* manifest, from the first run of the generators to the running node.     *)
THEOREM ProjectInvHolds == ProjectSpec => [](StartInv /\ CodegenInv /\ IdleInv)
<1>1. ProjectInit => StartInv /\ CodegenInv /\ IdleInv
  BY StartInvInit, CodegenInvInit DEF ProjectInit, CodegenInit, IdleInv
<1>2. StartInv /\ CodegenInv /\ IdleInv /\ [ProjectNext]_projectVars
        => (StartInv /\ CodegenInv /\ IdleInv)'
  <2> SUFFICES ASSUME StartInv, CodegenInv, IdleInv, [ProjectNext]_projectVars
               PROVE  StartInv' /\ CodegenInv' /\ IdleInv'
    OBVIOUS
  <2>1. CASE CodegenCommand
    <3>1. IdleInv'
      BY <2>1 DEF CodegenCommand, startVars, nodeVars, IdleInv
    <3> QED
      BY <2>1, <3>1, StartInvStays, CodegenInvStep DEF CodegenCommand, StartInv, GivenInv
  <2>2. CASE StartCommand
    <3>1. IdleInv'
      BY <2>2 DEF StartCommand, codegenVars, IdleInv
    <3> QED
      BY <2>2, <3>1, StartInvStart, CodegenInvStays DEF StartCommand
  <2>3. CASE Node \/ NodeWaits
    <3>1. UNCHANGED codegenVars /\ (Bootstrap \/ Silence)
      BY <2>3 DEF Node, NodeWaits
    <3>2. IdleInv'
      BY <3>1, BootstrapIsStarted DEF codegenVars, IdleInv
    <3> QED
      BY <3>1, <3>2, StartInvBootstrap, SilenceStep, CodegenInvStays
  <2>4. CASE EditManifest
    <3>1. UNCHANGED codegenVars /\ UNCHANGED nodeVars
      BY <2>4 DEF EditManifest
    <3>2. IdleInv'
      BY <3>1 DEF codegenVars, nodeVars, IdleInv
    <3> QED
      BY <2>4, <3>1, <3>2, StartInvEdit, CodegenInvStays
  <2>5. CASE UNCHANGED projectVars
    <3>1. UNCHANGED startVars /\ UNCHANGED codegenVars
      BY <2>5 DEF projectVars
    <3>2. IdleInv'
      BY <3>1 DEF startVars, nodeVars, codegenVars, IdleInv
    <3> QED
      BY <3>1, <3>2, StartInvStays, CodegenInvStays
  <2> QED
    BY <2>1, <2>2, <2>3, <2>4, <2>5 DEF ProjectNext, Done
<1> QED
  BY <1>1, <1>2, PTL DEF ProjectSpec

(* Codegen.TempDirRemoved, for every project, file and error.              *)
THEOREM TempDirIsRemoved == ProjectSpec => []TempDirRemoved
<1>1. CodegenInv => TempDirRemoved
  BY DEF CodegenInv, CodegenShape, TmpInv, TempDirRemoved, ProtoJobs, WasmJobs
<1> QED
  BY <1>1, ProjectInvHolds, PTL

(* Codegen.CauseTold: a run that failed is never taken for a success.      *)
THEOREM CauseIsTold == ProjectSpec => []CauseTold
<1>1. CodegenInv => CauseTold
  BY DEF CodegenInv, CauseInv
<1> QED
  BY <1>1, ProjectInvHolds, PTL

(* Codegen.ImportsResolve, through any edits of the manifest and failures  *)
(* half way: after a generation that resolved, the imports of files        *)
(* spelled ./proto/... without further dots, and, where there are assets,  *)
(* those of every wrapper, are of generated modules.                       *)
THEOREM GeneratedImportsResolve == ProjectSpec => []ImportsResolve
<1>1. CodegenInv => ImportsResolve
  BY DEF CodegenInv, ModulesInv, WrappersInv, ImportsResolve, ProtoJobs, WasmJobs
<1> QED
  BY <1>1, ProjectInvHolds, PTL

(* Startup.StartTypeOK, of which the last part says that only types of the *)
(* loaded files and the built-in ones are registered.                      *)
THEOREM StartTypeCorrect == ProjectSpec => []StartTypeOK
<1>1. StartInv => StartTypeOK
  <2> SUFFICES ASSUME StartInv PROVE StartTypeOK
    OBVIOUS
  <2>1. registry \subseteq protoRoot \cup WasmTypes
    BY DEF StartInv, StagesInv
  <2>2. /\ stage \in {"none", "create", "network", "chaintypes", "sources", "exited", "waiting"}
           \/ Loaded
        /\ DOMAIN project = DOMAIN NoProject
        /\ \A n \in given.network : toLoad \subseteq DOMAIN n.chaintypes
    BY DEF StartInv, GivenInv, Loaded, LoadedStages
  <2> QED
    BY <2>1, <2>2, GivenIsManifest DEF StartTypeOK
<1> QED
  BY <1>1, ProjectInvHolds, PTL

(* The chain types of what the node is given are those that were written.  *)
LEMMA GivenNetwork ==
    ASSUME StartInv, NEW n \in written.network
    PROVE  \E g \in given.network : g.chainId = n.chainId /\ g.chaintypes = n.chaintypes
<1>1. IsManifest(written) /\ IsNetwork(n)
  BY StartAssumption DEF StartInv, GivenInv, IsManifest
<1>2. CASE given = written
  BY <1>2
<1>3. CASE given = Deployment(written)
  <2>1. DeployedNetwork(n) \in given.network
    BY <1>1, <1>3, DeploymentFields
  <2> QED
    BY <1>1, <2>1, DeployedNetworkFields
<1> QED
  BY <1>2, <1>3 DEF StartInv, GivenInv

(* Sources that are loaded by way of a deployment.                         *)
LEMMA DeployedSources ==
    ASSUME NEW dss, \A i \in DOMAIN dss : IsDatasource(dss[i]),
           given # written
    PROVE  SameSources(DeployedAll(dss), dss)
<1>1. ASSUME NEW i \in DOMAIN dss
      PROVE  /\ [DeployedAll(dss)[i] EXCEPT !.handlers = <<>>] = [dss[i] EXCEPT !.handlers = <<>>]
             /\ DOMAIN DeployedAll(dss)[i].handlers = DOMAIN dss[i].handlers
             /\ \A j \in DOMAIN dss[i].handlers :
                   LET was == dss[i].handlers[j]
                       is == DeployedAll(dss)[i].handlers[j]
                   IN  is = was \/ (given # written /\ was.kind = "transaction" /\ is.kind = was.kind)
  <2>1. PICK ds : ds = dss[i] /\ IsDatasource(ds) /\ DeployedAll(dss)[i] = DeployedDs(ds)
    BY DeployedAllFields
  <2>2. [DeployedDs(ds) EXCEPT !.handlers = <<>>] = [ds EXCEPT !.handlers = <<>>]
    BY <2>1 DEF DeployedDs, IsDatasource
  <2>3. ASSUME NEW j \in DOMAIN ds.handlers
        PROVE  \/ DeployedDs(ds).handlers[j] = ds.handlers[j]
               \/ /\ ds.handlers[j].kind = "transaction"
                  /\ DeployedDs(ds).handlers[j].kind = ds.handlers[j].kind
    <3>1. IsHandler(ds.handlers[j])
      BY <2>1 DEF IsDatasource
    <3> QED
      BY <2>1, <3>1, DeployedHandlers, DeployedHandlerFields
  <2>4. DOMAIN DeployedDs(ds).handlers = DOMAIN ds.handlers
    BY <2>1, DeployedHandlers
  <2> QED
    BY <2>1, <2>2, <2>3, <2>4
<1>2. DOMAIN DeployedAll(dss) = DOMAIN dss
  BY DeployedAllFields
<1> QED
  BY <1>1, <1>2 DEF SameSources

(* Startup.LoadedAsWritten: also by way of a deployment, only the filter   *)
(* of transaction handlers is lost.                                        *)
THEOREM NodeLoadsWhatWasWritten == ProjectSpec => []LoadedAsWritten
<1>1. StartInv => LoadedAsWritten
  <2> SUFFICES ASSUME StartInv, Loaded, NEW n \in written.network
               PROVE  /\ project.chainId = n.chainId
                      /\ DOMAIN project.chaintypes = DOMAIN n.chaintypes
                      /\ \A k \in DOMAIN n.chaintypes :
                            /\ project.chaintypes[k].file = n.chaintypes[k].file
                            /\ project.chaintypes[k].messages = n.chaintypes[k].messages
                      /\ SameSources(project.dataSources, written.dataSources)
                      /\ SameSources(project.templates, written.templates)
    BY DEF LoadedAsWritten
  <2>0. stage \in LoadedStages /\ toLoad = {}
    BY DEF Loaded, LoadedStages, StartInv, StagesInv
  <2>1. PICK g \in given.network : g.chainId = n.chainId /\ g.chaintypes = n.chaintypes
    BY GivenNetwork
  <2>2. /\ project.chainId = n.chainId
        /\ DOMAIN project.chaintypes = DOMAIN n.chaintypes
        /\ \A k \in DOMAIN n.chaintypes :
              /\ project.chaintypes[k].file = n.chaintypes[k].file
              /\ project.chaintypes[k].messages = n.chaintypes[k].messages
    <3>1. DOMAIN g.chaintypes \ toLoad = DOMAIN n.chaintypes
      BY <2>0, <2>1
    <3> QED
      BY <2>0, <2>1, <3>1 DEF StartInv, ChainTypesInv, Configured
  <2>3. /\ project.dataSources = given.dataSources /\ project.templates = given.templates
        /\ IsManifest(written)
    BY <2>0, StartAssumption DEF StartInv, StagesInv, GivenInv
  <2>4. CASE given = written
    <3>1. \A dss : SameSources(dss, dss)
      BY DEF SameSources
    <3> QED
      BY <2>2, <2>3, <2>4, <3>1
  <2>5. CASE given = Deployment(written) /\ given # written
    <3>1. /\ given.dataSources = DeployedAll(written.dataSources)
          /\ given.templates = DeployedAll(written.templates)
      BY <2>3, <2>5, DeploymentFields
    <3>2. /\ \A i \in DOMAIN written.dataSources : IsDatasource(written.dataSources[i])
          /\ \A i \in DOMAIN written.templates : IsDatasource(written.templates[i])
      BY <2>3 DEF IsManifest
    <3> QED
      BY <2>2, <2>3, <2>5, <3>1, <3>2, DeployedSources
  <2> QED
    BY <2>2, <2>4, <2>5 DEF StartInv, GivenInv
<1> QED
  BY <1>1, ProjectInvHolds, PTL

(* The file of a chain type, and the package its messages go by.           *)
ProtoOf(n, k) == ProtoFiles[OnDisk(n.chaintypes[k].file)]
PackageOf(n, k) == IF ProtoOf(n, k).package = "" THEN k ELSE ProtoOf(n, k).package

(* Every message of the manifest is registered, and a file defines it.     *)
LEMMA NamedIsRegistered ==
    ASSUME StartInv, registry # {}, NEW n \in written.network, NEW k \in DOMAIN n.chaintypes,
           NEW msg \in n.chaintypes[k].messages
    PROVE  /\ <<PackageOf(n, k), msg>> \in registry
           /\ \E j \in DOMAIN n.chaintypes :
                 ProtoOf(n, j).package = PackageOf(n, k) /\ msg \in ProtoOf(n, j).types
<1>1. PICK g \in given.network : g.chainId = n.chainId /\ g.chaintypes = n.chaintypes
  BY GivenNetwork
<1>2. /\ registry = WasmTypes \cup ChainTypes /\ ChainTypes \subseteq protoRoot
      /\ toLoad = {}
  BY DEF StartInv, StagesInv
<1>3. DOMAIN project.chaintypes = DOMAIN n.chaintypes
  <2>1. DOMAIN project.chaintypes = DOMAIN g.chaintypes \ toLoad
    BY DEF StartInv, ChainTypesInv, Configured
  <2> QED
    BY <1>1, <1>2, <2>1
<1>4. /\ project.chaintypes[k].messages = n.chaintypes[k].messages
      /\ project.chaintypes[k].package = ProtoOf(n, k).package
  BY <1>1, <1>3 DEF StartInv, ChainTypesInv, Configured, ProtoOf
<1>5. PackageName(k) = PackageOf(n, k)
  BY <1>4, Zenon DEF PackageName, PackageOf
<1>6. <<PackageOf(n, k), msg>> \in ChainTypes
  <2>1. k \in DOMAIN project.chaintypes /\ msg \in project.chaintypes[k].messages
    BY <1>3, <1>4
  <2>2. <<PackageName(k), msg>> \in ChainTypes
    BY <2>1 DEF ChainTypes
  <2> QED
    BY <1>5, <2>2
<1>7. PICK j \in DOMAIN n.chaintypes : <<PackageOf(n, k), msg>> \in TypesOf(ProtoOf(n, j))
  <2>1. \A p \in protoRoot : \E j \in DOMAIN project.chaintypes : p \in TypesOf(ProtoOf(g, j))
    BY DEF StartInv, ChainTypesInv, Configured, ProtoOf
  <2>2. \A j : ProtoOf(g, j) = ProtoOf(n, j)
    BY <1>1 DEF ProtoOf
  <2> QED
    BY <1>2, <1>3, <1>6, <2>1, <2>2
<1>8. ProtoOf(n, j).package = PackageOf(n, k) /\ msg \in ProtoOf(n, j).types
  BY <1>7 DEF TypesOf
<1> QED
  BY <1>2, <1>6, <1>8

(* Project.RegistryComplete: the registry decodes what the manifest names  *)
(* and what code generated for the same chain types has wrappers for.      *)
THEOREM RegistryIsComplete == ProjectSpec => []RegistryComplete
<1>1. StartInv /\ CodegenInv /\ IdleInv => RegistryComplete
  <2> SUFFICES ASSUME StartInv, CodegenInv, IdleInv, registry # {}
               PROVE  RegistryComplete
    BY DEF RegistryComplete
  <2>1. WasmTypes \subseteq registry
    BY DEF StartInv, StagesInv
  <2>2. ASSUME NEW n \in written.network, NEW k \in DOMAIN n.chaintypes,
               NEW msg \in n.chaintypes[k].messages
        PROVE  LET Proto(j) == ProtoFiles[OnDisk(n.chaintypes[j].file)]
                   package == IF Proto(k).package = "" THEN k ELSE Proto(k).package
               IN  /\ <<package, msg>> \in registry
                   /\ \E j \in DOMAIN n.chaintypes :
                         Proto(j).package = package /\ msg \in Proto(j).types
    <3>1. /\ <<PackageOf(n, k), msg>> \in registry
          /\ \E j \in DOMAIN n.chaintypes :
                ProtoOf(n, j).package = PackageOf(n, k) /\ msg \in ProtoOf(n, j).types
      BY NamedIsRegistered
    <3> QED
      BY <3>1, Zenon DEF PackageOf, ProtoOf
  <2>3. ASSUME ended.proto = "resolved", args.chaintypes = Chaintypes,
               NEW t \in out.types, NEW msg \in t.messages
        PROVE  \E p \in registry : p[2] = msg
    <3>0. job = "idle"
      BY DEF StartInv, StagesInv, IdleInv
    <3>1. PICK n \in written.network :
            \E k \in DOMAIN n.chaintypes : msg \in n.chaintypes[k].messages
      <4>1. out.types = PrepareProtobufRenderProps(Chaintypes)
        BY <2>3, <3>0 DEF CodegenInv, ModulesInv, ProtoJobs
      <4>2. PICK c \in Chaintypes : msg \in c.messages
        BY <2>3, <4>1 DEF PrepareProtobufRenderProps
      <4> QED
        BY <4>2 DEF Chaintypes
    <3>2. PICK package : <<package, msg>> \in registry
      BY <3>1, NamedIsRegistered
    <3> QED
      BY <3>2
  <2> QED
    BY <2>1, <2>2, <2>3 DEF RegistryComplete
<1> QED
  BY <1>1, ProjectInvHolds, PTL

(* Startup.ConnectedAsConfigured: a websocket, and an HTTP endpoint        *)
(* without an api key, keeps every parameter; a key that is the only       *)
(* parameter of an HTTP endpoint becomes a header.  Of a key beside other  *)
(* parameters it says nothing.                                             *)
THEOREM ConnectionsAsConfigured == ProjectSpec => []ConnectedAsConfigured
<1>1. StartInv => ConnectedAsConfigured
  <2> SUFFICES ASSUME StartInv, NEW c \in connections
               PROVE  /\ \E i \in DOMAIN project.endpoint : c.endpoint = project.endpoint[i]
                      /\ IsWebsocket(c.endpoint) \/ Keys(c.endpoint) = {} =>
                            c.target.params = c.endpoint.params
                      /\ ~IsWebsocket(c.endpoint) /\ c.endpoint.params = <<"apikey">> =>
                            c.target.params = <<>> /\ "apikey" \in c.target.headers
    BY DEF ConnectedAsConfigured
  <2>1. /\ c.target = Target(c.endpoint)
        /\ \E i \in DOMAIN project.endpoint : c.endpoint = project.endpoint[i]
    BY DEF StartInv, StagesInv
  <2>2. IsWebsocket(c.endpoint) \/ Keys(c.endpoint) = {} => c.target.params = c.endpoint.params
    BY <2>1 DEF Target, WebsocketTarget, HttpTarget, Keys
  <2>3. ASSUME ~IsWebsocket(c.endpoint), c.endpoint.params = <<"apikey">>
        PROVE  c.target.params = <<>> /\ "apikey" \in c.target.headers
    <3>1. \E i \in DOMAIN c.endpoint.params : c.endpoint.params[i] = "apikey"
      <4>1. 1 \in DOMAIN c.endpoint.params /\ c.endpoint.params[1] = "apikey"
        BY <2>3
      <4> QED
        BY <4>1
    <3>2. CutAtApikey(c.endpoint.params) = <<>>
      BY <2>3 DEF CutAtApikey
    <3> QED
      BY <2>1, <2>3, <3>1, <3>2 DEF Target, HttpTarget
  <2> QED
    BY <2>1, <2>2, <2>3
<1> QED
  BY <1>1, ProjectInvHolds, PTL

=============================================================================
