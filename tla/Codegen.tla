------------------------------ MODULE Codegen -------------------------------
(***************************************************************************)
(* packages/common-cosmos/src/codegen/codegen-controller.ts: generateProto *)
(* and generateCosmwasm, which write TypeScript for the chain types and    *)
(* the contracts a manifest names.  Each runs through awaits and file      *)
(* operations of which any may fail.                                       *)
(*                                                                         *)
(* The two generators (telescope, ts-codegen), the template engine and the *)
(* file system are external.  Telescope writes the module of a protobuf    *)
(* file under the file's own path, <<".", name>>; a wrapper and an         *)
(* interface of a contract go by the contract's name.                      *)
(***************************************************************************)
EXTENDS Manifest

CONSTANTS
    Files,          \* the files of the project, by place (see OnDisk)
    CommonProtos,   \* paths of the files in the @protobufs packages
    RpcMessages,    \* the messages whose name starts with Msg
    Errors          \* what a file operation or a generator may fail with

ASSUME ErrorsAssumption == "resolved" \notin Errors

VARIABLES
    job,            \* what is under way, "idle" between runs
    args,           \* the chain types and data sources generated for
    tmp,            \* the temporary directory: [exists, protos]
    tmpPath,        \* it was returned to generateProto
    out,            \* the generated files
    ended,          \* how the last run of each generator ended
    cause           \* history: what made the last run of generateProto fail

codegenVars == <<job, args, tmp, tmpPath, out, ended, cause>>

NoTmp == [exists |-> FALSE, protos |-> {}]

(* No code was generated yet.                                              *)
CodegenInit ==
    /\ job = "idle" /\ tmp = NoTmp /\ tmpPath = FALSE
    /\ args = [chaintypes |-> {}, datasources |-> {}]
    /\ out = [interfaces |-> {}, types |-> {}, cosmwasm |-> {}, wrappers |-> {}]
    /\ ended = [proto |-> "never", cosmwasm |-> "never"]
    /\ cause = "none"

UserProtos == {f[2] : f \in {f \in Files : f[1] = "proto"}}

(* path.replace(/\./g, '/')                                                *)
Slashed(name) == [i \in DOMAIN name |-> IF name[i] = "." THEN "/" ELSE name[i]]

(* processProtoFilePath, the import of the types of a file: only the       *)
(* prefix ./proto/ is taken off, and every dot that is left becomes a      *)
(* slash.                                                                  *)
ProcessProtoFilePath(file) ==
    <<IF file.at = "./proto" THEN "." ELSE file.at, Slashed(file.name)>>

(* isProtoPath: path.join makes the two spellings one.                     *)
IsProtoPath(file) == file.at \in {"./proto", "proto"}

(* prepareProtobufRenderProps: of every chain type the RPC messages.  That *)
(* a file is not under ./proto is reported and changes nothing.            *)
PrepareProtobufRenderProps(chaintypes) ==
    {[file |-> c.file, path |-> ProcessProtoFilePath(c.file),
      messages |-> c.messages \cap RpcMessages] :
        c \in {c \in chaintypes : c.messages \cap RpcMessages # {}}}

-----------------------------------------------------------------------------
(* generateProto                                                           *)

(* The call of tempProtoDir, up to makeTempDir.                            *)
GenerateProto(chaintypes) ==
    /\ job = "idle"
    /\ job' = "copy"
    /\ args' = [args EXCEPT !.chaintypes = chaintypes]
    /\ tmp' = [NoTmp EXCEPT !.exists = TRUE]
    /\ cause' = "none"
    /\ UNCHANGED <<tmpPath, out, ended>>

(* The common protobufs are copied, then those of the project.             *)
CopyProtos ==
    /\ job = "copy" /\ UserProtos # {}
    /\ job' = "props"
    /\ tmp' = [tmp EXCEPT !.protos = CommonProtos \cup UserProtos]
    /\ tmpPath' = TRUE
    /\ UNCHANGED <<args, out, ended, cause>>

PrepareRenderProps ==
    /\ job = "props" /\ \A c \in args.chaintypes : OnDisk(c.file) \in Files
    /\ job' = "directory"
    /\ UNCHANGED <<args, tmp, tmpPath, out, ended, cause>>

(* prepareDirPath(..., true): an empty directory.                          *)
PrepareProtoDir ==
    /\ job = "directory"
    /\ job' = "telescope"
    /\ out' = [out EXCEPT !.interfaces = {}]
    /\ UNCHANGED <<args, tmp, tmpPath, ended, cause>>

(* A module for every file of the temporary directory.                     *)
Telescope ==
    /\ job = "telescope"
    /\ job' = "render"
    /\ out' = [out EXCEPT !.interfaces = {<<".", n>> : n \in tmp.protos}]
    /\ UNCHANGED <<args, tmp, tmpPath, ended, cause>>

(* Faulty variant: the directory is removed at the end of try.             *)
FinallyNot(how) ==
    /\ ended' = [ended EXCEPT !.proto = how]
    /\ tmp' = IF how = "resolved" THEN NoTmp ELSE tmp
    /\ job' = "idle" /\ tmpPath' = FALSE

(* finally: rmSync(tmpPath), which throws over an undefined path.          *)
Finally(how) ==
    /\ ended' = [ended EXCEPT !.proto = IF tmpPath THEN how ELSE "TypeError"]
    /\ tmp' = IF tmpPath THEN NoTmp ELSE tmp
    /\ job' = "idle" /\ tmpPath' = FALSE

(* renderTemplate writes CosmosMessageTypes.ts.                            *)
RenderTypes ==
    /\ job = "render"
    /\ out' = [out EXCEPT !.types = PrepareProtobufRenderProps(args.chaintypes)]
    /\ Finally("resolved")
    /\ UNCHANGED <<args, cause>>

(* Faulty variant: the error is printed and not thrown again.              *)
GenerateProtoThrowsNot(e) ==
    /\ job \in {"copy", "props", "directory", "telescope", "render"}
    /\ job = "props" => \E c \in args.chaintypes : OnDisk(c.file) \notin Files
    /\ cause' = e
    /\ Finally("resolved")
    /\ UNCHANGED <<args, out>>

(* The step under way fails with e; catch: "Failed to generate from        *)
(* protobufs." with the message of e.                                      *)
GenerateProtoThrows(e) ==
    /\ job \in {"copy", "props", "directory", "telescope", "render"}
    /\ job = "props" => \E c \in args.chaintypes : OnDisk(c.file) \notin Files
    /\ cause' = e
    /\ Finally(e)
    /\ UNCHANGED <<args, out>>

-----------------------------------------------------------------------------
(* generateCosmwasm                                                        *)

(* prepareSortedAssets: the assets of runtime data sources by name.        *)
AssetNames(datasources) ==
    UNION {DOMAIN ds.assets : ds \in {ds \in datasources : isRuntimeCosmosDs(ds)}}

AssetsExist(datasources) ==
    \A ds \in {ds \in datasources : isRuntimeCosmosDs(ds)} :
        \A n \in DOMAIN ds.assets : OnDisk(ds.assets[n]) \in Files

(* prepareCosmwasmJobs: a wrapper for each, of the messages its ABI has.   *)
CosmwasmJobs(datasources) == AssetNames(datasources)

EndCosmwasm(how) == job' = "idle" /\ ended' = [ended EXCEPT !.cosmwasm = how]

(* A missing asset throws at once.                                         *)
GenerateCosmwasm(datasources) ==
    /\ job = "idle"
    /\ args' = [args EXCEPT !.datasources = datasources]
    /\ IF AssetsExist(datasources)
       THEN /\ job' = IF AssetNames(datasources) = {} THEN "keep" ELSE "dirs"
            /\ UNCHANGED ended
       ELSE EndCosmwasm("rejected")
    /\ UNCHANGED <<tmp, tmpPath, out, cause>>

(* Without assets: prepareDirPath(..., false) of the interfaces, nothing   *)
(* else.                                                                   *)
KeepDir(ok) ==
    /\ job = "keep"
    /\ EndCosmwasm(IF ok THEN "resolved" ELSE "rejected")
    /\ UNCHANGED <<args, tmp, tmpPath, out, cause>>

(* Faulty variant: only the directory of interfaces is emptied.            *)
PrepareDirsOne(done) ==
    /\ job = "dirs"
    /\ out' = IF "cosmwasm" \in done THEN [out EXCEPT !.cosmwasm = {}] ELSE out
    /\ IF "cosmwasm" \in done THEN job' = "interfaces" /\ UNCHANGED ended
                              ELSE EndCosmwasm("rejected")
    /\ UNCHANGED <<args, tmp, tmpPath, cause>>

(* Promise.all over both directories, of which either may fail.            *)
PrepareDirs(done) ==
    /\ job = "dirs"
    /\ out' = [k \in DOMAIN out |-> IF k \in done THEN {} ELSE out[k]]
    /\ IF done = {"cosmwasm", "wrappers"} THEN job' = "interfaces" /\ UNCHANGED ended
                                          ELSE EndCosmwasm("rejected")
    /\ UNCHANGED <<args, tmp, tmpPath, cause>>

(* cosmwasmCodegen; what it throws is printed, and the call resolves.      *)
GenerateInterfaces(ok) ==
    /\ job = "interfaces"
    /\ IF ok
       THEN /\ out' = [out EXCEPT !.cosmwasm = AssetNames(args.datasources)]
            /\ job' = "wrap" /\ UNCHANGED ended
       ELSE EndCosmwasm("printed") /\ UNCHANGED out
    /\ UNCHANGED <<args, tmp, tmpPath, cause>>

(* The wrappers are written in parallel; where one fails, so is that.      *)
RenderWrappers(some) ==
    /\ job = "wrap"
    /\ out' = [out EXCEPT !.wrappers = @ \cup some]
    /\ EndCosmwasm(IF some = CosmwasmJobs(args.datasources) THEN "resolved" ELSE "printed")
    /\ UNCHANGED <<args, tmp, tmpPath, cause>>

CodegenStep ==
    \/ CopyProtos \/ PrepareRenderProps \/ PrepareProtoDir \/ Telescope \/ RenderTypes
    \/ \E e \in Errors : GenerateProtoThrows(e)
    \/ \E ok \in BOOLEAN : KeepDir(ok) \/ GenerateInterfaces(ok)
    \/ \E done \in SUBSET {"cosmwasm", "wrappers"} : PrepareDirs(done)
    \/ \E some \in SUBSET CosmwasmJobs(args.datasources) : RenderWrappers(some)

-----------------------------------------------------------------------------
(* However generateProto ends, a temporary directory it was given does not *)
(* stay behind: one that stays is one tempProtoDir failed to fill, and     *)
(* then the TypeError of rmSync is what the caller gets.                   *)
TempDirRemoved ==
    /\ tmp.exists /\ job = "idle" => tmp.protos = {} /\ ended.proto = "TypeError"
    /\ job \in {"props", "directory", "telescope", "render"} => tmp.exists /\ tmpPath

(* A run of generateProto that failed tells why, unless rmSync threw over  *)
(* it: it never looks like a success.                                      *)
CauseTold ==
    job \notin {"copy", "props", "directory", "telescope", "render"} /\ cause # "none" =>
        ended.proto \in {cause, "TypeError"}

(* Generated code can be compiled, also after runs on other manifests and  *)
(* runs that failed half way.  After generateProto resolved, what the      *)
(* message types import from a file spelled ./proto/... without further    *)
(* dots is a module that was generated.  After generateCosmwasm ran on     *)
(* assets and did not reject, every wrapper is of one of these assets and  *)
(* imports an interface that is there.  (Without assets it promises        *)
(* nothing: it leaves what it finds.)                                      *)
ImportsResolve ==
    job = "idle" =>
        /\ ended.proto = "resolved" => \A t \in out.types :
              t.file.at = "./proto" /\ Slashed(t.file.name) = t.file.name =>
                  t.path \in out.interfaces
        /\ ended.cosmwasm \in {"resolved", "printed"} /\ AssetNames(args.datasources) # {} =>
              out.wrappers \subseteq out.cosmwasm \cap AssetNames(args.datasources)

(* The same of every file that isProtoPath takes to be under ./proto, the  *)
(* spelling proto/... included, to which codegen "will apply".             *)
ProtoImportsResolve ==
    job = "idle" /\ ended.proto = "resolved" =>
        \A t \in out.types : IsProtoPath(t.file) => t.path \in out.interfaces

=============================================================================
