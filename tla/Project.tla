------------------------------ MODULE Project -------------------------------
(***************************************************************************)
(* A project from its manifest to a running node: code is generated for    *)
(* the manifest, possibly several times and with failures, the manifest is *)
(* edited in between, then the node is started on the manifest or on the   *)
(* deployment made from it.                                                *)
(*                                                                         *)
(* What both read is the manifest and the files of the project: the chain  *)
(* types the handlers get wrappers for (Codegen) have to be those the node *)
(* can decode (Startup).                                                   *)
(***************************************************************************)
EXTENDS Startup, Codegen, Naturals

CONSTANTS
    Edits,      \* bound: the manifests an edit may start from and lead to
    MaxEdits    \* bound on how often the manifest is edited

ASSUME ProjectAssumption ==
    DOMAIN ProtoFiles \subseteq Files /\ Edits \subseteq Manifests /\ MaxEdits \in Nat

VARIABLE edits

projectVars == <<startVars, codegenVars, edits>>

ProjectInit == StartInit /\ CodegenInit /\ edits = 0

(* External: the author changes the manifest.  What was generated for the  *)
(* one before stays.                                                       *)
EditManifest ==
    /\ stage = "none" /\ job = "idle" /\ edits < MaxEdits
    /\ edits' = edits + 1
    /\ written \in Edits /\ written' \in Edits /\ given' = written'
    /\ UNCHANGED <<overrides, nodeVars, codegenVars>>

(* What the manifest hands to the generators.                              *)
Chaintypes ==
    UNION {{n.chaintypes[k] : k \in DOMAIN n.chaintypes} : n \in written.network}
Datasources == {written.dataSources[i] : i \in DOMAIN written.dataSources}

(* The codegen command, external, hands over what the manifest names when  *)
(* validateCosmosManifest accepts it.                                      *)
CodegenCommand ==
    /\ stage = "none" /\ Accepted(written)
    /\ GenerateProto(Chaintypes) \/ GenerateCosmwasm(Datasources) \/ CodegenStep
    /\ UNCHANGED <<startVars, edits>>

StartCommand ==
    /\ job = "idle"
    /\ \E manifest \in {written, Deployment(written)}, options \in Overrides :
          Start(manifest, options)
    /\ UNCHANGED <<codegenVars, edits>>

Node == Bootstrap /\ UNCHANGED <<codegenVars, edits>>

NodeWaits == Silence /\ UNCHANGED <<codegenVars, edits>>

(* The node listens, the process is gone, or it waits for ever.            *)
Done == stage \in {"listening", "exited", "waiting"} /\ UNCHANGED projectVars

ProjectNext ==
    EditManifest \/ CodegenCommand \/ StartCommand \/ Node \/ NodeWaits \/ Done

(* A start goes on as long as what it awaits settles: NodeWaits, where it  *)
(* does not, is no part of the fairness but may happen at any await.       *)
ProjectSpec == ProjectInit /\ [][ProjectNext]_projectVars /\ WF_projectVars(Node)

(* Once the registry is built it decodes every message the manifest names, *)
(* under the package its file declares or, without one, under its key, and *)
(* every message the generated code, if it was generated for these chain   *)
(* types, has a wrapper for.  A message that no file of the manifest       *)
(* defines was fatal, not left out; one defined in another file of the     *)
(* same package is found there.                                            *)
RegistryComplete ==
    registry # {} =>
        /\ WasmTypes \subseteq registry
        /\ \A n \in written.network : \A k \in DOMAIN n.chaintypes :
              LET Proto(j) == ProtoFiles[OnDisk(n.chaintypes[j].file)]
                  package == IF Proto(k).package = "" THEN k ELSE Proto(k).package
              IN  \A msg \in n.chaintypes[k].messages :
                     /\ <<package, msg>> \in registry
                     /\ \E j \in DOMAIN n.chaintypes :
                           Proto(j).package = package /\ msg \in Proto(j).types
        /\ ended.proto = "resolved" /\ args.chaintypes = Chaintypes =>
              \A t \in out.types : \A msg \in t.messages : \E p \in registry : p[2] = msg

=============================================================================
