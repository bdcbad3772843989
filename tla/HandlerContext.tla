--------------------------- MODULE HandlerContext ---------------------------
(***************************************************************************)
(* What a handler finds when it runs: the sandbox that packages/node/src/  *)
(* indexer/sandbox.service.ts keeps per mapping file and prepares anew for *)
(* every call, the API IndexerManager.getApi asks for at the height of the *)
(* block, and the data source, a dynamic one being made from a template of *)
(* the project by packages/node/src/indexer/dynamic-ds.service.ts.         *)
(*                                                                         *)
(* Blocks are indexed one after the other, each on one of several threads  *)
(* (the main thread, or the workers), each thread with sandboxes of its    *)
(* own; the queue that hands them out, the store and the list of dynamic   *)
(* data sources are those of @subql/node-core.  The process may end at any *)
(* time and is started again from what is stored.                          *)
(***************************************************************************)
EXTENDS Integers, Sequences

CONSTANTS
    Threads,    \* threads that index blocks
    MaxHeight,  \* bound on the heights indexed
    Entries,    \* mapping files
    StaticDs,   \* the project's data sources, a sequence
    Templates,  \* the project's templates by name
    Args,       \* arguments handlers give createDynamicDatasource
    MaxDynamic, \* bound on the dynamic data sources
    NoThread

VARIABLES
    up,         \* the process is running
    height,     \* the block indexed now or next
    thread,     \* where it is indexed, NoThread between blocks
    apiAt,      \* height of the API asked for in this block, 0 before
    sandbox,    \* per thread and entry, the height of the API the sandbox
                \* of processorCache has as global, 0 without sandbox
    dss,        \* data sources of this block
    running,    \* position in dss of the one whose handler runs, or 0
    templates,  \* project.templates
    creating,   \* calls of createDynamicDatasource under way
    dynamic,    \* dynamic data sources, each with its parameters
    stored      \* the parameters in the store, as of the last block

contextVars == <<up, height, thread, apiAt, sandbox, dss, running,
                 templates, creating, dynamic, stored>>

Names == DOMAIN Templates
DsKinds == {"custom", "runtime"}

(* options: those of the processor, a function.  The startBlock of a       *)
(* template is none; here 0.                                               *)
IsDs(d) ==
    /\ DOMAIN d = {"kind", "entry", "options", "startBlock"}
    /\ d.kind \in DsKinds /\ d.entry \in Entries

ASSUME ContextAssumption ==
    /\ MaxHeight \in Nat /\ MaxDynamic \in Nat
    /\ NoThread \notin Threads
    /\ StaticDs \in Seq({StaticDs[i] : i \in DOMAIN StaticDs})
    /\ \A i \in DOMAIN StaticDs : IsDs(StaticDs[i])
    /\ \A n \in Names : IsDs(Templates[n])

Params(name, args, startBlock) ==
    [templateName |-> name, args |-> args, startBlock |-> startBlock]

-----------------------------------------------------------------------------
(* Faulty variant: the template's own options win.                         *)
MergeTemplateFirst(options, args) ==
    [k \in DOMAIN options \cup DOMAIN args |->
        IF k \in DOMAIN options THEN options[k] ELSE args[k]]

(* { ...dsObj.processor.options, ...params.args }                          *)
Merge(options, args) ==
    [k \in DOMAIN options \cup DOMAIN args |->
        IF k \in DOMAIN args THEN args[k] ELSE options[k]]

(* getDatasource, from the template it found.                              *)
Datasource(template, p) ==
    [template EXCEPT
        !.startBlock = p.startBlock,
        !.options = IF template.kind = "custom" THEN Merge(@, p.args) ELSE @]

(* Faulty variant: the data source shares its processor with the template. *)
Shared(name, ds) == [templates EXCEPT ![name].options = ds.options]

(* cloneDeep: what is done to the data source is not done to the template. *)
CloneDeep(name, ds) == templates

(* Faulty variant: a sandbox is prepared only when it is made.             *)
GetDsProcessorOnce(entry) ==
    sandbox' = IF sandbox[thread][entry] = 0
               THEN [sandbox EXCEPT ![thread][entry] = apiAt]
               ELSE sandbox

(* getDsProcessor: the cached sandbox of the entry, or a new one; either   *)
(* way its globals are set anew.                                           *)
GetDsProcessor(entry) == sandbox' = [sandbox EXCEPT ![thread][entry] = apiAt]

-----------------------------------------------------------------------------
NoSandboxes == [t \in Threads |-> [e \in Entries |-> 0]]

ContextInit ==
    /\ up = TRUE /\ height = 1 /\ thread = NoThread /\ apiAt = 0
    /\ sandbox = NoSandboxes
    /\ dss = <<>> /\ running = 0
    /\ templates = Templates
    /\ creating = {} /\ dynamic = <<>> /\ stored = <<>>

DynamicDs == [i \in 1..Len(dynamic) |-> dynamic[i].ds]

(* indexBlock(block, await projectService.getDataSources(height)), in the  *)
(* main thread or as processFetchedBlock in a worker.                      *)
IndexBlock(t) ==
    /\ up /\ thread = NoThread /\ height <= MaxHeight
    /\ thread' = t
    /\ apiAt' = 0
    /\ dss' = StaticDs \o DynamicDs
    /\ UNCHANGED <<up, height, sandbox, running, templates, creating, dynamic, stored>>

Indexing == up /\ thread # NoThread

(* Faulty variant: the height after the one asked for.                    *)
SafeApiAtTip(h) == h + 1

(* A CosmosSafeClient, as the height it holds.  Of its queries getBlock,   *)
(* validators and searchTx use it; those it inherits go to the tip.        *)
SafeApi(h) == h

(* getApi(block): asked for once per block, when a handler first needs it. *)
GetApi ==
    /\ Indexing /\ running = 0 /\ apiAt = 0
    /\ apiAt' = SafeApi(height)
    /\ UNCHANGED <<up, height, thread, sandbox, dss, running, templates,
                   creating, dynamic, stored>>

(* An item passed the filter of a handler of dss[i].                       *)
RunHandler(i) ==
    /\ Indexing /\ running = 0 /\ apiAt # 0
    /\ running' = i
    /\ GetDsProcessor(dss[i].entry)
    /\ UNCHANGED <<up, height, thread, apiAt, dss, templates, creating,
                   dynamic, stored>>

(* The handler calls createDynamicDatasource: getDatasource runs up to its *)
(* await of validateCustomDs.                                              *)
Create(name, args) ==
    /\ Indexing /\ running # 0
    /\ Len(dynamic) < MaxDynamic
    /\ LET p == Params(name, args, height)
           ds == Datasource(templates[name], p)
       IN  /\ creating' = creating \cup {[params |-> p, ds |-> ds]}
           /\ templates' = CloneDeep(name, ds)
    /\ UNCHANGED <<up, height, thread, apiAt, sandbox, dss, running, dynamic, stored>>

(* It is validated: listed, and given the rest of this block too.          *)
Created(c) ==
    /\ Indexing /\ Len(dynamic) < MaxDynamic
    /\ creating' = creating \ {c}
    /\ dynamic' = Append(dynamic, c)
    /\ dss' = Append(dss, c.ds)
    /\ UNCHANGED <<up, height, thread, apiAt, sandbox, running, templates, stored>>

(* Unable to create dynamic datasource: the handler is told.  The name of  *)
(* a template that does not exist throws at once and changes nothing.      *)
CreateThrows(c) ==
    /\ Indexing
    /\ creating' = creating \ {c}
    /\ UNCHANGED <<up, height, thread, apiAt, sandbox, dss, running,
                   templates, dynamic, stored>>

(* The handler awaited what it created.                                    *)
HandlerReturns ==
    /\ Indexing /\ running # 0 /\ creating = {}
    /\ running' = 0
    /\ UNCHANGED <<up, height, thread, apiAt, sandbox, dss, templates,
                   creating, dynamic, stored>>

(* External: the block's data and the new data sources are stored.         *)
FinishBlock ==
    /\ Indexing /\ running = 0
    /\ thread' = NoThread
    /\ height' = height + 1
    /\ stored' = [i \in 1..Len(dynamic) |-> dynamic[i].params]
    /\ UNCHANGED <<up, apiAt, sandbox, dss, running, templates, creating, dynamic>>

(* A handler threw, no endpoint is left, or the process was stopped.       *)
Crash ==
    /\ up
    /\ up' = FALSE
    /\ UNCHANGED <<height, thread, apiAt, sandbox, dss, running, templates,
                   creating, dynamic, stored>>

(* getDatasource for every entry stored, in order.                         *)
Reload == [i \in 1..Len(stored) |->
    [params |-> stored[i],
     ds |-> Datasource(Templates[stored[i].templateName], stored[i])]]

Restart ==
    /\ ~up
    /\ up' = TRUE
    /\ thread' = NoThread /\ apiAt' = 0 /\ sandbox' = NoSandboxes
    /\ dss' = <<>> /\ running' = 0 /\ templates' = Templates /\ creating' = {}
    /\ dynamic' = Reload
    /\ UNCHANGED <<height, stored>>

HandleBlock ==
    \/ GetApi
    \/ \E i \in 1..Len(dss) : RunHandler(i)
    \/ \E name \in Names : \E args \in Args : Create(name, args)
    \/ \E c \in creating : Created(c) \/ CreateThrows(c)
    \/ HandlerReturns

ContextNext ==
    \/ \E t \in Threads : IndexBlock(t)
    \/ HandleBlock
    \/ FinishBlock
    \/ Crash
    \/ Restart

ContextSpec == ContextInit /\ [][ContextNext]_contextVars

-----------------------------------------------------------------------------
ContextTypeOK ==
    /\ up \in BOOLEAN
    /\ height \in 1..(MaxHeight + 1)
    /\ thread \in Threads \cup {NoThread}
    /\ apiAt \in 0..MaxHeight
    /\ sandbox \in [Threads -> [Entries -> 0..MaxHeight]]
    /\ running \in 0..Len(dss)
    /\ Len(dynamic) <= MaxDynamic /\ Len(stored) <= MaxDynamic

(* The safe client a handler finds is that of the block it is given: the   *)
(* sandbox it runs in, shared with other data sources and used for other   *)
(* blocks before, has the API of this block and of no earlier one, so that *)
(* the queries the client binds to a height are at this one.               *)
HandlerSeesItsBlock ==
    Indexing /\ running # 0 => sandbox[thread][dss[running].entry] = height

Own(ds, p) ==
    LET template == Templates[p.templateName]
        args == IF template.kind = "custom" THEN p.args ELSE <<>>
    IN  /\ ds.kind = template.kind /\ ds.entry = template.entry
        /\ ds.startBlock = p.startBlock
        /\ DOMAIN ds.options = DOMAIN template.options \cup DOMAIN args
        /\ \A k \in DOMAIN ds.options :
              ds.options[k] = IF k \in DOMAIN args THEN args[k]
                              ELSE template.options[k]

(* A dynamic data source has the template's options under its own          *)
(* arguments and nothing of another's, however many are made from the same *)
(* template, at once or one after the other.                               *)
ArgsStayApart == \A i \in 1..Len(dynamic) : Own(dynamic[i].ds, dynamic[i].params)

(* A restart gives back the data sources of the blocks that were finished, *)
(* each as it was, and none of the block that was not.                     *)
SameAfterRestart ==
    [][~up /\ up' =>
         /\ Len(dynamic') <= Len(dynamic)
         /\ \A i \in 1..Len(dynamic) :
               IF dynamic[i].params.startBlock < height
               THEN i <= Len(dynamic') /\ dynamic'[i] = dynamic[i]
               ELSE i > Len(dynamic')]_contextVars

=============================================================================
