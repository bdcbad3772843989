--------------------------- MODULE IndexingProofs ---------------------------
(***************************************************************************)
(* Proofs about HandlerContext and Indexing, the composition it is part    *)
(* of: the surroundings of a handler are those of its block, dynamic data  *)
(* sources are their own and survive a restart, and no fork is reported,   *)
(* for any number of threads, blocks, templates and heights the endpoints  *)
(* may report.                                                             *)
(***************************************************************************)
EXTENDS Indexing, DataLemmas

(* The parameters handlers may give, and what getDatasource makes of them. *)
ParamSet == [templateName : Names, args : Args, startBlock : Nat]
Made(p) == [params |-> p, ds |-> Datasource(Templates[p.templateName], p)]
MadeSet == {Made(p) : p \in ParamSet}
DsSet == {StaticDs[i] : i \in DOMAIN StaticDs} \cup {m.ds : m \in MadeSet}

(* Everything created, pending or listed is what getDatasource makes of    *)
(* its own parameters; the templates are those of the project.             *)
DsInv ==
    /\ templates = Templates
    /\ creating \subseteq MadeSet
    /\ dynamic \in Seq(MadeSet)
    /\ stored \in Seq(ParamSet)
    /\ dss \in Seq(DsSet)
    /\ Len(dynamic) <= MaxDynamic
    /\ Len(stored) <= MaxDynamic

(* The API of a block that is being indexed is that of its height, and so  *)
(* is the one in the sandbox of the handler that runs.                     *)
ApiInv ==
    /\ up \in BOOLEAN
    /\ height \in 1..(MaxHeight + 1)
    /\ thread \in Threads \cup {NoThread}
    /\ thread # NoThread => height <= MaxHeight
    /\ thread = NoThread => running = 0
    /\ apiAt \in 0..MaxHeight
    /\ sandbox \in [Threads -> [Entries -> 0..MaxHeight]]
    /\ running \in 0..Len(dss)
    /\ Indexing /\ apiAt # 0 => apiAt = height
    /\ HandlerSeesItsBlock

ContextInv == DsInv /\ ApiInv

(* What is stored is the list up to the last finished block, and what was  *)
(* created since is of the block under way.                                *)
StoredInv ==
    /\ Len(stored) <= Len(dynamic)
    /\ \A i \in 1..Len(stored) :
          stored[i] = dynamic[i].params /\ dynamic[i].params.startBlock < height
    /\ \A i \in 1..Len(dynamic) : i > Len(stored) => dynamic[i].params.startBlock = height
    /\ \A c \in creating : c.params.startBlock = height
    /\ running = 0 => creating = {}

-----------------------------------------------------------------------------
(* getDatasource keeps kind and mapping file of the template, sets         *)
(* startBlock and puts the arguments over the options: dynamic-ds.service. *)
LEMMA DatasourceIsOwn ==
    ASSUME NEW p \in ParamSet
    PROVE  /\ Own(Made(p).ds, Made(p).params)
           /\ Made(p).ds.entry \in Entries
           /\ Made(p).params \in ParamSet
<1> DEFINE template == Templates[p.templateName]
           ds == Datasource(template, p)
<1>1. p.templateName \in Names
  BY DEF ParamSet
<1>2. IsDs(template)
  BY <1>1, ContextAssumption
<1>3. /\ ds.kind = template.kind
      /\ ds.entry = template.entry
      /\ ds.startBlock = p.startBlock
      /\ ds.options = IF template.kind = "custom"
                      THEN Merge(template.options, p.args)
                      ELSE template.options
  BY <1>2 DEF Datasource, IsDs
<1>4. Own(ds, p)
  <2>1. CASE template.kind = "custom"
    BY <1>3, <2>1 DEF Own, Merge
  <2>2. CASE template.kind # "custom"
    <3>1. DOMAIN <<>> = {}
      OBVIOUS
    <3>2. ds.options = template.options
      BY <1>3, <2>2
    <3> QED
      BY <1>3, <2>2, <3>1, <3>2 DEF Own
  <2> QED
    BY <2>1, <2>2
<1> QED
  BY <1>2, <1>3, <1>4 DEF Made, IsDs

(* Every data source has a mapping file of the project.                    *)
LEMMA EntryOfDs ==
    ASSUME NEW d \in DsSet
    PROVE  d.entry \in Entries
<1>1. CASE d \in {StaticDs[i] : i \in DOMAIN StaticDs}
  BY <1>1, ContextAssumption DEF IsDs
<1>2. CASE d \in {m.ds : m \in MadeSet}
  BY <1>2, DatasourceIsOwn DEF MadeSet
<1> QED
  BY <1>1, <1>2 DEF DsSet

-----------------------------------------------------------------------------
LEMMA InitContextInv ==
    ContextInit => ContextInv
BY ContextAssumption
   DEF ContextInit, ContextInv, DsInv, ApiInv, NoSandboxes, Indexing,
       HandlerSeesItsBlock

LEMMA StepDsInv ==
    ASSUME ContextInv, [ContextNext]_contextVars
    PROVE  DsInv'
<1> USE DEF ContextInv, DsInv
<1>1. ASSUME NEW t \in Threads, IndexBlock(t)
      PROVE  DsInv'
  <2>1. DynamicDs \in Seq(DsSet)
    BY DEF DynamicDs, DsSet
  <2>2. StaticDs \in Seq(DsSet)
    BY ContextAssumption DEF DsSet
  <2>3. StaticDs \o DynamicDs \in Seq(DsSet)
    BY <2>1, <2>2
  <2> QED
    BY <1>1, <2>3 DEF IndexBlock
<1>2. CASE GetApi
  BY <1>2 DEF GetApi
<1>3. ASSUME NEW i \in 1..Len(dss), RunHandler(i)
      PROVE  DsInv'
  BY <1>3 DEF RunHandler
<1>4. ASSUME NEW name \in Names, NEW args \in Args, Create(name, args)
      PROVE  DsInv'
  <2> DEFINE p == Params(name, args, height)
  <2>1. p \in ParamSet
    BY DEF ApiInv, Params, ParamSet
  <2>2. p.templateName = name
    BY DEF Params
  <2>3. [params |-> p, ds |-> Datasource(templates[name], p)] = Made(p)
    BY <2>2 DEF Made
  <2>4. creating' \subseteq MadeSet
    BY <1>4, <2>1, <2>3 DEF Create, MadeSet
  <2> QED
    BY <1>4, <2>4 DEF Create, CloneDeep
<1>5. ASSUME NEW c \in creating, Created(c)
      PROVE  DsInv'
  <2>1. c \in MadeSet /\ c.ds \in DsSet
    BY DEF DsSet
  <2> QED
    BY <1>5, <2>1, ContextAssumption DEF Created
<1>6. ASSUME NEW c \in creating, CreateThrows(c)
      PROVE  DsInv'
  BY <1>6 DEF CreateThrows
<1>7. CASE HandlerReturns
  BY <1>7 DEF HandlerReturns
<1>8. CASE FinishBlock
  <2>1. \A m \in MadeSet : m.params \in ParamSet
    BY DatasourceIsOwn DEF MadeSet
  <2>2. stored' \in Seq(ParamSet) /\ Len(stored') = Len(dynamic)
    BY <1>8, <2>1 DEF FinishBlock
  <2> QED
    BY <1>8, <2>2 DEF FinishBlock
<1>9. CASE Crash
  BY <1>9 DEF Crash
<1>10. CASE Restart
  <2>1. Reload \in Seq(MadeSet) /\ Len(Reload) = Len(stored)
    BY DEF Reload, MadeSet, Made
  <2> QED
    BY <1>10, <2>1 DEF Restart
<1>11. CASE UNCHANGED contextVars
  BY <1>11 DEF contextVars
<1> QED
  BY <1>1, <1>2, <1>3, <1>4, <1>5, <1>6, <1>7, <1>8, <1>9, <1>10, <1>11
     DEF ContextNext, HandleBlock

LEMMA StepApiInv ==
    ASSUME ContextInv, [ContextNext]_contextVars
    PROVE  ApiInv'
<1> USE ContextAssumption DEF ContextInv, ApiInv, HandlerSeesItsBlock, Indexing
<1>1. ASSUME NEW t \in Threads, IndexBlock(t)
      PROVE  ApiInv'
  <2>1. Len(dss') \in Nat
    BY StepDsInv DEF DsInv
  <2> QED
    BY <1>1, <2>1 DEF IndexBlock
<1>2. CASE GetApi
  BY <1>2 DEF GetApi, SafeApi
<1>3. ASSUME NEW i \in 1..Len(dss), RunHandler(i)
      PROVE  ApiInv'
  <2>1. dss[i].entry \in Entries
    BY EntryOfDs DEF DsInv
  <2> QED
    BY <1>3, <2>1 DEF RunHandler, GetDsProcessor, DsInv
<1>4. ASSUME NEW name \in Names, NEW args \in Args, Create(name, args)
      PROVE  ApiInv'
  BY <1>4 DEF Create
<1>5. ASSUME NEW c \in creating, Created(c)
      PROVE  ApiInv'
  <2>1. c.ds \in DsSet
    BY DEF DsInv, DsSet
  <2>2. /\ Len(dss') = Len(dss) + 1
        /\ \A k \in 1..Len(dss) : dss'[k] = dss[k]
    BY <1>5, <2>1 DEF Created, DsInv
  <2>3. Len(dss) \in Nat
    BY DEF DsInv
  <2> QED
    BY <1>5, <2>2, <2>3 DEF Created
<1>6. ASSUME NEW c \in creating, CreateThrows(c)
      PROVE  ApiInv'
  BY <1>6 DEF CreateThrows
<1>7. CASE HandlerReturns
  BY <1>7 DEF HandlerReturns, DsInv
<1>8. CASE FinishBlock
  BY <1>8 DEF FinishBlock
<1>9. CASE Crash
  BY <1>9 DEF Crash
<1>10. CASE Restart
  BY <1>10 DEF Restart, NoSandboxes
<1>11. CASE UNCHANGED contextVars
  BY <1>11 DEF contextVars
<1> QED
  BY <1>1, <1>2, <1>3, <1>4, <1>5, <1>6, <1>7, <1>8, <1>9, <1>10, <1>11
     DEF ContextNext, HandleBlock

LEMMA ContextInvariant ==
    ContextSpec => []ContextInv
<1>1. ContextInv /\ [ContextNext]_contextVars => ContextInv'
  BY StepDsInv, StepApiInv DEF ContextInv
<1> QED
  BY InitContextInv, <1>1, PTL DEF ContextSpec

-----------------------------------------------------------------------------
(* The state of the sandboxes, of the walk and of the lists of data        *)
(* sources keeps its types.                                                *)
THEOREM ContextTypeCorrect == ContextSpec => []ContextTypeOK
<1>1. ContextInv => ContextTypeOK
  BY DEF ContextInv, DsInv, ApiInv, ContextTypeOK
<1> QED
  BY ContextInvariant, <1>1, PTL

(* SandboxService: whatever the sandbox of a mapping file was used for     *)
(* before, a handler that runs in it finds the API at the height of its    *)
(* own block.                                                              *)
THEOREM ApiIsAtTheBlock == ContextSpec => []HandlerSeesItsBlock
<1>1. ContextInv => HandlerSeesItsBlock
  BY DEF ContextInv, ApiInv
<1> QED
  BY ContextInvariant, <1>1, PTL

(* DynamicDsService: every dynamic data source, created or reloaded, is    *)
(* its template under its own arguments.                                   *)
THEOREM DynamicDsAreTheirOwn == ContextSpec => []ArgsStayApart
<1>1. ContextInv => ArgsStayApart
  <2> SUFFICES ASSUME ContextInv, NEW i \in 1..Len(dynamic)
               PROVE  Own(dynamic[i].ds, dynamic[i].params)
    BY DEF ArgsStayApart
  <2>1. dynamic[i] \in MadeSet
    BY DEF ContextInv, DsInv
  <2> QED
    BY <2>1, DatasourceIsOwn DEF MadeSet
<1> QED
  BY ContextInvariant, <1>1, PTL

LEMMA StepStoredInv ==
    ASSUME ContextInv, StoredInv, [ContextNext]_contextVars
    PROVE  StoredInv'
<1>0. /\ dynamic \in Seq(MadeSet) /\ stored \in Seq(ParamSet)
      /\ Len(dynamic) \in Nat /\ Len(stored) \in Nat /\ height \in Nat
  BY DEF ContextInv, DsInv, ApiInv
<1> USE DEF StoredInv
<1>1. ASSUME NEW t \in Threads, IndexBlock(t)
      PROVE  StoredInv'
  BY <1>1 DEF IndexBlock
<1>2. CASE GetApi
  BY <1>2 DEF GetApi
<1>3. ASSUME NEW i \in 1..Len(dss), RunHandler(i)
      PROVE  StoredInv'
  BY <1>3 DEF RunHandler
<1>4. ASSUME NEW name \in Names, NEW args \in Args, Create(name, args)
      PROVE  StoredInv'
  BY <1>4 DEF Create, Params
<1>5. ASSUME NEW c \in creating, Created(c)
      PROVE  StoredInv'
  <2>1. /\ Len(dynamic') = Len(dynamic) + 1 /\ dynamic'[Len(dynamic) + 1] = c
        /\ \A i \in 1..Len(dynamic) : dynamic'[i] = dynamic[i]
    BY <1>0, <1>5 DEF Created, ContextInv, DsInv
  <2>2. UNCHANGED <<stored, height, running>> /\ creating' \subseteq creating
    BY <1>5 DEF Created
  <2> QED
    BY <1>0, <2>1, <2>2
<1>6. ASSUME NEW c \in creating, CreateThrows(c)
      PROVE  StoredInv'
  BY <1>6 DEF CreateThrows
<1>7. CASE HandlerReturns
  BY <1>7 DEF HandlerReturns
<1>8. CASE FinishBlock
  <2>1. /\ Len(stored') = Len(dynamic)
        /\ \A i \in 1..Len(dynamic) : stored'[i] = dynamic[i].params
        /\ dynamic' = dynamic /\ height' = height + 1 /\ creating' = {}
    BY <1>0, <1>8 DEF FinishBlock
  <2>2. \A i \in 1..Len(dynamic) : dynamic[i].params.startBlock < height'
    <3>1. ASSUME NEW i \in 1..Len(dynamic)
          PROVE  dynamic[i].params.startBlock < height'
      <4>1. dynamic[i] \in MadeSet
        BY <1>0
      <4>2. dynamic[i].params \in ParamSet
        BY <4>1, DatasourceIsOwn DEF MadeSet
      <4>3. dynamic[i].params.startBlock \in Nat
        BY <4>2 DEF ParamSet
      <4>4. CASE i > Len(stored)
        BY <1>0, <2>1, <4>3, <4>4
      <4>5. CASE i <= Len(stored)
        BY <1>0, <2>1, <4>3, <4>5
      <4> QED
        BY <1>0, <4>4, <4>5
    <3> QED
      BY <3>1
  <2> QED
    BY <1>0, <2>1, <2>2
<1>9. CASE Crash
  BY <1>9 DEF Crash
<1>10. CASE Restart
  <2>1. /\ Len(dynamic') = Len(stored) /\ creating' = {}
        /\ \A i \in 1..Len(stored) : dynamic'[i].params = stored[i]
        /\ UNCHANGED <<height, stored>>
    BY <1>0, <1>10 DEF Restart, Reload
  <2> QED
    BY <1>0, <2>1
<1>11. CASE UNCHANGED contextVars
  BY <1>11 DEF contextVars
<1> QED
  BY <1>1, <1>2, <1>3, <1>4, <1>5, <1>6, <1>7, <1>8, <1>9, <1>10, <1>11
     DEF ContextNext, HandleBlock

(* What is reloaded from the parameters of a data source is that data      *)
(* source.                                                                 *)
LEMMA ReloadedIsSame ==
    ASSUME ContextInv, StoredInv, Restart, NEW i \in 1..Len(stored)
    PROVE  dynamic'[i] = dynamic[i]
<1>1. dynamic \in Seq(MadeSet) /\ stored \in Seq(ParamSet) /\ i \in 1..Len(dynamic)
  BY DEF ContextInv, DsInv, StoredInv
<1>2. dynamic'[i] = Made(stored[i])
  BY <1>1 DEF Restart, Reload, Made
<1>3. PICK p \in ParamSet : dynamic[i] = Made(p)
  BY <1>1 DEF MadeSet
<1>4. p = stored[i]
  BY <1>3 DEF StoredInv, Made
<1> QED
  BY <1>2, <1>3, <1>4

(* A restart, wherever the crash came, gives back exactly the data sources *)
(* of the blocks that were finished.                                       *)
THEOREM RestartGivesBackTheSame == ContextSpec => SameAfterRestart
<1>1. ContextInit => StoredInv
  BY DEF ContextInit, StoredInv
<1>2. ContextSpec => []StoredInv
  BY <1>1, StepStoredInv, ContextInvariant, PTL DEF ContextSpec
<1> DEFINE Same ==
      ~up /\ up' =>
         /\ Len(dynamic') <= Len(dynamic)
         /\ \A i \in 1..Len(dynamic) :
               IF dynamic[i].params.startBlock < height
               THEN i <= Len(dynamic') /\ dynamic'[i] = dynamic[i]
               ELSE i > Len(dynamic')
<1>3. ContextInv /\ StoredInv /\ [ContextNext]_contextVars => [Same]_contextVars
  <2> SUFFICES ASSUME ContextInv, StoredInv, [ContextNext]_contextVars, ~up, up'
               PROVE  /\ Len(dynamic') <= Len(dynamic)
                      /\ \A i \in 1..Len(dynamic) :
                            IF dynamic[i].params.startBlock < height
                            THEN i <= Len(dynamic') /\ dynamic'[i] = dynamic[i]
                            ELSE i > Len(dynamic')
    OBVIOUS
  <2>1. Restart
    BY DEF ContextNext, HandleBlock, IndexBlock, GetApi, Indexing, RunHandler, Create, Created,
           CreateThrows, HandlerReturns, FinishBlock, Crash, contextVars
  <2>2. Len(dynamic') = Len(stored) /\ Len(stored) \in Nat /\ Len(dynamic) \in Nat
    BY <2>1 DEF Restart, Reload, ContextInv, DsInv
  <2>3. ASSUME NEW i \in 1..Len(dynamic)
        PROVE  IF dynamic[i].params.startBlock < height
               THEN i <= Len(dynamic') /\ dynamic'[i] = dynamic[i]
               ELSE i > Len(dynamic')
    <3>1. CASE i <= Len(stored)
      BY <2>1, <2>2, <3>1, ReloadedIsSame DEF StoredInv
    <3>2. CASE i > Len(stored)
      <4>1. ~(dynamic[i].params.startBlock < height)
        BY <3>2 DEF StoredInv, ContextInv, ApiInv
      <4> QED
        BY <2>2, <3>2, <4>1
    <3> QED
      BY <2>2, <3>1, <3>2
  <2> QED
    BY <2>2, <2>3 DEF StoredInv
<1> QED
  BY <1>2, <1>3, ContextInvariant, PTL DEF ContextSpec, SameAfterRestart

-----------------------------------------------------------------------------
(* What parseInt gives of a hash is the height it was made from.           *)
LEMMA HashOfHeight ==
    ASSUME NEW h \in -1..MaxHead
    PROVE  GetHeaderForHash(ToString(h)) = CosmosBlockToHeader(h)
<1>1. ParseInt(ToString(h)) = h
  BY HashAssumption DEF ParseInt
<1> QED
  BY <1>1 DEF GetHeaderForHash

(* A finalized header of the chain.                                        *)
FinalizedInv ==
    /\ finalized.blockHeight \in 1..MaxHead
    /\ finalized = CosmosBlockToHeader(finalized.blockHeight)

(* One step back from the header at a height.                              *)
LEMMA ParentOfHeader ==
    ASSUME NEW h \in 1..MaxHead
    PROVE  GetHeaderForHash(CosmosBlockToHeader(h).parentHash) = CosmosBlockToHeader(h - 1)
<1>1. CosmosBlockToHeader(h).parentHash = ToString(h - 1) /\ h - 1 \in -1..MaxHead
  BY HashAssumption DEF CosmosBlockToHeader
<1> QED
  BY <1>1, HashOfHeight

(* Ancestor is the function its definition asks for: one exists.           *)
LEMMA AncestorIs ==
    ASSUME FinalizedInv
    PROVE  Ancestor = [n \in 0..finalized.blockHeight |->
                          IF n = 0 THEN finalized
                          ELSE GetHeaderForHash(Ancestor[n - 1].parentHash)]
<1> DEFINE f == finalized.blockHeight
           g == [n \in 0..f |-> CosmosBlockToHeader(f - n)]
<1>1. f \in 1..MaxHead /\ finalized = CosmosBlockToHeader(f) /\ MaxHead \in Nat
  BY HashAssumption DEF FinalizedInv
<1>2. ASSUME NEW n \in 0..f
      PROVE  CosmosBlockToHeader(f - n) =
                IF n = 0 THEN finalized ELSE GetHeaderForHash(g[n - 1].parentHash)
  <2>1. CASE n = 0
    BY <1>1, <2>1
  <2>2. CASE n # 0
    <3>1. n - 1 \in 0..f /\ f - (n - 1) \in 1..MaxHead /\ (f - (n - 1)) - 1 = f - n
      BY <1>1, <2>2
    <3>2. g[n - 1] = CosmosBlockToHeader(f - (n - 1))
      BY <3>1
    <3> QED
      BY <2>2, <3>1, <3>2, ParentOfHeader
  <2> QED
    BY <2>1, <2>2
<1>3. g = [n \in 0..f |-> IF n = 0 THEN finalized ELSE GetHeaderForHash(g[n - 1].parentHash)]
  BY <1>2
<1>4. \E a : a = [n \in 0..f |-> IF n = 0 THEN finalized ELSE GetHeaderForHash(a[n - 1].parentHash)]
  BY <1>3
<1> QED
  BY <1>4 DEF Ancestor

(* From the finalized header the walk, parent by parent, meets the header  *)
(* of every height below it: by induction, the least step that would not.  *)
LEMMA AncestorsAreHeaders ==
    ASSUME FinalizedInv, NEW n \in 0..finalized.blockHeight
    PROVE  Ancestor[n] = CosmosBlockToHeader(finalized.blockHeight - n)
<1> DEFINE f == finalized.blockHeight
           Strays == {k \in 0..f : Ancestor[k] # CosmosBlockToHeader(f - k)}
<1>1. f \in 1..MaxHead /\ finalized = CosmosBlockToHeader(f) /\ MaxHead \in Nat
  BY HashAssumption DEF FinalizedInv
<1>2. \A k \in 0..f : Ancestor[k] = IF k = 0 THEN finalized
                                    ELSE GetHeaderForHash(Ancestor[k - 1].parentHash)
  BY AncestorIs
<1>3. Strays = {}
  <2> SUFFICES ASSUME Strays # {} PROVE FALSE
    OBVIOUS
  <2>1. PICK k \in Strays : \A j \in Strays : k <= j
    <3>1. Strays \in SUBSET Nat
      BY <1>1
    <3> HIDE DEF Strays
    <3> QED
      BY <3>1, LeastNat
  <2>2. k # 0
    BY <1>1, <1>2, <2>1
  <2>3. k - 1 \in 0..f /\ k - 1 \notin Strays
    BY <1>1, <2>1, <2>2
  <2>4. Ancestor[k - 1] = CosmosBlockToHeader(f - (k - 1))
    BY <2>3
  <2>5. f - (k - 1) \in 1..MaxHead /\ (f - (k - 1)) - 1 = f - k
    BY <1>1, <2>1, <2>2
  <2>6. Ancestor[k] = CosmosBlockToHeader(f - k)
    BY <1>2, <2>1, <2>2, <2>4, <2>5, ParentOfHeader
  <2> QED
    BY <2>1, <2>6
<1> QED
  BY <1>3

(* The headers of indexed blocks, on whichever thread they were made.      *)
HeadersInv ==
    \A u \in unfinalized : u.blockHeight \in Nat /\ u = CosmosBlockToHeader(u.blockHeight)

ForkInv == FinalizedInv /\ HeadersInv /\ forked = FALSE

LEMMA NoFork ==
    ASSUME FinalizedInv, NEW headers,
           \A u \in headers : u.blockHeight \in Nat /\ u = CosmosBlockToHeader(u.blockHeight)
    PROVE  ~HasForked(headers)
<1> SUFFICES ASSUME NEW last \in headers, last.blockHeight <= finalized.blockHeight
             PROVE  Ancestor[finalized.blockHeight - last.blockHeight] = last
  BY DEF HasForked
<1> DEFINE f == finalized.blockHeight
           l == last.blockHeight
<1>1. f \in Nat /\ l \in Nat /\ f - l \in 0..f /\ f - (f - l) = l
  BY HashAssumption DEF FinalizedInv
<1>2. Ancestor[f - l] = CosmosBlockToHeader(f - (f - l))
  BY <1>1, AncestorsAreHeaders
<1> QED
  BY <1>1, <1>2

LEMMA HeaderFields ==
    ASSUME NEW h
    PROVE  CosmosBlockToHeader(h).blockHeight = h
BY DEF CosmosBlockToHeader

LEMMA HeaderIsFinalized ==
    ASSUME NEW h \in 1..MaxHead, finalized' = CosmosBlockToHeader(h)
    PROVE  FinalizedInv'
BY HeaderFields DEF FinalizedInv

(* Indexing a block, polling, a crash and a restart keep it so.            *)
LEMMA ForkInvStep ==
    ASSUME height \in Nat, ForkInv, [IndexingNext]_indexingVars
    PROVE  ForkInv'
<1>1. CASE UNCHANGED unfinalizedVars
  BY <1>1 DEF ForkInv, FinalizedInv, HeadersInv, unfinalizedVars
<1>2. CASE FinishIndexing
  <2>1. PICK header : /\ header = CosmosBlockToHeader(height)
                      /\ ProcessUnfinalizedBlock(header)
    BY <1>2 DEF FinishIndexing, WorkerHeader, BlockToHeader
  <2> DEFINE kept == unfinalized \cup
                     IF header.blockHeight > finalized.blockHeight THEN {header} ELSE {}
  <2>2. \A u \in kept : u.blockHeight \in Nat /\ u = CosmosBlockToHeader(u.blockHeight)
    BY <2>1, HeaderFields DEF ForkInv, HeadersInv
  <2>3. /\ forked' = (forked \/ HasForked(kept))
        /\ unfinalized' \subseteq kept /\ finalized' = finalized
    BY <2>1 DEF ProcessUnfinalizedBlock
  <2>4. ~HasForked(kept)
    BY <2>2, NoFork DEF ForkInv
  <2> HIDE DEF kept
  <2>5. forked' = FALSE
    BY <2>3, <2>4 DEF ForkInv
  <2> QED
    BY <2>2, <2>3, <2>5 DEF ForkInv, HeadersInv, FinalizedInv
<1>3. ASSUME NEW h \in 1..MaxHead, GetFinalizedHeight(h) \/ GetBestHeight(h) \/ UnfinalizedRestart(h)
      PROVE  ForkInv'
  <2>1. finalized' = finalized \/ finalized' = CosmosBlockToHeader(h)
    BY <1>3 DEF GetFinalizedHeight, GetBestHeight, UnfinalizedRestart, GetFinalizedHead
  <2>2. FinalizedInv'
    BY <2>1, HeaderIsFinalized DEF ForkInv, FinalizedInv
  <2> QED
    BY <1>3, <2>2 DEF GetFinalizedHeight, GetBestHeight, UnfinalizedRestart, ForkInv, HeadersInv
<1> QED
  BY <1>1, <1>2, <1>3 DEF IndexingNext, IndexKnownBlock, Poll, indexingVars

-----------------------------------------------------------------------------
(* The composition is an execution of HandlerContext, of which all that    *)
(* was proved of it holds.                                                 *)
LEMMA IndexingHasContext == IndexingSpec => ContextSpec
<1>1. IndexingInit => ContextInit
  BY DEF IndexingInit
<1>2. [IndexingNext]_indexingVars => [ContextNext]_contextVars
  BY DEF IndexingNext, IndexKnownBlock, FinishIndexing, Poll, ContextNext, indexingVars
<1> QED
  BY <1>1, <1>2, PTL DEF IndexingSpec, ContextSpec

(* UnfinalizedBlocks.NoForkReported: what the node stores of a block is    *)
(* what the finalized head leads back to, whichever thread stored it.      *)
THEOREM NoForkIsReported == IndexingSpec => []NoForkReported
<1>1. IndexingInit => ForkInv
  BY HeaderFields
     DEF IndexingInit, UnfinalizedInit, ForkInv, FinalizedInv, HeadersInv, GetFinalizedHead
<1>2. ContextInv => height \in Nat
  BY DEF ContextInv, ApiInv
<1>3. ForkInv => NoForkReported
  BY NoFork DEF ForkInv, HeadersInv, NoForkReported
<1> QED
  BY <1>1, <1>2, <1>3, ForkInvStep, IndexingHasContext, ContextInvariant, PTL DEF IndexingSpec

=============================================================================
