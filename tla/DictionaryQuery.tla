-------------------------- MODULE DictionaryQuery ---------------------------
(***************************************************************************)
(* FetchService.buildDictionaryQueryEntries of packages/node/src/indexer/  *)
(* fetch.service.ts: the handlers of the data sources are turned into the  *)
(* conditions under which a dictionary names a block.  With entries, only  *)
(* the blocks the dictionary names, and those on a modulo of a block       *)
(* handler, are fetched; without entries all are.                          *)
(*                                                                         *)
(* A handler is [custom, kind, filters, query]: kind its base handler kind,*)
(* filters the manifest filter (runtime) or the processor's base filters   *)
(* (custom), query what the processor's dictionaryQuery returns, <<>> or   *)
(* one entry.  A block is [height, txs, messages, events], txs the codes   *)
(* of its transactions.                                                    *)
(***************************************************************************)
EXTENDS Filters

CONSTANTS
    Projects,   \* sequences of handlers, the data sources laid end to end
    Blocks,     \* blocks of the chain
    Indices     \* path steps that index an array: Indices[k] is index k - 1

ASSUME ProjectsAssumption ==
    /\ \A p \in Projects : p \in Seq(ToSet(p))
    /\ Indices \in Seq(ToSet(Indices))

VARIABLES
    project, block,
    at,         \* the handler looked at
    entries,    \* queryEntries
    answer      \* "building", or what was returned: "nothing" or "entries"

queryVars == <<project, block, at, entries, answer>>

NoEntryType == ""

-----------------------------------------------------------------------------
(* lodash setWith(nested, key, value): what stood on the way to key, or    *)
(* below it, is replaced.                                                  *)
SetWith(nested, key, value) ==
    LET kept == {p \in DOMAIN nested : ~IsPrefix(p, key) /\ ~IsPrefix(key, p)}
    IN  [p \in kept \cup {key} |-> IF p = key THEN value ELSE nested[p]]

(* Object.keys(filter.values).map(...): nested after each number of keys.  *)
Nestings(values) ==
    LET nested[n \in 0..Len(values)] ==
            IF n = 0 THEN <<>>
            ELSE SetWith(nested[n - 1], values[n].path, values[n].wanted)
    IN  nested

Nested(values) == Nestings(values)[Len(values)]

MessageFilterToQueryEntry(f) ==
    [entity |-> "messages", type |-> f.type, msgType |-> NoEntryType,
     data |-> Nested(f.values)]

(* The conditions of the message filter, its type under the name msgType.  *)
EventFilterToQueryEntry(f) ==
    [entity |-> "events", type |-> f.type, msgType |-> f.messageFilter.type,
     data |-> Nested(f.messageFilter.values)]

-----------------------------------------------------------------------------
QueryInit ==
    /\ project \in Projects
    /\ block \in Blocks
    /\ at = 1
    /\ entries = {}
    /\ answer = "building"

Handler == project[at]

Building == answer = "building" /\ at <= Len(project)

(* filterList.filter(Boolean)                                              *)
FilterList(h) == {f \in ToSet(h.filters) : f # NoFilter /\ f # NoEventFilter}

HasQuery(h) == h.custom /\ h.query # <<>>

Add(new) ==
    /\ entries' = entries \cup new
    /\ at' = at + 1
    /\ UNCHANGED <<project, block, answer>>

(* processor.dictionaryQuery returned an entry: push it and continue.      *)
TakeCustomQuery ==
    /\ Building /\ HasQuery(Handler)
    /\ Add({Handler.query[1]})

(* Faulty variant: a handler without filter is passed over.                *)
NothingToFilterOnLenient(h) ==
    LET fs == FilterList(h)
    IN  \/ h.kind = "Block" /\ \E f \in fs : f.modulo = NoModulo
        \/ h.kind \in {"Message", "Event"} /\ \E f \in fs : f.type = NoEntryType

(* A handler that wants more than the dictionary can tell apart: return [].*)
NothingToFilterOn(h) ==
    LET fs == FilterList(h)
    IN  \/ fs = {}
        \/ h.kind = "Block" /\ \E f \in fs : f.modulo = NoModulo
        \/ h.kind \in {"Message", "Event"} /\ \E f \in fs : f.type = NoEntryType

ReturnNothing ==
    /\ Building /\ ~HasQuery(Handler)
    /\ NothingToFilterOn(Handler)
    /\ entries' = {}
    /\ answer' = "nothing"
    /\ UNCHANGED <<project, block, at>>

Usable(kind) ==
    /\ Building /\ ~HasQuery(Handler)
    /\ Handler.kind = kind
    /\ ~NothingToFilterOn(Handler)

AddMessageEntries ==
    /\ Usable("Message")
    /\ Add({MessageFilterToQueryEntry(f) : f \in FilterList(Handler)})

AddEventEntries ==
    /\ Usable("Event")
    /\ Add({EventFilterToQueryEntry(f) : f \in FilterList(Handler)})

(* Block handlers with a modulo: getModulos takes care of them.            *)
PassBlockHandler == Usable("Block") /\ Add({})

(* The default case of the switch, which is where Transaction ends up.     *)
PassTransactionHandler == Usable("Transaction") /\ Add({})

(* return uniqBy(queryEntries, ...)                                        *)
ReturnEntries ==
    /\ answer = "building" /\ at > Len(project)
    /\ answer' = "entries"
    /\ UNCHANGED <<project, block, at, entries>>

QueryNext ==
    \/ TakeCustomQuery
    \/ ReturnNothing
    \/ AddMessageEntries
    \/ AddEventEntries
    \/ PassBlockHandler
    \/ PassTransactionHandler
    \/ ReturnEntries

QuerySpec == QueryInit /\ [][QueryNext]_queryVars

-----------------------------------------------------------------------------
(* External: the blocks a dictionary names.  It stores the scalars of the  *)
(* messages as JSON, a Long as a string, and `contains' is containment of  *)
(* JSON values: of an array regardless of positions, null only in null.    *)

JsonScalar(v) == IF v.t = "long" THEN Str(v.v) ELSE v

IsIndex(step) == step \in ToSet(Indices)

(* Two paths that differ at most in the position within an array.          *)
SamePlace(p, q) ==
    /\ Len(p) = Len(q)
    /\ \A n \in 1..Len(p) : p[n] = q[n] \/ (IsIndex(p[n]) /\ IsIndex(q[n]))

(* setWith leaves a hole, null in JSON, below an index that nothing fills. *)
HasHole(pattern, p) ==
    \E n \in 1..Len(p) : \E k \in 1..Len(Indices) : \E j \in 1..(k - 1) :
        /\ p[n] = Indices[k]
        /\ ~\E q \in DOMAIN pattern :
              IsPrefix(Append(SubSeq(p, 1, n - 1), Indices[j]), q)

JsonContains(m, pattern) ==
    \A p \in DOMAIN pattern :
        /\ ~HasHole(pattern, p)
        /\ \E q \in DOMAIN m.leaves :
              SamePlace(p, q) /\ JsonScalar(m.leaves[q]) = pattern[p]

NamedBy(b, e) ==
    CASE e.entity = "messages" ->
            \E m \in b.messages : m.typeUrl = e.type /\ JsonContains(m, e.data)
      [] e.entity = "events" ->
            \E v \in b.events :
                /\ v.type = e.type
                /\ e.msgType # NoEntryType =>
                      /\ v.msg # <<>>
                      /\ v.msg[1].typeUrl = e.msgType
                      /\ JsonContains(v.msg[1], e.data)

(* getModulos: the block handlers of the runtime data sources.             *)
Modulos ==
    {f.modulo : f \in UNION {ToSet(h.filters) :
        h \in {g \in ToSet(project) : g.kind = "Block" /\ ~g.custom}}}

(* fillNextBlockBuffer of @subql/node-core.                                *)
Fetched(b) ==
    \/ entries = {}
    \/ \E e \in entries : NamedBy(b, e)
    \/ \E n \in Modulos \ {NoModulo, 0} : b.height % n = 0

(* Some item of the block passes the filters of the handler.               *)
Wants(h, b) ==
    LET fs == h.filters IN
    CASE h.kind = "Block" ->
            fs = <<>> \/ \E f \in ToSet(fs) : FilterBlock(b.height, f.modulo)
      [] h.kind = "Transaction" ->
            \E code \in b.txs :
                IF fs = <<>> THEN FilterTx(code, FALSE)
                ELSE FilterTx(code, fs[1].includeFailedTx)
      [] h.kind = "Message" ->
            \E m \in b.messages : FilterMessages(m, fs) = "true"
      [] h.kind = "Event" ->
            \E v \in b.events : FilterEvents(v, fs) = "true"

(* What the dictionary can be asked about: a condition on a string, since  *)
(* a manifest declares values as strings and a Long is stored as one, and  *)
(* no array index beyond the first, which would leave a hole.              *)
Queryable(f) ==
    /\ IsFilter(f)
    /\ \A w \in ToSet(f.values) :
          /\ w.wanted.t = "string"
          /\ \A n \in 1..Len(w.path), k \in 2..Len(Indices) : w.path[n] # Indices[k]

(* A handler the code can build a query for: getModulos sees the block     *)
(* handlers of runtime data sources only.                                  *)
Supported(h) ==
    /\ h.filters \in Seq(ToSet(h.filters))
    /\ FilterList(h) = {} \/ FilterList(h) = ToSet(h.filters)
    /\ h.kind \in {"Block", "Transaction", "Message", "Event"}
    /\ ~HasQuery(h) =>
          \A f \in FilterList(h) :
              CASE h.kind = "Block" -> ~h.custom /\ f.modulo # 0
                [] h.kind = "Message" -> Queryable(f)
                [] h.kind = "Event" -> Queryable(f.messageFilter)
                [] OTHER -> TRUE

FilteredTx(h) == h.kind = "Transaction" /\ ~HasQuery(h) /\ FilterList(h) # {}

(* Handlers that add an entry, beside which a filter on transactions,      *)
(* which adds none, would go unheard.                                      *)
AddsEntries(h) == HasQuery(h) \/ h.kind \in {"Message", "Event"}

SupportedProject(p) ==
    /\ \A h \in ToSet(p) : Supported(h)
    /\ (\E h \in ToSet(p) : FilteredTx(h)) => ~\E h \in ToSet(p) : AddsEntries(h)

IsBlock(b) ==
    /\ \A m \in b.messages : IsMessage(m)
    /\ \A v \in b.events : IsEvent(v)

(* The dictionary loses nothing: a block that is not fetched has nothing   *)
(* that any handler's filter would let through.  The query may name more   *)
(* than the filters keep, never less.                                      *)
NoWantedBlockSkipped ==
    answer # "building" /\ ~Fetched(block) =>
        \A k \in 1..Len(project) :
            ~HasQuery(project[k]) => ~Wants(project[k], block)

=============================================================================
