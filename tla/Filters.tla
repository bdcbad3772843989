------------------------------ MODULE Filters -------------------------------
(***************************************************************************)
(* The handler filters of packages/node/src/utils/cosmos.ts, with the      *)
(* JavaScript they rely on: a property read on undefined throws, a loop    *)
(* over the wanted values stops at the first that differs, the message is  *)
(* decoded on the first read of decodedMsg only.                           *)
(*                                                                         *)
(* A verdict is "true", "false" or "throw".                                *)
(*                                                                         *)
(* A message is [code, typeUrl, decodable, leaves]: the code of its        *)
(* transaction's result and, for a body the registry can decode, the       *)
(* scalars of the decoded message by path.  Nested messages and arrays     *)
(* are the inner nodes of the tree those paths span.                       *)
(***************************************************************************)
EXTENDS Integers, Sequences, SequencesExt, FiniteSets

(* JavaScript values: scalars, Long of the long package, undefined.        *)
Str(v) == [t |-> "string", v |-> v]
Num(v) == [t |-> "number", v |-> v]
Long(v) == [t |-> "long", v |-> v]
Undefined == [t |-> "undefined"]
Thrown == [t |-> "throw"]

(* An object of the decoded message, named by the path that leads to it.   *)
Obj(path) == [t |-> "object", path |-> path]

ExecuteContract == "/cosmwasm.wasm.v1.MsgExecuteContract"

(* An absent optional field: no filter, no messageFilter, no contractCall. *)
NoFilter == [type |-> "", includeFailedTx |-> FALSE, values |-> <<>>,
             contractCall |-> ""]
NoEventFilter == [type |-> "", messageFilter |-> NoFilter, attributes |-> {}]

(* What the registry decodes a body to: scalars, none of which lies below  *)
(* another, the body itself being no scalar.                               *)
IsMessage(m) ==
    /\ m.decodable \in BOOLEAN
    /\ DOMAIN m.leaves \subseteq Seq(STRING) \ {<<>>}
    /\ \A p \in DOMAIN m.leaves :
          /\ m.leaves[p].t \notin {"object", "undefined", "throw"}
          /\ \A q \in DOMAIN m.leaves : ~IsStrictPrefix(p, q)

(* A condition of filter.values: split gives at least one step, and what   *)
(* is written in a manifest is never a Long.                               *)
IsValue(w) ==
    /\ w.path \in Seq(STRING) \ {<<>>}
    /\ w.wanted.t \notin {"long", "object", "undefined", "throw"}
    /\ w.wanted = [t |-> w.wanted.t, v |-> w.wanted.v]

IsFilter(f) ==
    /\ f.includeFailedTx \in BOOLEAN
    /\ f.values \in Seq(ToSet(f.values))
    /\ \A w \in ToSet(f.values) : IsValue(w)

IsEvent(e) == e.msg = <<>> \/ (Len(e.msg) = 1 /\ IsMessage(e.msg[1]))

-----------------------------------------------------------------------------
(* filterBlock: a filter without modulo, or with modulo 0, keeps all.      *)
NoModulo == -1
FilterBlock(height, modulo) ==
    modulo \in {NoModulo, 0} \/ height % modulo = 0

FilterTx(code, includeFailedTx) == includeFailedTx \/ code = 0

-----------------------------------------------------------------------------
(* The decoded message as JavaScript sees it.                              *)

Node(m, path) ==
    IF path \in DOMAIN m.leaves THEN m.leaves[path]
    ELSE IF \E p \in DOMAIN m.leaves : IsStrictPrefix(path, p) THEN Obj(path)
    ELSE Undefined

(* data.msg.decodedMsg: api.decodeMsg throws for a type the registry lacks.*)
DecodedMsg(m) == IF m.decodable THEN Obj(<<>>) ELSE Thrown

(* acc[curr]                                                               *)
Prop(m, acc, curr) ==
    IF acc.t \in {"undefined", "throw"} THEN Thrown
    ELSE IF acc.t = "object" THEN Node(m, Append(acc.path, curr))
    ELSE Undefined

(* key.split('.').reduce((acc, curr) => acc[curr], data.msg.decodedMsg):   *)
(* acc after each number of steps.                                         *)
Reduce(m, path) ==
    LET acc[n \in 0..Len(path)] ==
            IF n = 0 THEN DecodedMsg(m) ELSE Prop(m, acc[n - 1], path[n])
    IN  acc

ValueAt(m, path) == Reduce(m, path)[Len(path)]

(* A Long is compared as the kind of scalar the filter asks for.           *)
Stringify(value, wanted) ==
    IF value.t # "long" THEN value
    ELSE IF wanted.t = "number" THEN Num(value.v)
    ELSE Str(value.v)

ValueVerdict(m, w) ==
    LET value == ValueAt(m, w.path)
    IN  IF value = Thrown THEN "throw"
        ELSE IF Stringify(value, w.wanted) = w.wanted THEN "true"
        ELSE "false"

(* A loop that goes on while the verdict is v: the first other one decides.*)
FirstOther(v, verdicts) ==
    LET n == SelectInSeq(verdicts, LAMBDA w : w # v)
    IN  IF n = 0 THEN v ELSE verdicts[n]

(* for (const key in filter.values): the first that is not equal decides.  *)
ValuesVerdict(m, values) ==
    FirstOther("true", [i \in 1..Len(values) |-> ValueVerdict(m, values[i])])

(* filter.contractCall is the message itself or a key of it.               *)
ContractCallVerdict(m, f) ==
    IF f.type # ExecuteContract \/ f.contractCall = "" THEN "true"
    ELSE IF ~m.decodable THEN "throw"
    ELSE LET msg == Node(m, <<"msg">>)
         IN  IF \/ msg = Str(f.contractCall)
                \/ msg.t = "object" /\ Node(m, <<"msg", f.contractCall>>) # Undefined
             THEN "true"
             ELSE "false"

(* Faulty variant: the type checked last, so that every message of an      *)
(* accepted transaction is decoded.                                        *)
FilterMessageDataDecodesFirst(m, f) ==
    IF f = NoFilter THEN "true"
    ELSE IF ~FilterTx(m.code, f.includeFailedTx) THEN "false"
    ELSE LET values == ValuesVerdict(m, f.values)
         IN  IF values # "true" THEN values
             ELSE IF f.type # m.typeUrl THEN "false"
             ELSE ContractCallVerdict(m, f)

FilterMessageData(m, f) ==
    IF f = NoFilter THEN "true"
    ELSE IF ~FilterTx(m.code, f.includeFailedTx) THEN "false"
    ELSE IF f.type # m.typeUrl THEN "false"
    ELSE LET values == ValuesVerdict(m, f.values)
         IN  IF values # "true" THEN values ELSE ContractCallVerdict(m, f)

(* filters.find(...): a filter after the first match is not evaluated, one *)
(* before it that throws ends the search.                                  *)
FirstMatch(verdicts) == FirstOther("false", verdicts)

(* filterMessages([message], filters): no filter keeps the message.        *)
FilterMessages(m, fs) ==
    IF fs = <<>> THEN "true"
    ELSE FirstMatch([i \in 1..Len(fs) |-> FilterMessageData(m, fs[i])])

-----------------------------------------------------------------------------
AttributesMatch(e, f) == f.attributes \subseteq e.attributes

(* Faulty variant: an event without message passes any messageFilter.      *)
EventMsgVerdictLenient(e, f) ==
    IF f.messageFilter = NoFilter \/ e.msg = <<>> THEN "true"
    ELSE FilterMessageData(e.msg[1], f.messageFilter)

(* filter.messageFilter: an event without message never passes it.         *)
EventMsgVerdict(e, f) ==
    IF f.messageFilter = NoFilter THEN "true"
    ELSE IF e.msg = <<>> THEN "false"
    ELSE FilterMessageData(e.msg[1], f.messageFilter)

FilterEvent(e, f) ==
    IF f = NoEventFilter THEN "true"
    ELSE IF f.type # e.type THEN "false"
    ELSE LET msg == EventMsgVerdict(e, f)
         IN  IF msg # "true" THEN msg
             ELSE IF AttributesMatch(e, f) THEN "true" ELSE "false"

FilterEvents(e, fs) ==
    IF fs = <<>> THEN "true"
    ELSE FirstMatch([i \in 1..Len(fs) |-> FilterEvent(e, fs[i])])

-----------------------------------------------------------------------------
(* Reference: what a filter asks for, as a conjunction over the scalars of *)
(* the message.                                                            *)

SameScalar(leaf, wanted) ==
    \/ leaf = wanted
    \/ leaf.t = "long" /\ wanted.t \in {"string", "number"} /\ leaf.v = wanted.v

HasValue(m, w) ==
    w.path \in DOMAIN m.leaves /\ SameScalar(m.leaves[w.path], w.wanted)

Calls(m, call) ==
    \E p \in DOMAIN m.leaves :
        \/ p = <<"msg">> /\ m.leaves[p] = Str(call)
        \/ IsPrefix(<<"msg", call>>, p)

MessageWanted(m, f) ==
    f # NoFilter =>
        /\ m.code = 0 \/ f.includeFailedTx
        /\ m.typeUrl = f.type
        /\ f.values # <<>> => m.decodable
        /\ \A w \in ToSet(f.values) : HasValue(m, w)
        /\ f.contractCall # "" /\ f.type = ExecuteContract
              => m.decodable /\ Calls(m, f.contractCall)

EventWanted(e, f) ==
    f # NoEventFilter =>
        /\ e.type = f.type
        /\ f.messageFilter # NoFilter =>
              e.msg # <<>> /\ MessageWanted(e.msg[1], f.messageFilter)
        /\ \A a \in f.attributes : a \in e.attributes

Wanted(s, f) ==
    IF s.kind = "message" THEN MessageWanted(s.data, f) ELSE EventWanted(s.data, f)

(* The path leaves the tree before its last step: the read of a property   *)
(* of undefined.                                                           *)
Strays(m, path) ==
    \E n \in 1..(Len(path) - 1) : Node(m, SubSeq(path, 1, n)) = Undefined

(* A filter may throw on m only for reasons that lie in the body of a      *)
(* message it got as far as decoding.                                      *)
MayThrow(m, f) ==
    /\ f # NoFilter /\ f.type = m.typeUrl
    /\ m.code = 0 \/ f.includeFailedTx
    /\ ~m.decodable \/ \E w \in ToSet(f.values) : Strays(m, w.path)

=============================================================================
