---------------------------- MODULE FilterProofs ----------------------------
(***************************************************************************)
(* Proofs about the filters: what the loops, the walk along a path and the *)
(* conversions compute is what a filter asks for, for messages of any      *)
(* shape and filters of any length; and a query for the dictionary built   *)
(* from such filters names every block they let something of pass.         *)
(***************************************************************************)
EXTENDS HandlerFilters, DictionaryQuery, DataLemmas

Verdicts == {"true", "false", "throw"}

-----------------------------------------------------------------------------
(* A loop that goes on while the verdict is v gives v only if all are, and *)
(* else one of the others.                                                 *)
LEMMA FirstOtherIs ==
    ASSUME NEW v, NEW vs \in Seq(Verdicts)
    PROVE  \/ FirstOther(v, vs) = v /\ \A i \in 1..Len(vs) : vs[i] = v
           \/ FirstOther(v, vs) # v /\ \E i \in 1..Len(vs) : FirstOther(v, vs) = vs[i]
<1> DEFINE n == Len(vs)
           I == {i \in 1..n : vs[i] # v}
<1>1. SelectInSeq(vs, LAMBDA w : w # v) = IF I # {} THEN Min(I) ELSE 0
  BY DEF SelectInSeq
<1>2. CASE I = {}
  BY <1>1, <1>2 DEF FirstOther
<1>3. CASE I # {}
  <2>1. PICK x \in I : \A y \in I : x <= y
    <3>1. I \in SUBSET Nat
      OBVIOUS
    <3> HIDE DEF I
    <3> QED
      BY <1>3, <3>1, LeastNat
  <2>2. Min(I) \in I
    BY <2>1 DEF Min
  <2>3. FirstOther(v, vs) = vs[Min(I)] /\ Min(I) \in 1..n /\ vs[Min(I)] # v
    <3> HIDE DEF I
    <3>1. Min(I) \in I /\ SelectInSeq(vs, LAMBDA w : w # v) = Min(I)
      BY <1>1, <1>3, <2>2
    <3>2. Min(I) \in 1..n /\ vs[Min(I)] # v
      BY <3>1 DEF I
    <3> QED
      BY <3>1, <3>2 DEF FirstOther
  <2> QED
    BY <2>3
<1> QED
  BY <1>2, <1>3

-----------------------------------------------------------------------------
(* The path that reads the first n steps.                                  *)
PathTo(path, n) == SubSeq(path, 1, n)

LEMMA PathToFacts ==
    ASSUME NEW path \in Seq(STRING), NEW n \in 1..Len(path)
    PROVE  /\ PathTo(path, n) \in Seq(STRING) /\ Len(PathTo(path, n)) = n
           /\ n > 1 => Append(PathTo(path, n - 1), path[n]) = PathTo(path, n)
           /\ PathTo(path, Len(path)) = path
           /\ PathTo(path, 1) = <<path[1]>>
           /\ path[n] \in STRING
<1>1. PathTo(path, n) \in Seq(STRING) /\ Len(PathTo(path, n)) = n /\ path[n] \in STRING
  BY DEF PathTo
<1>2. PathTo(path, n) = [i \in 1..n |-> path[i]]
  BY DEF PathTo
<1>3. ASSUME n > 1
      PROVE  Append(PathTo(path, n - 1), path[n]) = PathTo(path, n)
  <2>1. PathTo(path, n - 1) \in Seq(STRING) /\ Len(PathTo(path, n - 1)) = n - 1
    BY <1>3 DEF PathTo
  <2>2. \A i \in 1..(n - 1) : PathTo(path, n - 1)[i] = path[i]
    BY <1>3 DEF PathTo
  <2>3. /\ Append(PathTo(path, n - 1), path[n]) \in Seq(STRING)
        /\ Len(Append(PathTo(path, n - 1), path[n])) = n
        /\ \A i \in 1..n : Append(PathTo(path, n - 1), path[n])[i] = path[i]
    BY <1>1, <2>1, <2>2
  <2> QED
    BY <1>1, <1>2, <2>3
<1>4. PathTo(path, Len(path)) = path
  BY DEF PathTo
<1>5. PathTo(path, 1) = <<path[1]>>
  <2>1. PathTo(path, 1) = [i \in 1..1 |-> path[i]]
    BY DEF PathTo
  <2>2. 1..1 = {1}
    OBVIOUS
  <2> QED
    BY <2>1, <2>2
<1> QED
  BY <1>1, <1>3, <1>4, <1>5

(* A prefix in the terms of the steps.                                     *)
LEMMA PathPrefixIs ==
    ASSUME NEW S, NEW s \in Seq(S), NEW t \in Seq(S)
    PROVE  /\ IsPrefix(s, t) <=> Len(s) <= Len(t) /\ \A i \in 1..Len(s) : s[i] = t[i]
           /\ IsStrictPrefix(s, t) <=> Len(s) < Len(t) /\ \A i \in 1..Len(s) : s[i] = t[i]
<1>1. IsPrefix(s, t) <=> Len(s) <= Len(t) /\ \A i \in 1..Len(s) : s[i] = t[i]
  BY PrefixIs
<1>2. Len(s) = Len(t) /\ (\A i \in 1..Len(s) : s[i] = t[i]) => s = t
  OBVIOUS
<1> QED
  BY <1>1, <1>2 DEF IsStrictPrefix

-----------------------------------------------------------------------------
(* What a walk reads after n steps: the body, a node on the way, or, when  *)
(* a node before it is missing, the error of reading below undefined.      *)
Missing(m, path, n) == \E k \in 1..(n - 1) : Node(m, PathTo(path, k)) = Undefined

Reached(m, path, n) ==
    IF ~m.decodable \/ Missing(m, path, n) THEN Thrown
    ELSE IF n = 0 THEN Obj(<<>>)
    ELSE Node(m, PathTo(path, n))

(* A node is a scalar of the message, an object on the way to one, or      *)
(* missing; below a scalar everything is.                                  *)
LEMMA NodeIs ==
    ASSUME NEW m, IsMessage(m), NEW p
    PROVE  \/ p \in DOMAIN m.leaves /\ Node(m, p) = m.leaves[p]
           \/ /\ p \notin DOMAIN m.leaves /\ Node(m, p) = Obj(p)
              /\ \E q \in DOMAIN m.leaves : IsStrictPrefix(p, q)
           \/ /\ p \notin DOMAIN m.leaves /\ Node(m, p) = Undefined
              /\ ~\E q \in DOMAIN m.leaves : IsStrictPrefix(p, q)
  BY DEF Node

LEMMA NodeKinds ==
    ASSUME NEW m, IsMessage(m), NEW p
    PROVE  /\ p \in DOMAIN m.leaves <=> Node(m, p).t \notin {"object", "undefined"}
           /\ Node(m, p).t # "throw" /\ Node(m, p) # Thrown
           /\ Node(m, p) = Undefined <=> Node(m, p).t = "undefined"
           /\ Node(m, p).t = "object" => Node(m, p) = Obj(p)
<1>1. p \in DOMAIN m.leaves => m.leaves[p].t \notin {"object", "undefined", "throw"}
  BY DEF IsMessage
<1>2. /\ Undefined.t = "undefined" /\ Thrown.t = "throw"
      /\ Obj(p).t = "object" /\ Obj(p).path = p
  BY DEF Undefined, Thrown, Obj
<1>3. CASE p \in DOMAIN m.leaves /\ Node(m, p) = m.leaves[p]
  BY <1>1, <1>2, <1>3
<1>4. CASE p \notin DOMAIN m.leaves /\ Node(m, p) = Obj(p)
  BY <1>2, <1>4
<1>5. CASE p \notin DOMAIN m.leaves /\ Node(m, p) = Undefined
  BY <1>2, <1>5
<1> QED
  BY <1>3, <1>4, <1>5, NodeIs

LEMMA NothingBelowScalar ==
    ASSUME NEW m, IsMessage(m), NEW path \in Seq(STRING), NEW n \in 2..Len(path),
           PathTo(path, n - 1) \in DOMAIN m.leaves
    PROVE  Node(m, PathTo(path, n)) = Undefined
<1> DEFINE p == PathTo(path, n - 1)
           q == PathTo(path, n)
<1>1. /\ p \in Seq(STRING) /\ q \in Seq(STRING) /\ Len(p) = n - 1 /\ Len(q) = n
      /\ \A i \in 1..(n - 1) : p[i] = q[i]
  BY DEF PathTo
<1> HIDE DEF p, q
<1>2. IsStrictPrefix(p, q)
  BY <1>1, PathPrefixIs
<1>3. q \notin DOMAIN m.leaves
  BY <1>2 DEF IsMessage, p
<1>4. ASSUME NEW r \in DOMAIN m.leaves, IsStrictPrefix(q, r)
      PROVE  FALSE
  <2>1. r \in Seq(STRING)
    BY DEF IsMessage
  <2>2. Len(q) < Len(r) /\ \A i \in 1..Len(q) : q[i] = r[i]
    BY <1>1, <1>4, <2>1, PathPrefixIs
  <2>3. Len(p) < Len(r) /\ \A i \in 1..Len(p) : p[i] = r[i]
    BY <1>1, <2>1, <2>2
  <2>4. IsStrictPrefix(p, r)
    BY <1>1, <2>1, <2>3, PathPrefixIs
  <2> QED
    BY <2>4 DEF IsMessage, p
<1> QED
  BY <1>1, <1>3, <1>4, NodeIs DEF q

(* One step of the walk goes from what is reached to what is reached next. *)
LEMMA WalkStep ==
    ASSUME NEW m, IsMessage(m), NEW path \in Seq(STRING), NEW n \in 1..Len(path)
    PROVE  Reached(m, path, n) = Prop(m, Reached(m, path, n - 1), path[n])
<1> DEFINE acc == Reached(m, path, n - 1)
<1>1. /\ Thrown.t = "throw" /\ Undefined.t = "undefined"
      /\ \A p : Obj(p).t = "object" /\ Obj(p).path = p
  BY DEF Thrown, Undefined, Obj
<1>2. CASE ~m.decodable \/ Missing(m, path, n - 1)
  <2>1. acc = Thrown /\ Reached(m, path, n) = Thrown
    BY <1>2 DEF Reached, Missing
  <2> QED
    BY <1>1, <2>1 DEF Prop
<1>3. CASE m.decodable /\ ~Missing(m, path, n - 1) /\ n = 1
  <2>1. acc = Obj(<<>>)
    BY <1>3 DEF Reached
  <2>2. Append(<<>>, path[1]) = <<path[1]>> /\ PathTo(path, 1) = <<path[1]>>
    BY <1>3, PathToFacts
  <2>3. Reached(m, path, n) = Node(m, PathTo(path, 1))
    BY <1>3 DEF Reached, Missing
  <2>4. Prop(m, acc, path[n]) = Node(m, Append(<<>>, path[1]))
    BY <1>1, <1>3, <2>1 DEF Prop
  <2> QED
    BY <2>2, <2>3, <2>4
<1>4. CASE m.decodable /\ ~Missing(m, path, n - 1) /\ n # 1
  <2>1. acc = Node(m, PathTo(path, n - 1))
    BY <1>4 DEF Reached
  <2>2. /\ n - 1 \in 1..Len(path) /\ PathTo(path, n - 1) \in Seq(STRING)
        /\ Append(PathTo(path, n - 1), path[n]) = PathTo(path, n)
    BY <1>4, PathToFacts
  <2>3. Missing(m, path, n) <=> acc = Undefined
    BY <1>4, <2>1, <2>2 DEF Missing
  <2>4. CASE acc = Undefined
    BY <1>1, <1>4, <2>3, <2>4 DEF Reached, Prop
  <2>5. CASE acc.t = "object"
    <3>1. acc = Obj(PathTo(path, n - 1)) /\ acc # Undefined
      BY <1>1, <2>1, <2>2, <2>5, NodeKinds
    <3>2. Reached(m, path, n) = Node(m, PathTo(path, n))
      BY <1>4, <2>3, <3>1 DEF Reached
    <3>3. Prop(m, acc, path[n]) = Node(m, Append(PathTo(path, n - 1), path[n]))
      BY <1>1, <3>1 DEF Prop
    <3> QED
      BY <2>2, <3>2, <3>3
  <2>6. CASE acc # Undefined /\ acc.t # "object"
    <3>1. acc.t \notin {"object", "undefined", "throw"} /\ PathTo(path, n - 1) \in DOMAIN m.leaves
      BY <2>1, <2>2, <2>6, NodeKinds
    <3>2. n \in 2..Len(path)
      BY <1>4
    <3>3. Node(m, PathTo(path, n)) = Undefined
      BY <3>1, <3>2, NothingBelowScalar
    <3>4. Reached(m, path, n) = Undefined
      BY <1>4, <2>3, <2>6, <3>3 DEF Reached
    <3>5. Prop(m, acc, path[n]) = Undefined
      BY <3>1 DEF Prop
    <3> QED
      BY <3>4, <3>5
  <2> QED
    BY <2>4, <2>5, <2>6
<1> QED
  BY <1>2, <1>3, <1>4

(* key.split('.').reduce(...) ends at the value the path leads to: by      *)
(* induction, the least number of steps after which it would not.          *)
LEMMA ValueAtIs ==
    ASSUME NEW m, IsMessage(m), NEW path \in Seq(STRING)
    PROVE  ValueAt(m, path) = Reached(m, path, Len(path))
<1> DEFINE g == [n \in 0..Len(path) |-> Reached(m, path, n)]
           r == Reduce(m, path)
           Astray == {n \in 0..Len(path) : r[n] # Reached(m, path, n)}
<1>1. Reached(m, path, 0) = DecodedMsg(m)
  BY DEF Reached, Missing, DecodedMsg
<1>2. g = [n \in 0..Len(path) |-> IF n = 0 THEN DecodedMsg(m) ELSE Prop(m, g[n - 1], path[n])]
  <2>1. ASSUME NEW n \in 0..Len(path)
        PROVE  Reached(m, path, n) =
                 IF n = 0 THEN DecodedMsg(m) ELSE Prop(m, g[n - 1], path[n])
    <3>1. CASE n = 0
      BY <1>1, <3>1
    <3>2. CASE n # 0
      <4>1. n \in 1..Len(path) /\ g[n - 1] = Reached(m, path, n - 1)
        BY <3>2
      <4> QED
        BY <3>2, <4>1, WalkStep
    <3> QED
      BY <3>1, <3>2
  <2> QED
    BY <2>1
<1>3. \E a : a = [n \in 0..Len(path) |-> IF n = 0 THEN DecodedMsg(m) ELSE Prop(m, a[n - 1], path[n])]
  BY <1>2
<1>4. r = [n \in 0..Len(path) |-> IF n = 0 THEN DecodedMsg(m) ELSE Prop(m, r[n - 1], path[n])]
  BY <1>3 DEF Reduce
<1> HIDE DEF r
<1>5. \A n \in 0..Len(path) : r[n] = IF n = 0 THEN DecodedMsg(m) ELSE Prop(m, r[n - 1], path[n])
  BY <1>4
<1>6. Astray = {}
  <2> SUFFICES ASSUME Astray # {} PROVE FALSE
    OBVIOUS
  <2>1. PICK n \in Astray : \A k \in Astray : n <= k
    <3>1. Astray \in SUBSET Nat
      OBVIOUS
    <3> HIDE DEF Astray
    <3> QED
      BY <3>1, LeastNat
  <2>2. n # 0
    BY <1>1, <1>5, <2>1
  <2>3. n - 1 \in 0..Len(path) /\ n - 1 \notin Astray /\ n \in 1..Len(path)
    BY <2>1, <2>2
  <2>4. r[n - 1] = Reached(m, path, n - 1)
    BY <2>3
  <2>5. r[n] = Reached(m, path, n)
    BY <1>5, <2>2, <2>3, <2>4, WalkStep
  <2> QED
    BY <2>1, <2>5
<1>7. r[Len(path)] = Reached(m, path, Len(path))
  BY <1>6
<1> QED
  BY <1>7 DEF ValueAt, r

-----------------------------------------------------------------------------
(* A path that leads to a scalar meets no gap.                             *)
LEMMA NoGapBeforeScalar ==
    ASSUME NEW m, IsMessage(m), NEW path \in DOMAIN m.leaves
    PROVE  ~Missing(m, path, Len(path))
<1> SUFFICES ASSUME NEW k \in 1..(Len(path) - 1), Node(m, PathTo(path, k)) = Undefined
             PROVE  FALSE
  BY DEF Missing
<1>1. path \in Seq(STRING)
  BY DEF IsMessage
<1>2. /\ PathTo(path, k) \in Seq(STRING) /\ Len(PathTo(path, k)) = k
      /\ \A i \in 1..k : PathTo(path, k)[i] = path[i]
  BY <1>1 DEF PathTo
<1>3. IsStrictPrefix(PathTo(path, k), path)
  BY <1>1, <1>2, PathPrefixIs
<1>4. /\ Undefined.t = "undefined"
      /\ Obj(PathTo(path, k)).t = "object"
      /\ PathTo(path, k) \in DOMAIN m.leaves => m.leaves[PathTo(path, k)].t # "undefined"
  BY DEF IsMessage, Undefined, Obj
<1> QED
  BY <1>2, <1>3, <1>4, NodeIs

(* A scalar is compared as what the filter asks for.                       *)
LEMMA StringifyIs ==
    ASSUME NEW leaf, NEW w, IsValue(w), leaf.t # "undefined"
    PROVE  Stringify(leaf, w.wanted) = w.wanted <=> SameScalar(leaf, w.wanted)
<1>1. CASE leaf.t # "long"
  BY <1>1 DEF Stringify, SameScalar
<1>2. CASE leaf.t = "long"
  <2>1. leaf # w.wanted
    BY <1>2 DEF IsValue
  <2>2. w.wanted = [t |-> w.wanted.t, v |-> w.wanted.v]
    BY DEF IsValue
  <2>3. CASE w.wanted.t = "number"
    <3>1. Num(leaf.v) = w.wanted <=> leaf.v = w.wanted.v
      BY <2>2, <2>3 DEF Num
    <3> QED
      BY <1>2, <2>1, <2>3, <3>1 DEF Stringify, SameScalar
  <2>4. CASE w.wanted.t = "string"
    <3>1. Str(leaf.v) = w.wanted <=> leaf.v = w.wanted.v
      BY <2>2, <2>4 DEF Str
    <3> QED
      BY <1>2, <2>1, <2>4, <3>1 DEF Stringify, SameScalar
  <2>5. CASE w.wanted.t \notin {"number", "string"}
    <3>1. Str(leaf.v) # w.wanted
      BY <2>5 DEF Str
    <3> QED
      BY <1>2, <2>1, <2>5, <3>1 DEF Stringify, SameScalar
  <2> QED
    BY <2>3, <2>4, <2>5
<1> QED
  BY <1>1, <1>2

(* What one condition of filter.values decides.                            *)
LEMMA ValueVerdictIs ==
    ASSUME NEW m, IsMessage(m), NEW w, IsValue(w)
    PROVE  /\ ValueVerdict(m, w) \in Verdicts
           /\ ValueVerdict(m, w) = "true" => m.decodable /\ HasValue(m, w)
           /\ ValueVerdict(m, w) = "false" => ~HasValue(m, w)
           /\ ValueVerdict(m, w) = "throw" => ~m.decodable \/ Strays(m, w.path)
<1> DEFINE path == w.path
           value == ValueAt(m, path)
<1>1. path \in Seq(STRING) /\ path # <<>> /\ Len(path) \in 1..Len(path)
  BY DEF IsValue
<1>2. value = Reached(m, path, Len(path))
  BY <1>1, ValueAtIs
<1>3. PathTo(path, Len(path)) = path
  BY <1>1, PathToFacts
<1>4. ValueVerdict(m, w) = IF value = Thrown THEN "throw"
                           ELSE IF Stringify(value, w.wanted) = w.wanted THEN "true" ELSE "false"
  BY DEF ValueVerdict
<1> HIDE DEF value
<1>5. CASE ~m.decodable \/ Missing(m, path, Len(path))
  <2>1. ValueVerdict(m, w) = "throw"
    BY <1>2, <1>4, <1>5 DEF Reached
  <2>2. ~m.decodable \/ Strays(m, path)
    BY <1>5 DEF Missing, Strays, PathTo
  <2> QED
    BY <2>1, <2>2 DEF Verdicts
<1>6. CASE m.decodable /\ ~Missing(m, path, Len(path))
  <2>1. value = Node(m, path)
    BY <1>1, <1>2, <1>3, <1>6 DEF Reached
  <2>2. value # Thrown
    BY <1>1, <2>1, NodeKinds
  <2>3. CASE path \in DOMAIN m.leaves
    <3>1. value = m.leaves[path] /\ value.t # "undefined"
      BY <1>1, <2>1, <2>3, NodeIs, NodeKinds
    <3>2. Stringify(value, w.wanted) = w.wanted <=> HasValue(m, w)
      BY <2>3, <3>1, StringifyIs DEF HasValue
    <3> QED
      BY <1>4, <1>6, <2>2, <3>2 DEF Verdicts
  <2>4. CASE path \notin DOMAIN m.leaves
    <3>1. value.t \in {"object", "undefined"}
      BY <1>1, <2>1, <2>4, NodeKinds
    <3>2. Stringify(value, w.wanted) # w.wanted
      BY <3>1 DEF Stringify, IsValue
    <3>3. ~HasValue(m, w)
      BY <2>4 DEF HasValue
    <3> QED
      BY <1>4, <2>2, <3>2, <3>3 DEF Verdicts
  <2> QED
    BY <2>3, <2>4
<1> QED
  BY <1>5, <1>6

(* What all of them decide, looked at one after the other.                 *)
LEMMA ValuesVerdictIs ==
    ASSUME NEW m, IsMessage(m), NEW f, IsFilter(f)
    PROVE  /\ ValuesVerdict(m, f.values) \in Verdicts
           /\ ValuesVerdict(m, f.values) = "true" =>
                 /\ f.values # <<>> => m.decodable
                 /\ \A w \in ToSet(f.values) : HasValue(m, w)
           /\ ValuesVerdict(m, f.values) = "false" =>
                 \E w \in ToSet(f.values) : ~HasValue(m, w)
           /\ ValuesVerdict(m, f.values) = "throw" =>
                 ~m.decodable \/ \E w \in ToSet(f.values) : Strays(m, w.path)
<1> DEFINE n == Len(f.values)
           vs == [i \in 1..n |-> ValueVerdict(m, f.values[i])]
<1>1. /\ n \in Nat
      /\ ToSet(f.values) = {f.values[i] : i \in 1..n}
      /\ f.values # <<>> => 1 \in 1..n
  BY DEF IsFilter, ToSet
<1>2. ASSUME NEW i \in 1..n
      PROVE  IsValue(f.values[i]) /\ vs[i] = ValueVerdict(m, f.values[i])
  BY <1>1 DEF IsFilter
<1>3. \A i \in 1..n :
        /\ vs[i] \in Verdicts
        /\ vs[i] = "true" => m.decodable /\ HasValue(m, f.values[i])
        /\ vs[i] = "false" => ~HasValue(m, f.values[i])
        /\ vs[i] = "throw" => ~m.decodable \/ Strays(m, f.values[i].path)
  BY <1>2, ValueVerdictIs
<1>4. \/ ValuesVerdict(m, f.values) = "true" /\ \A i \in 1..n : vs[i] = "true"
      \/ ValuesVerdict(m, f.values) # "true" /\ \E i \in 1..n : ValuesVerdict(m, f.values) = vs[i]
  <2>1. vs \in [1..n -> Verdicts] /\ n \in Nat
    BY <1>1, <1>3
  <2>2. ValuesVerdict(m, f.values) = FirstOther("true", vs)
    BY DEF ValuesVerdict
  <2> HIDE DEF vs, n
  <2>3. vs \in Seq(Verdicts) /\ Len(vs) = n
    BY <2>1
  <2> QED
    BY <2>2, <2>3, FirstOtherIs
<1> HIDE DEF vs, n
<1>5. CASE \A i \in 1..n : vs[i] = "true"
  <2>1. ValuesVerdict(m, f.values) = "true"
    BY <1>4, <1>5
  <2> QED
    BY <1>1, <1>3, <1>5, <2>1 DEF Verdicts
<1>6. ASSUME NEW i \in 1..n, ValuesVerdict(m, f.values) # "true", ValuesVerdict(m, f.values) = vs[i]
      PROVE  /\ ValuesVerdict(m, f.values) \in Verdicts
             /\ ValuesVerdict(m, f.values) = "false" => \E w \in ToSet(f.values) : ~HasValue(m, w)
             /\ ValuesVerdict(m, f.values) = "throw" =>
                   ~m.decodable \/ \E w \in ToSet(f.values) : Strays(m, w.path)
  BY <1>1, <1>3, <1>6
<1> QED
  BY <1>4, <1>5, <1>6

LEMMA PairPrefix ==
    ASSUME NEW a, NEW b, NEW p \in Seq(STRING)
    PROVE  /\ IsPrefix(<<a, b>>, <<a, b>>)
           /\ IsPrefix(<<a, b>>, p) => IsStrictPrefix(<<a>>, p)
<1>1. IsPrefix(<<a, b>>, <<a, b>>)
  BY DEF IsPrefix
<1>2. ASSUME NEW s, NEW r, s = <<a, b>>, r = <<a>>, IsPrefix(s, p)
      PROVE  IsStrictPrefix(r, p)
  <2>1. /\ s \in Seq({a, b}) /\ r \in Seq({a}) /\ Len(s) = 2 /\ Len(r) = 1
        /\ s[1] = a /\ r[1] = a
    BY <1>2
  <2>2. Len(p) >= 2 /\ SubSeq(s, 1, 2) = SubSeq(p, 1, 2)
    BY <1>2, <2>1 DEF IsPrefix
  <2>3. SubSeq(s, 1, 2)[1] = a /\ SubSeq(p, 1, 2)[1] = p[1]
    BY <2>1, <2>2
  <2>4. p[1] = a
    BY <2>2, <2>3
  <2>5. SubSeq(r, 1, 1) = [i \in 1..1 |-> a] /\ SubSeq(p, 1, 1) = [i \in 1..1 |-> a]
    BY <2>1, <2>2, <2>4
  <2>6. r # p
    BY <2>1, <2>2
  <2> QED
    BY <2>1, <2>2, <2>5, <2>6 DEF IsPrefix, IsStrictPrefix
<1> QED
  BY <1>1, <1>2

(* filter.contractCall is found exactly where the message has it.          *)
LEMMA ContractCallIs ==
    ASSUME NEW m, IsMessage(m), NEW f
    PROVE  /\ ContractCallVerdict(m, f) \in Verdicts
           /\ ContractCallVerdict(m, f) = "throw" => ~m.decodable
           /\ ContractCallVerdict(m, f) # "throw" =>
                 (ContractCallVerdict(m, f) = "true" <=>
                    (f.contractCall # "" /\ f.type = ExecuteContract
                        => m.decodable /\ Calls(m, f.contractCall)))
<1> DEFINE call == f.contractCall
           msg == Node(m, <<"msg">>)
           inner == Node(m, <<"msg", call>>)
<1>1. CASE f.type # ExecuteContract \/ call = ""
  BY <1>1 DEF ContractCallVerdict, Verdicts
<1>2. CASE f.type = ExecuteContract /\ call # "" /\ ~m.decodable
  BY <1>2 DEF ContractCallVerdict, Verdicts
<1>3. CASE f.type = ExecuteContract /\ call # "" /\ m.decodable
  <2>1. ContractCallVerdict(m, f) =
          IF msg = Str(call) \/ (msg.t = "object" /\ inner # Undefined) THEN "true" ELSE "false"
    BY <1>3 DEF ContractCallVerdict
  <2>2. <<"msg">> \in Seq({"msg", call}) /\ <<"msg", call>> \in Seq({"msg", call})
    OBVIOUS
  <2>3. msg = Str(call) <=> <<"msg">> \in DOMAIN m.leaves /\ m.leaves[<<"msg">>] = Str(call)
    <3>1. Str(call).t = "string"
      BY DEF Str
    <3>2. msg = Str(call) => <<"msg">> \in DOMAIN m.leaves
      BY <2>2, <3>1, NodeKinds
    <3>3. <<"msg">> \in DOMAIN m.leaves => msg = m.leaves[<<"msg">>]
      BY <2>2, NodeIs
    <3> QED
      BY <3>2, <3>3
  <2>4. inner # Undefined <=> \E p \in DOMAIN m.leaves : IsPrefix(<<"msg", call>>, p)
    <3>1. IsPrefix(<<"msg", call>>, <<"msg", call>>)
      BY DEF IsPrefix
    <3>2. \A p : IsPrefix(<<"msg", call>>, p) <=>
                    p = <<"msg", call>> \/ IsStrictPrefix(<<"msg", call>>, p)
      BY <3>1 DEF IsStrictPrefix
    <3>3. /\ <<"msg", call>> \in DOMAIN m.leaves => inner # Undefined
          /\ Obj(<<"msg", call>>) # Undefined
      BY <2>2, NodeKinds DEF Undefined, Obj
    <3> HIDE DEF inner
    <3> QED
      BY <2>2, <3>2, <3>3, NodeIs DEF inner
  <2>5. ASSUME NEW p \in DOMAIN m.leaves, IsPrefix(<<"msg", call>>, p)
        PROVE  msg.t = "object"
    <3>1. p \in Seq(STRING)
      BY DEF IsMessage
    <3>4. IsStrictPrefix(<<"msg">>, p)
      BY <2>5, <3>1, PairPrefix
    <3>5. <<"msg">> \notin DOMAIN m.leaves
      BY <3>4 DEF IsMessage
    <3>6. msg = Obj(<<"msg">>)
      BY <2>2, <3>4, <3>5, NodeIs
    <3> QED
      BY <3>6 DEF Obj
  <2>6. Calls(m, call) <=> msg = Str(call) \/ (msg.t = "object" /\ inner # Undefined)
    <3> HIDE DEF msg, inner
    <3> QED
      BY <2>3, <2>4, <2>5 DEF Calls
  <2> QED
    BY <1>3, <2>1, <2>6 DEF Verdicts
<1> QED
  BY <1>1, <1>2, <1>3

-----------------------------------------------------------------------------
(* filterMessageData keeps what the filter asks for, drops what it does    *)
(* not, and throws only over a body it had to look into.                   *)
LEMMA FilterMessageDataIs ==
    ASSUME NEW m, IsMessage(m), NEW f, IsFilter(f)
    PROVE  /\ FilterMessageData(m, f) \in Verdicts
           /\ FilterMessageData(m, f) = "true" => MessageWanted(m, f)
           /\ FilterMessageData(m, f) = "false" => ~MessageWanted(m, f)
           /\ FilterMessageData(m, f) = "throw" => MayThrow(m, f)
<1> DEFINE accepted == m.code = 0 \/ f.includeFailedTx
           values == ValuesVerdict(m, f.values)
           call == ContractCallVerdict(m, f)
<1>1. FilterTx(m.code, f.includeFailedTx) <=> accepted
  BY DEF FilterTx, IsFilter
<1>2. CASE f = NoFilter
  BY <1>2 DEF FilterMessageData, MessageWanted, Verdicts
<1>3. CASE f # NoFilter /\ ~accepted
  BY <1>1, <1>3 DEF FilterMessageData, MessageWanted, Verdicts
<1>4. CASE f # NoFilter /\ accepted /\ f.type # m.typeUrl
  BY <1>1, <1>4 DEF FilterMessageData, MessageWanted, Verdicts
<1>5. CASE f # NoFilter /\ accepted /\ f.type = m.typeUrl
  <2>1. FilterMessageData(m, f) = IF values # "true" THEN values ELSE call
    BY <1>1, <1>5 DEF FilterMessageData
  <2>2. CASE values # "true"
    <3>1. FilterMessageData(m, f) = values /\ values \in {"false", "throw"}
      BY <2>1, <2>2, ValuesVerdictIs DEF Verdicts
    <3>2. values = "false" => ~MessageWanted(m, f)
      BY <1>5, ValuesVerdictIs DEF MessageWanted
    <3>3. values = "throw" => MayThrow(m, f)
      BY <1>5, ValuesVerdictIs DEF MayThrow
    <3> QED
      BY <3>1, <3>2, <3>3 DEF Verdicts
  <2>3. CASE values = "true"
    <3>1. FilterMessageData(m, f) = call
      BY <2>1, <2>3
    <3>2. /\ f.values # <<>> => m.decodable
          /\ \A w \in ToSet(f.values) : HasValue(m, w)
      BY <2>3, ValuesVerdictIs
    <3>3. MessageWanted(m, f) <=>
            (f.contractCall # "" /\ f.type = ExecuteContract
                => m.decodable /\ Calls(m, f.contractCall))
      BY <1>5, <3>2 DEF MessageWanted
    <3>4. call = "throw" => MayThrow(m, f)
      BY <1>5, ContractCallIs DEF MayThrow
    <3>5. /\ call \in Verdicts
          /\ call = "true" => MessageWanted(m, f)
          /\ call = "false" => ~MessageWanted(m, f)
      BY <3>3, ContractCallIs DEF Verdicts
    <3> QED
      BY <3>1, <3>4, <3>5
  <2> QED
    BY <2>2, <2>3
<1> QED
  BY <1>2, <1>3, <1>4, <1>5

EventMayThrow(e, f) ==
    /\ e.type = f.type
    /\ e.msg # <<>>
    /\ MayThrow(e.msg[1], f.messageFilter)

(* The same of filterEvent.                                                *)
LEMMA FilterEventIs ==
    ASSUME NEW e, IsEvent(e), NEW f, IsFilter(f.messageFilter)
    PROVE  /\ FilterEvent(e, f) \in Verdicts
           /\ FilterEvent(e, f) = "true" => EventWanted(e, f)
           /\ FilterEvent(e, f) = "false" => ~EventWanted(e, f)
           /\ FilterEvent(e, f) = "throw" => EventMayThrow(e, f)
<1> DEFINE msg == EventMsgVerdict(e, f)
<1>1. CASE f = NoEventFilter
  BY <1>1 DEF FilterEvent, EventWanted, Verdicts
<1>2. CASE f # NoEventFilter /\ f.type # e.type
  BY <1>2 DEF FilterEvent, EventWanted, Verdicts
<1>3. CASE f # NoEventFilter /\ f.type = e.type
  <2>1. FilterEvent(e, f) = IF msg # "true" THEN msg
                            ELSE IF AttributesMatch(e, f) THEN "true" ELSE "false"
    BY <1>3 DEF FilterEvent
  <2>2. /\ msg \in Verdicts
        /\ msg = "true" => (f.messageFilter # NoFilter =>
                e.msg # <<>> /\ MessageWanted(e.msg[1], f.messageFilter))
        /\ msg = "false" => ~(f.messageFilter # NoFilter =>
                e.msg # <<>> /\ MessageWanted(e.msg[1], f.messageFilter))
        /\ msg = "throw" => e.msg # <<>> /\ MayThrow(e.msg[1], f.messageFilter)
    <3>1. CASE f.messageFilter = NoFilter
      BY <3>1 DEF EventMsgVerdict, Verdicts
    <3>2. CASE f.messageFilter # NoFilter /\ e.msg = <<>>
      BY <3>2 DEF EventMsgVerdict, Verdicts
    <3>3. CASE f.messageFilter # NoFilter /\ e.msg # <<>>
      <4>1. IsMessage(e.msg[1]) /\ msg = FilterMessageData(e.msg[1], f.messageFilter)
        BY <3>3 DEF EventMsgVerdict, IsEvent
      <4> QED
        BY <3>3, <4>1, FilterMessageDataIs
    <3> QED
      BY <3>1, <3>2, <3>3
  <2>3. AttributesMatch(e, f) <=> \A a \in f.attributes : a \in e.attributes
    BY DEF AttributesMatch
  <2> HIDE DEF msg
  <2> QED
    BY <1>3, <2>1, <2>2, <2>3 DEF EventWanted, EventMayThrow, Verdicts
<1> QED
  BY <1>1, <1>2, <1>3

(* filters.find: the verdict on a list is one of its filters', "false"     *)
(* only if all are.                                                        *)
LEMMA FilterMessagesIs ==
    ASSUME NEW m, NEW S, NEW fs \in Seq(S), fs # <<>>,
           \A i \in 1..Len(fs) : FilterMessageData(m, fs[i]) \in Verdicts
    PROVE  \/ /\ FilterMessages(m, fs) = "false"
              /\ \A i \in 1..Len(fs) : FilterMessageData(m, fs[i]) = "false"
           \/ /\ FilterMessages(m, fs) # "false"
              /\ \E i \in 1..Len(fs) : FilterMessages(m, fs) = FilterMessageData(m, fs[i])
<1> DEFINE n == Len(fs)
           vs == [i \in 1..n |-> FilterMessageData(m, fs[i])]
<1>1. n \in Nat /\ vs \in [1..n -> Verdicts]
  OBVIOUS
<1>2. FilterMessages(m, fs) = FirstOther("false", vs)
  BY DEF FilterMessages, FirstMatch
<1>3. \A i \in 1..n : vs[i] = FilterMessageData(m, fs[i])
  OBVIOUS
<1> HIDE DEF vs, n
<1>4. vs \in Seq(Verdicts) /\ Len(vs) = n
  BY <1>1
<1>5. \/ FilterMessages(m, fs) = "false" /\ \A i \in 1..n : vs[i] = "false"
      \/ FilterMessages(m, fs) # "false" /\ \E i \in 1..n : FilterMessages(m, fs) = vs[i]
  BY <1>2, <1>4, FirstOtherIs
<1> QED
  BY <1>3, <1>5 DEF n

LEMMA FilterEventsIs ==
    ASSUME NEW e, NEW S, NEW fs \in Seq(S), fs # <<>>,
           \A i \in 1..Len(fs) : FilterEvent(e, fs[i]) \in Verdicts
    PROVE  \/ /\ FilterEvents(e, fs) = "false"
              /\ \A i \in 1..Len(fs) : FilterEvent(e, fs[i]) = "false"
           \/ /\ FilterEvents(e, fs) # "false"
              /\ \E i \in 1..Len(fs) : FilterEvents(e, fs) = FilterEvent(e, fs[i])
<1> DEFINE n == Len(fs)
           vs == [i \in 1..n |-> FilterEvent(e, fs[i])]
<1>1. n \in Nat /\ vs \in [1..n -> Verdicts]
  OBVIOUS
<1>2. FilterEvents(e, fs) = FirstOther("false", vs)
  BY DEF FilterEvents, FirstMatch
<1>3. \A i \in 1..n : vs[i] = FilterEvent(e, fs[i])
  OBVIOUS
<1> HIDE DEF vs, n
<1>4. vs \in Seq(Verdicts) /\ Len(vs) = n
  BY <1>1
<1>5. \/ FilterEvents(e, fs) = "false" /\ \A i \in 1..n : vs[i] = "false"
      \/ FilterEvents(e, fs) # "false" /\ \E i \in 1..n : FilterEvents(e, fs) = vs[i]
  BY <1>2, <1>4, FirstOtherIs
<1> QED
  BY <1>3, <1>5 DEF n

-----------------------------------------------------------------------------
(* The specification of HandlerFilters.                                    *)

SubjectInv ==
    /\ subject.kind \in {"message", "event"}
    /\ subject.kind = "message" => IsMessage(subject.data)
    /\ subject.kind = "event" => IsEvent(subject.data)

FilterInv == SubjectInv /\ VerdictAgrees /\ ThrowsOnlyOverMatchingBody

(* What the verdict on one filter, or on a list of two, has to satisfy.    *)
Agrees(s, fs, v) ==
    /\ v = "true" => \E f \in fs : Wanted(s, f)
    /\ v = "false" => \A f \in fs : ~Wanted(s, f)
    /\ v = "throw" => \E f \in fs : IF s.kind = "message" THEN MayThrow(s.data, f)
                                    ELSE EventMayThrow(s.data, f)

LEMMA AgreesIs ==
    ASSUME Agrees(subject', ToSet(asked'), verdict'), SubjectInv, UNCHANGED subject
    PROVE  FilterInv'
  BY DEF Agrees, FilterInv, SubjectInv, VerdictAgrees, ThrowsOnlyOverMatchingBody,
         EventMayThrow, Wanted

LEMMA OneOrTwo ==
    ASSUME NEW f, NEW g
    PROVE  /\ ToSet(<<f>>) = {f} /\ ToSet(<<f, g>>) = {f, g}
           /\ <<f, g>> \in Seq({f, g}) /\ <<f, g>> # <<>> /\ Len(<<f, g>>) = 2
           /\ <<f, g>>[1] = f /\ <<f, g>>[2] = g
<1>1. ASSUME NEW s, s = <<f>>
      PROVE  ToSet(s) = {f}
  <2>1. DOMAIN s = {1} /\ s[1] = f
    BY <1>1
  <2> QED
    BY <2>1 DEF ToSet
<1>2. ASSUME NEW s, s = <<f, g>>
      PROVE  ToSet(s) = {f, g}
  <2>1. DOMAIN s = {1, 2} /\ s[1] = f /\ s[2] = g
    BY <1>2
  <2> QED
    BY <2>1 DEF ToSet
<1> QED
  BY <1>1, <1>2

LEMMA FilterInvStep == FilterInv /\ [FilterNext]_filterVars => FilterInv'
<1> SUFFICES ASSUME FilterInv, [FilterNext]_filterVars PROVE FilterInv'
  OBVIOUS
<1>1. SubjectInv
  BY DEF FilterInv
<1>2. ASSUME NEW f \in MessageFilters, AskMessage(f)
      PROVE  FilterInv'
  <2>1. /\ UNCHANGED subject /\ subject.kind = "message" /\ IsMessage(subject.data)
        /\ IsFilter(f) /\ verdict' = FilterMessageData(subject.data, f) /\ asked' = <<f>>
    BY <1>1, <1>2, FiltersAssumption DEF AskMessage, SubjectInv
  <2>2. Agrees(subject', {f}, verdict')
    BY <2>1, FilterMessageDataIs DEF Agrees, Wanted
  <2> QED
    BY <1>1, <2>1, <2>2, OneOrTwo, AgreesIs
<1>3. ASSUME NEW f \in MessageFilters, NEW g \in MessageFilters, AskMessages(f, g)
      PROVE  FilterInv'
  <2> DEFINE fs == <<f, g>>
             m == subject.data
  <2>1. /\ UNCHANGED subject /\ subject.kind = "message" /\ IsMessage(m)
        /\ IsFilter(f) /\ IsFilter(g) /\ verdict' = FilterMessages(m, fs) /\ asked' = fs
    BY <1>1, <1>3, FiltersAssumption DEF AskMessages, SubjectInv
  <2>2. /\ fs \in Seq({f, g}) /\ fs # <<>> /\ Len(fs) = 2
        /\ fs[1] = f /\ fs[2] = g /\ ToSet(fs) = {f, g}
    BY OneOrTwo
  <2> HIDE DEF fs
  <2>3. \A i \in 1..Len(fs) : fs[i] \in {f, g} /\ FilterMessageData(m, fs[i]) \in Verdicts
    BY <2>1, <2>2, FilterMessageDataIs
  <2>4. \/ /\ FilterMessages(m, fs) = "false"
           /\ \A i \in 1..Len(fs) : FilterMessageData(m, fs[i]) = "false"
        \/ /\ FilterMessages(m, fs) # "false"
           /\ \E i \in 1..Len(fs) : FilterMessages(m, fs) = FilterMessageData(m, fs[i])
    BY <2>2, <2>3, FilterMessagesIs
  <2>5. \/ /\ verdict' = "false"
           /\ FilterMessageData(m, f) = "false" /\ FilterMessageData(m, g) = "false"
        \/ verdict' # "false" /\ verdict' = FilterMessageData(m, f)
        \/ verdict' # "false" /\ verdict' = FilterMessageData(m, g)
    BY <2>1, <2>2, <2>3, <2>4
  <2>6. Agrees(subject', {f, g}, verdict')
    BY <2>1, <2>5, FilterMessageDataIs DEF Agrees, Wanted
  <2> QED
    BY <1>1, <2>1, <2>2, <2>6, AgreesIs
<1>4. ASSUME NEW f \in EventFilters, AskEvent(f)
      PROVE  FilterInv'
  <2>1. /\ UNCHANGED subject /\ subject.kind = "event" /\ IsEvent(subject.data)
        /\ IsFilter(f.messageFilter) /\ verdict' = FilterEvent(subject.data, f)
        /\ asked' = <<f>>
    BY <1>1, <1>4, FiltersAssumption DEF AskEvent, SubjectInv
  <2>2. Agrees(subject', {f}, verdict')
    BY <2>1, FilterEventIs DEF Agrees, Wanted
  <2> QED
    BY <1>1, <2>1, <2>2, OneOrTwo, AgreesIs
<1>5. ASSUME NEW f \in EventFilters, NEW g \in EventFilters, AskEvents(f, g)
      PROVE  FilterInv'
  <2> DEFINE fs == <<f, g>>
             e == subject.data
  <2>1. /\ UNCHANGED subject /\ subject.kind = "event" /\ IsEvent(e)
        /\ IsFilter(f.messageFilter) /\ IsFilter(g.messageFilter)
        /\ verdict' = FilterEvents(e, fs) /\ asked' = fs
    BY <1>1, <1>5, FiltersAssumption DEF AskEvents, SubjectInv
  <2>2. /\ fs \in Seq({f, g}) /\ fs # <<>> /\ Len(fs) = 2
        /\ fs[1] = f /\ fs[2] = g /\ ToSet(fs) = {f, g}
    BY OneOrTwo
  <2> HIDE DEF fs
  <2>3. \A i \in 1..Len(fs) : fs[i] \in {f, g} /\ FilterEvent(e, fs[i]) \in Verdicts
    BY <2>1, <2>2, FilterEventIs
  <2>4. \/ /\ FilterEvents(e, fs) = "false"
           /\ \A i \in 1..Len(fs) : FilterEvent(e, fs[i]) = "false"
        \/ /\ FilterEvents(e, fs) # "false"
           /\ \E i \in 1..Len(fs) : FilterEvents(e, fs) = FilterEvent(e, fs[i])
    BY <2>2, <2>3, FilterEventsIs
  <2>5. \/ /\ verdict' = "false"
           /\ FilterEvent(e, f) = "false" /\ FilterEvent(e, g) = "false"
        \/ verdict' # "false" /\ verdict' = FilterEvent(e, f)
        \/ verdict' # "false" /\ verdict' = FilterEvent(e, g)
    BY <2>1, <2>2, <2>3, <2>4
  <2>6. Agrees(subject', {f, g}, verdict')
    BY <2>1, <2>5, FilterEventIs DEF Agrees, Wanted
  <2> QED
    BY <1>1, <2>1, <2>2, <2>6, AgreesIs
<1>6. CASE UNCHANGED filterVars
  BY <1>6 DEF filterVars, FilterInv, SubjectInv, VerdictAgrees, ThrowsOnlyOverMatchingBody, Wanted
<1> QED
  BY <1>2, <1>3, <1>4, <1>5, <1>6 DEF FilterNext

LEMMA FilterInvariant == FilterSpec => []FilterInv
<1>1. FilterInit => FilterInv
  BY FiltersAssumption
     DEF FilterInit, FilterInv, SubjectInv, VerdictAgrees, ThrowsOnlyOverMatchingBody
<1> QED
  BY <1>1, FilterInvStep, PTL DEF FilterSpec

(* HandlerFilters.VerdictAgrees, for messages and events of any shape and  *)
(* filters with any number of conditions.                                  *)
THEOREM FiltersDecideAsAsked == FilterSpec => []VerdictAgrees
<1>1. FilterInv => VerdictAgrees
  BY DEF FilterInv
<1> QED
  BY <1>1, FilterInvariant, PTL

(* HandlerFilters.ThrowsOnlyOverMatchingBody: a filter fails a block only  *)
(* over a message it names.                                                *)
THEOREM FiltersThrowOnlyOverTheirBody == FilterSpec => []ThrowsOnlyOverMatchingBody
<1>1. FilterInv => ThrowsOnlyOverMatchingBody
  BY DEF FilterInv
<1> QED
  BY <1>1, FilterInvariant, PTL

-----------------------------------------------------------------------------
(* What setWith leaves of a pattern comes from the filter.                 *)

FromValues(pattern, values) ==
    \A p \in DOMAIN pattern :
        \E w \in ToSet(values) : p = w.path /\ pattern[p] = w.wanted

LEMMA SetWithIs ==
    ASSUME NEW nested, NEW key, NEW value
    PROVE  /\ DOMAIN SetWith(nested, key, value) \subseteq DOMAIN nested \cup {key}
           /\ \A p \in DOMAIN SetWith(nested, key, value) :
                 \/ p \in DOMAIN nested /\ SetWith(nested, key, value)[p] = nested[p]
                 \/ p = key /\ SetWith(nested, key, value)[p] = value
  BY DEF SetWith

(* The recursion over the keys is well defined: by induction, the least    *)
(* number of keys for which it would not be.                               *)
LEMMA NestingsIs ==
    ASSUME NEW S, NEW values \in Seq(S)
    PROVE  Nestings(values) = [n \in 0..Len(values) |->
              IF n = 0 THEN <<>>
              ELSE SetWith(Nestings(values)[n - 1], values[n].path, values[n].wanted)]
<1> DEFINE Next1(a, n) == SetWith(a[n - 1], values[n].path, values[n].wanted)
           Upto1(a, k) == a = [n \in 0..k |-> IF n = 0 THEN <<>> ELSE Next1(a, n)]
           Undef == {k \in Nat : ~\E a : Upto1(a, k)}
<1>1. Undef = {}
  <2> SUFFICES ASSUME Undef # {} PROVE FALSE
    OBVIOUS
  <2>1. PICK k \in Undef : \A j \in Undef : k <= j
    <3>1. Undef \in SUBSET Nat
      OBVIOUS
    <3> HIDE DEF Undef
    <3> QED
      BY <3>1, LeastNat
  <2>2. CASE k = 0
    <3>1. Upto1([n \in 0..0 |-> <<>>], 0)
      OBVIOUS
    <3> QED
      BY <2>1, <2>2, <3>1
  <2>3. CASE k # 0
    <3>1. k - 1 \in Nat /\ k - 1 \notin Undef
      <4>1. k \in Nat
        OBVIOUS
      <4> HIDE DEF Undef
      <4> QED
        BY <2>1, <2>3, <4>1
    <3>2. PICK a : Upto1(a, k - 1)
      <4> HIDE DEF Upto1
      <4> QED
        BY <3>1
    <3> DEFINE b == [n \in 0..k |-> IF n = k THEN Next1(a, k) ELSE a[n]]
    <3>3. \A n \in 0..(k - 1) : a[n] = IF n = 0 THEN <<>> ELSE Next1(a, n)
      BY <3>2
    <3>4. \A n \in 0..(k - 1) : b[n] = a[n]
      BY <2>1, <3>1
    <3>5. ASSUME NEW n \in 0..k
          PROVE  b[n] = IF n = 0 THEN <<>> ELSE Next1(b, n)
      <4>1. CASE n = k
        <5>1. b[n] = Next1(a, k) /\ b[k - 1] = a[k - 1]
          BY <2>1, <3>1, <3>4, <4>1
        <5> QED
          BY <2>3, <4>1, <5>1
      <4>2. CASE n # k
        <5>1. n \in 0..(k - 1) /\ (n # 0 => n - 1 \in 0..(k - 1))
          BY <2>1, <4>2
        <5> QED
          BY <3>3, <3>4, <5>1
      <4> QED
        BY <4>1, <4>2
    <3>6. Upto1(b, k)
      BY <3>5
    <3> HIDE DEF Upto1, b
    <3> QED
      BY <2>1, <3>6
  <2> QED
    BY <2>2, <2>3
<1>2. \E a : Upto1(a, Len(values))
  <2>1. Len(values) \in Nat
    OBVIOUS
  <2> HIDE DEF Upto1
  <2> QED
    BY <1>1, <2>1
<1> QED
  BY <1>2 DEF Nestings

LEMMA NestedFromValues ==
    ASSUME NEW S, NEW values \in Seq(S)
    PROVE  FromValues(Nested(values), values)
<1> DEFINE a == Nestings(values)
           Off == {n \in 0..Len(values) : ~FromValues(a[n], values)}
<1>1. \A n \in 0..Len(values) :
        a[n] = IF n = 0 THEN <<>> ELSE SetWith(a[n - 1], values[n].path, values[n].wanted)
  BY NestingsIs
<1> HIDE DEF a
<1>2. Off = {}
  <2> SUFFICES ASSUME Off # {} PROVE FALSE
    OBVIOUS
  <2>1. PICK n \in Off : \A k \in Off : n <= k
    <3>1. Off \in SUBSET Nat
      OBVIOUS
    <3> HIDE DEF Off
    <3> QED
      BY <3>1, LeastNat
  <2>2. n # 0
    <3>1. FromValues(<<>>, values)
      BY DEF FromValues
    <3> QED
      BY <1>1, <2>1, <3>1
  <2>3. n - 1 \in 0..Len(values) /\ n - 1 \notin Off /\ n \in 1..Len(values)
    BY <2>1, <2>2
  <2>4. FromValues(a[n - 1], values) /\ values[n] \in ToSet(values)
    BY <2>3 DEF ToSet
  <2>5. a[n] = SetWith(a[n - 1], values[n].path, values[n].wanted)
    BY <1>1, <2>2, <2>3
  <2>6. FromValues(a[n], values)
    BY <2>4, <2>5, SetWithIs DEF FromValues
  <2> QED
    BY <2>1, <2>6
<1>3. FromValues(a[Len(values)], values)
  BY <1>2
<1> QED
  BY <1>3 DEF Nested, a

(* A message with the values a filter asks for contains the pattern made   *)
(* of them.                                                                *)
LEMMA ContainsWanted ==
    ASSUME NEW m, IsMessage(m), NEW f, Queryable(f),
           \A w \in ToSet(f.values) : HasValue(m, w)
    PROVE  JsonContains(m, Nested(f.values))
<1> SUFFICES ASSUME NEW p \in DOMAIN Nested(f.values)
             PROVE  /\ ~HasHole(Nested(f.values), p)
                    /\ \E q \in DOMAIN m.leaves :
                          SamePlace(p, q) /\ JsonScalar(m.leaves[q]) = Nested(f.values)[p]
  BY DEF JsonContains
<1>1. f.values \in Seq(ToSet(f.values))
  BY DEF Queryable, IsFilter
<1>2. PICK w \in ToSet(f.values) : p = w.path /\ Nested(f.values)[p] = w.wanted
  BY <1>1, NestedFromValues DEF FromValues
<1>3. /\ IsValue(w) /\ HasValue(m, w) /\ w.wanted.t = "string"
      /\ \A n \in 1..Len(p), k \in 2..Len(Indices) : p[n] # Indices[k]
  BY <1>2 DEF Queryable, IsFilter
<1>4. ~HasHole(Nested(f.values), p)
  <2>1. Len(Indices) \in Nat
    BY ProjectsAssumption
  <2>2. \A k \in 1..Len(Indices) : \A j \in 1..(k - 1) : k \in 2..Len(Indices)
    BY <2>1
  <2> QED
    BY <1>3, <2>2 DEF HasHole
<1>5. SamePlace(p, p)
  BY DEF SamePlace
<1>6. JsonScalar(m.leaves[p]) = w.wanted
  <2>1. w.wanted = [t |-> "string", v |-> w.wanted.v]
    BY <1>3 DEF IsValue
  <2>2. SameScalar(m.leaves[p], w.wanted)
    BY <1>2, <1>3 DEF HasValue
  <2>3. CASE m.leaves[p].t = "long"
    <3>1. m.leaves[p].v = w.wanted.v
      BY <1>3, <2>2, <2>3 DEF SameScalar
    <3> QED
      BY <2>1, <2>3, <3>1 DEF JsonScalar, Str
  <2>4. CASE m.leaves[p].t # "long"
    BY <2>2, <2>4 DEF SameScalar, JsonScalar
  <2> QED
    BY <2>3, <2>4
<1> QED
  BY <1>2, <1>3, <1>4, <1>5, <1>6 DEF HasValue

-----------------------------------------------------------------------------
(* The specification of DictionaryQuery.                                   *)

(* A handler that was looked at has its entries, or needs none.            *)
Asked(h) ==
    \/ HasQuery(h)
    \/ /\ ~NothingToFilterOn(h)
       /\ h.kind = "Message" =>
             \A f \in FilterList(h) : MessageFilterToQueryEntry(f) \in entries
       /\ h.kind = "Event" =>
             \A f \in FilterList(h) : EventFilterToQueryEntry(f) \in entries

QueryInv ==
    /\ project \in Seq(ToSet(project))
    /\ at \in Nat \ {0}
    /\ answer \in {"building", "nothing", "entries"}
    /\ answer = "nothing" => entries = {}
    /\ answer = "entries" => at > Len(project)
    /\ answer # "nothing" => \A k \in 1..Len(project) : k < at => Asked(project[k])
    /\ entries # {} => \E k \in 1..Len(project) : AddsEntries(project[k])

(* A handler looked at leaves those before it asked for.                   *)
LEMMA AddKeepsInv ==
    ASSUME QueryInv, Building, NEW new, Add(new),
           NEW h, h = Handler, Asked(h)', new # {} => AddsEntries(h)
    PROVE  QueryInv'
<1>1. /\ Len(project) \in Nat /\ at \in 1..Len(project) /\ at' = at + 1
      /\ answer = "building" /\ UNCHANGED <<project, block, answer>>
      /\ entries' = entries \cup new /\ h = project[at]
  BY DEF QueryInv, Building, Add, Handler
<1>2. ASSUME NEW k \in 1..Len(project), k < at + 1
      PROVE  Asked(project[k])'
  <2>1. CASE k = at
    BY <1>1, <2>1 DEF Asked
  <2>2. CASE k # at
    <3>1. Asked(project[k])
      BY <1>1, <1>2, <2>2 DEF QueryInv
    <3> QED
      BY <1>1, <3>1 DEF Asked
  <2> QED
    BY <2>1, <2>2
<1>3. entries' # {} => \E k \in 1..Len(project) : AddsEntries(project[k])
  BY <1>1 DEF QueryInv
<1> QED
  BY <1>1, <1>2, <1>3 DEF QueryInv

LEMMA QueryInvStep == QueryInv /\ [QueryNext]_queryVars => QueryInv'
<1> SUFFICES ASSUME QueryInv, [QueryNext]_queryVars PROVE QueryInv'
  OBVIOUS
<1>1. ASSUME TakeCustomQuery, NEW g, g = Handler
      PROVE  QueryInv'
  <2>1. Building /\ HasQuery(g) /\ Add({g.query[1]})
    BY <1>1 DEF TakeCustomQuery
  <2>2. Asked(g)' /\ AddsEntries(g)
    BY <2>1 DEF Asked, AddsEntries
  <2> QED
    BY <1>1, <2>1, <2>2, AddKeepsInv
<1>2. CASE ReturnNothing
  BY <1>2 DEF ReturnNothing, QueryInv
<1>3. ASSUME AddMessageEntries, NEW g, g = Handler
      PROVE  QueryInv'
  <2> DEFINE new == {MessageFilterToQueryEntry(f) : f \in FilterList(g)}
  <2>1. Building /\ g.kind = "Message" /\ ~NothingToFilterOn(g) /\ Add(new)
    BY <1>3 DEF AddMessageEntries, Usable
  <2>2. Asked(g)' /\ AddsEntries(g)
    BY <2>1 DEF Asked, AddsEntries, Add
  <2> QED
    BY <1>3, <2>1, <2>2, AddKeepsInv
<1>4. ASSUME AddEventEntries, NEW g, g = Handler
      PROVE  QueryInv'
  <2> DEFINE new == {EventFilterToQueryEntry(f) : f \in FilterList(g)}
  <2>1. Building /\ g.kind = "Event" /\ ~NothingToFilterOn(g) /\ Add(new)
    BY <1>4 DEF AddEventEntries, Usable
  <2>2. Asked(g)' /\ AddsEntries(g)
    BY <2>1 DEF Asked, AddsEntries, Add
  <2> QED
    BY <1>4, <2>1, <2>2, AddKeepsInv
<1>5. ASSUME PassBlockHandler \/ PassTransactionHandler, NEW g, g = Handler
      PROVE  QueryInv'
  <2>1. Building /\ g.kind \in {"Block", "Transaction"} /\ ~NothingToFilterOn(g) /\ Add({})
    BY <1>5 DEF PassBlockHandler, PassTransactionHandler, Usable
  <2>2. Asked(g)'
    BY <2>1 DEF Asked
  <2> QED
    BY <1>5, <2>1, <2>2, AddKeepsInv
<1>6. CASE ReturnEntries
  BY <1>6 DEF ReturnEntries, QueryInv, Asked
<1>7. CASE UNCHANGED queryVars
  BY <1>7 DEF queryVars, QueryInv, Asked
<1> QED
  BY <1>1, <1>2, <1>3, <1>4, <1>5, <1>6, <1>7 DEF QueryNext

(* A block a message handler wants is named by the entries of its filters. *)
LEMMA MessagesAreNamed ==
    ASSUME NEW h, h.kind = "Message", Supported(h), ~HasQuery(h), Asked(h),
           NEW b, IsBlock(b), Wants(h, b)
    PROVE  \E e \in entries : NamedBy(b, e)
<1>1. /\ FilterList(h) # {} /\ FilterList(h) = ToSet(h.filters)
      /\ h.filters \in Seq(ToSet(h.filters))
      /\ \A f \in FilterList(h) : Queryable(f) /\ MessageFilterToQueryEntry(f) \in entries
  BY DEF Supported, Asked, NothingToFilterOn
<1>2. PICK m \in b.messages : FilterMessages(m, h.filters) = "true"
  BY DEF Wants
<1>3. IsMessage(m)
  BY DEF IsBlock
<1>4. h.filters # <<>> /\ \A i \in 1..Len(h.filters) : h.filters[i] \in FilterList(h)
  BY <1>1 DEF ToSet
<1>5. \A f \in FilterList(h) :
        /\ FilterMessageData(m, f) \in Verdicts
        /\ FilterMessageData(m, f) = "true" => MessageWanted(m, f)
  BY <1>1, <1>3, FilterMessageDataIs DEF Queryable
<1>6. PICK f \in FilterList(h) : FilterMessageData(m, f) = "true"
  BY <1>1, <1>2, <1>4, <1>5, FilterMessagesIs
<1>7. m.typeUrl = f.type /\ \A w \in ToSet(f.values) : HasValue(m, w)
  BY <1>5, <1>6 DEF MessageWanted, FilterList
<1>8. JsonContains(m, Nested(f.values))
  BY <1>1, <1>3, <1>7, ContainsWanted
<1>9. NamedBy(b, MessageFilterToQueryEntry(f))
  BY <1>7, <1>8 DEF NamedBy, MessageFilterToQueryEntry
<1> QED
  BY <1>1, <1>9

(* The same of an event handler.                                           *)
LEMMA EventsAreNamed ==
    ASSUME NEW h, h.kind = "Event", Supported(h), ~HasQuery(h), Asked(h),
           NEW b, IsBlock(b), Wants(h, b)
    PROVE  \E e \in entries : NamedBy(b, e)
<1>1. /\ FilterList(h) # {} /\ FilterList(h) = ToSet(h.filters)
      /\ h.filters \in Seq(ToSet(h.filters))
      /\ \A f \in FilterList(h) :
            Queryable(f.messageFilter) /\ EventFilterToQueryEntry(f) \in entries
  BY DEF Supported, Asked, NothingToFilterOn
<1>2. PICK v \in b.events : FilterEvents(v, h.filters) = "true"
  BY DEF Wants
<1>3. IsEvent(v)
  BY DEF IsBlock
<1>4. h.filters # <<>> /\ \A i \in 1..Len(h.filters) : h.filters[i] \in FilterList(h)
  BY <1>1 DEF ToSet
<1>5. \A f \in FilterList(h) :
        /\ FilterEvent(v, f) \in Verdicts
        /\ FilterEvent(v, f) = "true" => EventWanted(v, f)
  BY <1>1, <1>3, FilterEventIs DEF Queryable
<1>6. PICK f \in FilterList(h) : FilterEvent(v, f) = "true"
  BY <1>1, <1>2, <1>4, <1>5, FilterEventsIs
<1>7. /\ v.type = f.type
      /\ f.messageFilter # NoFilter => v.msg # <<>> /\ MessageWanted(v.msg[1], f.messageFilter)
  BY <1>5, <1>6 DEF EventWanted, FilterList
<1>8. ASSUME f.messageFilter.type # NoEntryType
      PROVE  /\ v.msg # <<>> /\ v.msg[1].typeUrl = f.messageFilter.type
             /\ JsonContains(v.msg[1], Nested(f.messageFilter.values))
  <2>1. f.messageFilter # NoFilter
    <3>1. NoFilter.type = NoEntryType
      BY DEF NoFilter, NoEntryType
    <3> QED
      BY <1>8, <3>1
  <2>2. v.msg # <<>> /\ MessageWanted(v.msg[1], f.messageFilter)
    BY <1>7, <2>1
  <2>3. IsMessage(v.msg[1])
    BY <1>3, <2>2 DEF IsEvent
  <2>4. /\ v.msg[1].typeUrl = f.messageFilter.type
        /\ \A w \in ToSet(f.messageFilter.values) : HasValue(v.msg[1], w)
    BY <2>1, <2>2 DEF MessageWanted
  <2> QED
    BY <1>1, <2>2, <2>3, <2>4, ContainsWanted
<1>9. NamedBy(b, EventFilterToQueryEntry(f))
  BY <1>7, <1>8 DEF NamedBy, EventFilterToQueryEntry
<1> QED
  BY <1>1, <1>9

(* A block a block handler wants is on a modulo that is looked at.         *)
LEMMA ModulosAreFetched ==
    ASSUME NEW h \in ToSet(project), h.kind = "Block", Supported(h), ~HasQuery(h), Asked(h),
           NEW b, Wants(h, b)
    PROVE  \E n \in Modulos \ {NoModulo, 0} : b.height % n = 0
<1>1. /\ FilterList(h) # {} /\ FilterList(h) = ToSet(h.filters) /\ ~h.custom
      /\ \A f \in FilterList(h) : f.modulo \notin {NoModulo, 0}
  BY DEF Supported, Asked, NothingToFilterOn
<1>2. h.filters # <<>>
  BY <1>1 DEF ToSet
<1>3. PICK f \in ToSet(h.filters) : FilterBlock(b.height, f.modulo)
  BY <1>2 DEF Wants
<1>4. f.modulo \in Modulos
  BY <1>1, <1>3 DEF Modulos
<1> QED
  BY <1>1, <1>3, <1>4 DEF FilterBlock

(* DictionaryQuery.NoWantedBlockSkipped: whatever handlers of a supported  *)
(* project ask for, in whatever number and order, a block that holds it is *)
(* fetched.                                                                *)
THEOREM DictionaryMissesNothing ==
    QuerySpec => [](SupportedProject(project) /\ IsBlock(block) => NoWantedBlockSkipped)
<1>1. QueryInit => QueryInv
  <2> SUFFICES ASSUME QueryInit PROVE QueryInv
    OBVIOUS
  <2>1. /\ project \in Seq(ToSet(project)) /\ at = 1 /\ entries = {} /\ answer = "building"
    BY ProjectsAssumption DEF QueryInit
  <2>2. \A k \in 1..Len(project) : ~(k < at)
    BY <2>1
  <2> QED
    BY <2>1, <2>2 DEF QueryInv
<1>2. QueryInv => (SupportedProject(project) /\ IsBlock(block) => NoWantedBlockSkipped)
  <2> SUFFICES ASSUME QueryInv, SupportedProject(project), IsBlock(block),
                      answer # "building", NEW k \in 1..Len(project),
                      ~HasQuery(project[k]), Wants(project[k], block)
               PROVE  Fetched(block)
    BY DEF NoWantedBlockSkipped
  <2>1. CASE entries = {}
    BY <2>1 DEF Fetched
  <2>2. CASE entries # {}
    <3> DEFINE h == project[k]
    <3>1. h \in ToSet(project) /\ \A j \in 1..Len(project) : project[j] \in ToSet(project)
      BY DEF QueryInv, ToSet
    <3>2. Supported(h) /\ Asked(h)
      <4>1. answer = "entries" /\ k < at
        BY <2>2 DEF QueryInv
      <4> QED
        BY <3>1, <4>1 DEF QueryInv, SupportedProject
    <3>3. ~FilteredTx(h)
      BY <2>2, <3>1 DEF QueryInv, SupportedProject
    <3> HIDE DEF h
    <3>4. ~HasQuery(h) /\ Wants(h, block)
      BY DEF h
    <3>5. h.kind # "Transaction"
      BY <3>2, <3>3, <3>4 DEF FilteredTx, Asked, NothingToFilterOn
    <3>6. CASE h.kind = "Message"
      BY <3>2, <3>4, <3>6, MessagesAreNamed DEF Fetched
    <3>7. CASE h.kind = "Event"
      BY <3>2, <3>4, <3>7, EventsAreNamed DEF Fetched
    <3>8. CASE h.kind = "Block"
      BY <3>1, <3>2, <3>4, <3>8, ModulosAreFetched DEF Fetched
    <3> QED
      BY <3>2, <3>5, <3>6, <3>7, <3>8 DEF Supported
  <2> QED
    BY <2>1, <2>2
<1> QED
  BY <1>1, <1>2, QueryInvStep, PTL DEF QuerySpec

=============================================================================
