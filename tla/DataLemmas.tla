----------------------------- MODULE DataLemmas -----------------------------
(***************************************************************************)
(* Lemmas on data that several proofs rest on.                             *)
(***************************************************************************)
EXTENDS Integers, Sequences, SequencesExt, SequenceTheorems, WellFoundedInduction, TLAPS

(* A set of natural numbers has a least member: what induction over data   *)
(* rests on here.                                                          *)
LEMMA LeastNat ==
    ASSUME NEW T \in SUBSET Nat, T # {}
    PROVE  \E x \in T : \A y \in T : x <= y
<1> DEFINE R == {ss \in Nat \X Nat : ss[1] < ss[2]}
<1>1. IsWellFoundedOn(R, Nat)
  BY NatLessThanWellFounded DEF OpToRel
<1> HIDE DEF R
<1>2. PICK x \in T : \A y \in T : ~(<<y, x>> \in R)
  BY <1>1, WFMin
<1>3. ASSUME NEW y \in T
      PROVE  x <= y
  <2>1. ~(y < x)
    <3>1. <<y, x>> \in Nat \X Nat
      OBVIOUS
    <3> QED
      BY <1>2, <3>1 DEF R
  <2> QED
    BY <2>1
<1> QED
  BY <1>3

(* Induction over the natural numbers, for a property that is a set.       *)
LEMMA NatSetInduction ==
    ASSUME NEW T, 0 \in T, \A n \in Nat : n \in T => n + 1 \in T
    PROVE  \A n \in Nat : n \in T
<1> DEFINE Left == {n \in Nat : n \notin T}
<1> SUFFICES ASSUME Left # {} PROVE FALSE
  OBVIOUS
<1>1. PICK n \in Left : \A k \in Left : n <= k
  <2>1. Left \in SUBSET Nat
    OBVIOUS
  <2> HIDE DEF Left
  <2> QED
    BY <2>1, LeastNat
<1>2. n # 0 /\ n \in Nat
  OBVIOUS
<1>3. n - 1 \in Nat /\ n - 1 \notin Left /\ (n - 1) + 1 = n
  <2>1. n - 1 \in Nat /\ ~(n <= n - 1) /\ (n - 1) + 1 = n
    BY <1>2
  <2> QED
    BY <1>1, <2>1
<1> QED
  BY <1>2, <1>3

-----------------------------------------------------------------------------
(* Concatenation, as an operator that stays folded in equations.           *)
Cat(s, t) == s \o t

LEMMA CatIs ==
    ASSUME NEW S, NEW s \in Seq(S), NEW t \in Seq(S)
    PROVE  /\ Cat(s, t) \in Seq(S)
           /\ Len(s) \in Nat /\ Len(t) \in Nat /\ Len(Cat(s, t)) = Len(s) + Len(t)
           /\ \A k \in 1..Len(s) : Cat(s, t)[k] = s[k]
           /\ \A k \in 1..(Len(s) + Len(t)) : k > Len(s) =>
                 k - Len(s) \in 1..Len(t) /\ Cat(s, t)[k] = t[k - Len(s)]
BY DEF Cat

LEMMA CatEmpty ==
    ASSUME NEW S, NEW s \in Seq(S)
    PROVE  Cat(s, <<>>) = s /\ Cat(<<>>, s) = s
BY ConcatEmptySeq DEF Cat

LEMMA CatAssociative ==
    ASSUME NEW S, NEW s \in Seq(S), NEW t \in Seq(S), NEW u \in Seq(S)
    PROVE  Cat(Cat(s, t), u) = Cat(s, Cat(t, u))
<1>1. (s \o t) \o u = s \o (t \o u)
  BY ConcatAssociative
<1> QED
  BY <1>1 DEF Cat

-----------------------------------------------------------------------------
(* FlattenSeq.  Its recursion is well defined: the partial results exist   *)
(* for every number of lists.                                              *)
Partial(f, ss, n) ==
    f = [i \in 1..n |-> IF i = 1 THEN ss[i] ELSE f[i - 1] \o ss[i]]

LEMMA PartialExists ==
    ASSUME NEW ss, NEW n \in Nat
    PROVE  \E f : Partial(f, ss, n)
<1> DEFINE T == {k \in Nat : \E f : Partial(f, ss, k)}
<1>1. 0 \in T
  <2>1. Partial([i \in 1..0 |-> ss[i]], ss, 0)
    BY DEF Partial
  <2> QED
    BY <2>1
<1>2. ASSUME NEW k \in Nat, k \in T PROVE k + 1 \in T
  <2>1. PICK f : Partial(f, ss, k)
    BY <1>2
  <2> DEFINE Last1 == IF k + 1 = 1 THEN ss[k + 1] ELSE f[k] \o ss[k + 1]
             g == [i \in 1..(k + 1) |-> IF i = k + 1 THEN Last1 ELSE f[i]]
  <2>2. \A i \in 1..k : f[i] = IF i = 1 THEN ss[i] ELSE f[i - 1] \o ss[i]
    BY <2>1 DEF Partial
  <2>3. \A i \in 1..k : g[i] = f[i]
    OBVIOUS
  <2>4. ASSUME NEW i \in 1..(k + 1)
        PROVE  g[i] = IF i = 1 THEN ss[i] ELSE g[i - 1] \o ss[i]
    <3>1. CASE i = k + 1
      <4>1. g[i] = Last1 /\ (i # 1 => i - 1 = k /\ k \in 1..k)
        BY <3>1
      <4> HIDE DEF g
      <4>2. i # 1 => g[i - 1] = f[k]
        BY <2>3, <4>1
      <4> QED
        BY <3>1, <4>1, <4>2
    <3>2. CASE i # k + 1
      <4>1. i \in 1..k /\ (i # 1 => i - 1 \in 1..k)
        BY <3>2
      <4> HIDE DEF g
      <4> QED
        BY <2>2, <2>3, <4>1
    <3> QED
      BY <3>1, <3>2
  <2>5. Partial(g, ss, k + 1)
    <3>1. DOMAIN g = 1..(k + 1) /\ g = [i \in 1..(k + 1) |-> g[i]]
      OBVIOUS
    <3> HIDE DEF g
    <3> QED
      BY <2>4, <3>1 DEF Partial
  <2> QED
    BY <2>5
<1> HIDE DEF T
<1>3. n \in T
  BY <1>1, <1>2, NatSetInduction
<1> QED
  BY <1>3 DEF T

(* Flattening n lists, n > 0, gives the n-th partial result.               *)
LEMMA FlattenIsPartial ==
    ASSUME NEW S, NEW ss \in Seq(S), Len(ss) # 0
    PROVE  \E f : /\ f[1] = ss[1]
                  /\ \A i \in 2..Len(ss) : f[i] = f[i - 1] \o ss[i]
                  /\ FlattenSeq(ss) = f[Len(ss)]
<1> DEFINE h == CHOOSE f : f = [i \in 1..Len(ss) |-> IF i = 1 THEN ss[i] ELSE f[i - 1] \o ss[i]]
<1>1. Len(ss) \in Nat
  OBVIOUS
<1>2. \E f : f = [i \in 1..Len(ss) |-> IF i = 1 THEN ss[i] ELSE f[i - 1] \o ss[i]]
  BY <1>1, PartialExists DEF Partial
<1>3. Partial(h, ss, Len(ss))
  BY <1>2 DEF Partial
<1>4. FlattenSeq(ss) = h[Len(ss)]
  BY DEF FlattenSeq
<1> HIDE DEF h
<1>5. h[1] = ss[1]
  BY <1>1, <1>3 DEF Partial
<1>6. ASSUME NEW i \in 2..Len(ss) PROVE h[i] = h[i - 1] \o ss[i]
  <2>1. i \in 1..Len(ss) /\ i # 1
    BY <1>1
  <2> QED
    BY <1>3, <2>1 DEF Partial
<1> QED
  BY <1>4, <1>5, <1>6

LEMMA FlattenEmpty == ASSUME NEW ss, Len(ss) = 0, NEW S, ss \in Seq(S) PROVE FlattenSeq(ss) = <<>>
BY DEF FlattenSeq

(* One list more is appended.                                              *)
LEMMA FlattenNext ==
    ASSUME NEW S, NEW ss \in Seq(Seq(S)), NEW tt \in Seq(Seq(S)), Len(tt) = Len(ss) + 1,
           \A i \in 1..Len(ss) : tt[i] = ss[i]
    PROVE  FlattenSeq(tt) = Cat(FlattenSeq(ss), tt[Len(tt)])
<1> DEFINE n == Len(ss)
<1>0. n \in Nat /\ Len(tt) = n + 1 /\ Len(tt) # 0
  OBVIOUS
<1>1. PICK g : /\ g[1] = tt[1] /\ \A i \in 2..(n + 1) : g[i] = g[i - 1] \o tt[i]
               /\ FlattenSeq(tt) = g[n + 1]
  BY <1>0, FlattenIsPartial
<1>2. CASE n = 0
  <2>2. FlattenSeq(ss) = <<>>
    BY <1>2, FlattenEmpty
  <2>3. tt[1] \in Seq(S)
    BY <1>0
  <2> QED
    BY <1>0, <1>1, <1>2, <2>2, <2>3, CatEmpty
<1>3. CASE n # 0
  <2>1. PICK f : /\ f[1] = ss[1] /\ \A i \in 2..n : f[i] = f[i - 1] \o ss[i]
                 /\ FlattenSeq(ss) = f[n]
    BY <1>3, FlattenIsPartial
  <2> DEFINE T == {k \in Nat : k \in 1..n => g[k] = f[k]}
  <2>2. 0 \in T
    OBVIOUS
  <2>3. ASSUME NEW k \in Nat, k \in T PROVE k + 1 \in T
    <3> SUFFICES ASSUME k + 1 \in 1..n PROVE g[k + 1] = f[k + 1]
      OBVIOUS
    <3>1. tt[k + 1] = ss[k + 1]
      OBVIOUS
    <3>2. CASE k = 0
      BY <1>0, <1>1, <2>1, <3>1, <3>2
    <3>3. CASE k # 0
      <4>1. k + 1 \in 2..n /\ k + 1 \in 2..(n + 1) /\ (k + 1) - 1 = k /\ k \in 1..n
        BY <1>0, <3>3
      <4>2. g[k + 1] = g[(k + 1) - 1] \o tt[k + 1] /\ f[k + 1] = f[(k + 1) - 1] \o ss[k + 1]
        BY <1>1, <2>1, <4>1
      <4> QED
        BY <2>3, <3>1, <4>1, <4>2
    <3> QED
      BY <3>2, <3>3
  <2> HIDE DEF T
  <2>4. n \in T
    BY <1>0, <2>2, <2>3, NatSetInduction
  <2>5. g[n] = f[n]
    BY <1>0, <1>3, <2>4 DEF T
  <2>6. g[n + 1] = g[n] \o tt[n + 1]
    <3>1. n + 1 \in 2..(n + 1) /\ (n + 1) - 1 = n
      BY <1>0, <1>3
    <3>2. g[n + 1] = g[(n + 1) - 1] \o tt[n + 1]
      BY <1>1, <3>1
    <3> QED
      BY <3>1, <3>2
  <2> QED
    BY <1>0, <1>1, <2>1, <2>5, <2>6 DEF Cat
<1> QED
  BY <1>2, <1>3

(* The first n lists.                                                      *)
Firsts(ss, n) == [i \in 1..n |-> ss[i]]

LEMMA FirstsIs ==
    ASSUME NEW S, NEW ss \in Seq(S), NEW n \in 0..Len(ss)
    PROVE  /\ Firsts(ss, n) \in Seq(S) /\ Len(Firsts(ss, n)) = n
           /\ \A i \in 1..n : Firsts(ss, n)[i] = ss[i]
<1>1. Firsts(ss, n) \in [1..n -> S] /\ n \in Nat
  BY DEF Firsts
<1> QED
  BY <1>1 DEF Firsts

LEMMA FirstsAll == ASSUME NEW S, NEW ss \in Seq(S) PROVE Firsts(ss, Len(ss)) = ss
BY DEF Firsts

(* One element more, and all of them.                                      *)
LEMMA FirstsNext ==
    ASSUME NEW S, NEW s \in Seq(S), NEW n \in Nat, n + 1 <= Len(s)
    PROVE  Firsts(s, n + 1) = Cat(Firsts(s, n), <<s[n + 1]>>)
<1> DEFINE f == Firsts(s, n)
           g == Firsts(s, n + 1)
           w == <<s[n + 1]>>
<1>0. n \in 0..Len(s) /\ n + 1 \in 0..Len(s) /\ n + 1 \in 1..Len(s)
  OBVIOUS
<1>1. f \in Seq(S) /\ Len(f) = n /\ \A i \in 1..n : f[i] = s[i]
  BY <1>0, FirstsIs
<1>2. g \in Seq(S) /\ Len(g) = n + 1 /\ \A i \in 1..(n + 1) : g[i] = s[i]
  BY <1>0, FirstsIs
<1>3. w \in Seq(S) /\ Len(w) = 1 /\ w[1] = s[n + 1]
  BY <1>0
<1> HIDE DEF f, g, w
<1>4. f \in Seq(S)
  BY <1>1
<1>5. w \in Seq(S)
  BY <1>3
<1>6. /\ Cat(f, w) \in Seq(S)
      /\ Len(f) \in Nat /\ Len(w) \in Nat /\ Len(Cat(f, w)) = Len(f) + Len(w)
      /\ \A k \in 1..Len(f) : Cat(f, w)[k] = f[k]
      /\ \A k \in 1..(Len(f) + Len(w)) : k > Len(f) =>
            k - Len(f) \in 1..Len(w) /\ Cat(f, w)[k] = w[k - Len(f)]
  BY <1>4, <1>5, CatIs
<1>7. ASSUME NEW i \in 1..(n + 1) PROVE Cat(f, w)[i] = g[i]
  <2>1. CASE i \in 1..n
    BY <1>1, <1>2, <1>6, <2>1
  <2>2. CASE i = n + 1
    <3>1. i \in 1..(Len(f) + Len(w)) /\ i > Len(f) /\ i - Len(f) = 1
      BY <1>1, <1>3, <2>2
    <3>2. Cat(f, w)[i] = w[i - Len(f)]
      BY <1>6, <3>1
    <3> QED
      BY <1>2, <1>3, <2>2, <3>1, <3>2
  <2> QED
    BY <2>1, <2>2
<1>8. Len(Cat(f, w)) = n + 1
  BY <1>1, <1>3, <1>6
<1>9. Cat(f, w) = g
  BY <1>2, <1>6, <1>7, <1>8, SeqEqual
<1> QED
  BY <1>9 DEF f, g, w

LEMMA FlattenFirsts ==
    ASSUME NEW S, NEW ss \in Seq(Seq(S)), NEW n \in Nat, n + 1 <= Len(ss)
    PROVE  FlattenSeq(Firsts(ss, n + 1)) = Cat(FlattenSeq(Firsts(ss, n)), ss[n + 1])
<1>1. n \in 0..Len(ss) /\ n + 1 \in 0..Len(ss)
  OBVIOUS
<1>2. /\ Firsts(ss, n) \in Seq(Seq(S)) /\ Len(Firsts(ss, n)) = n
      /\ \A i \in 1..n : Firsts(ss, n)[i] = ss[i]
  BY <1>1, FirstsIs
<1>3. /\ Firsts(ss, n + 1) \in Seq(Seq(S)) /\ Len(Firsts(ss, n + 1)) = n + 1
      /\ \A i \in 1..(n + 1) : Firsts(ss, n + 1)[i] = ss[i]
  BY <1>1, FirstsIs
<1>4. \A i \in 1..n : Firsts(ss, n + 1)[i] = Firsts(ss, n)[i]
  BY <1>2, <1>3
<1>5. FlattenSeq(Firsts(ss, n + 1)) = Cat(FlattenSeq(Firsts(ss, n)), Firsts(ss, n + 1)[n + 1])
  BY <1>2, <1>3, <1>4, FlattenNext
<1>6. Firsts(ss, n + 1)[n + 1] = ss[n + 1]
  BY <1>3
<1> QED
  BY <1>5, <1>6

LEMMA FlattenNone == ASSUME NEW ss PROVE FlattenSeq(Firsts(ss, 0)) = <<>>
<1>1. Firsts(ss, 0) = <<>> /\ <<>> \in Seq(Nat) /\ Len(<<>>) = 0
  BY DEF Firsts
<1> QED
  BY <1>1, FlattenEmpty

(* Flattening lists over S gives a list over S.                            *)
LEMMA FlattenType ==
    ASSUME NEW S, NEW ss \in Seq(Seq(S))
    PROVE  FlattenSeq(ss) \in Seq(S)
<1> DEFINE T == {n \in Nat : n <= Len(ss) => FlattenSeq(Firsts(ss, n)) \in Seq(S)}
<1>1. 0 \in T
  <2>1. <<>> \in Seq(S)
    OBVIOUS
  <2> QED
    BY <2>1, FlattenNone
<1>2. ASSUME NEW n \in Nat, n \in T PROVE n + 1 \in T
  <2> SUFFICES ASSUME n + 1 <= Len(ss) PROVE FlattenSeq(Firsts(ss, n + 1)) \in Seq(S)
    OBVIOUS
  <2>1. FlattenSeq(Firsts(ss, n)) \in Seq(S) /\ ss[n + 1] \in Seq(S)
    BY <1>2
  <2>2. Cat(FlattenSeq(Firsts(ss, n)), ss[n + 1]) \in Seq(S)
    BY <2>1, CatIs
  <2> QED
    BY <2>2, FlattenFirsts
<1>3. Len(ss) \in Nat
  OBVIOUS
<1> HIDE DEF T
<1>4. Len(ss) \in T
  BY <1>1, <1>2, <1>3, NatSetInduction
<1> QED
  BY <1>3, <1>4, FirstsAll DEF T

(* When all lists but one are empty, that one is left.                     *)
LEMMA FlattenSingle ==
    ASSUME NEW S, NEW ss \in Seq(Seq(S)), NEW t \in 1..Len(ss),
           \A u \in 1..Len(ss) : u # t => ss[u] = <<>>
    PROVE  FlattenSeq(ss) = ss[t]
<1> DEFINE T == {n \in Nat : n <= Len(ss) =>
                    FlattenSeq(Firsts(ss, n)) = IF n < t THEN <<>> ELSE ss[t]}
<1>0. Len(ss) \in Nat /\ t \in Nat /\ ss[t] \in Seq(S)
  OBVIOUS
<1>1. 0 \in T
  BY FlattenNone
<1>2. ASSUME NEW n \in Nat, n \in T PROVE n + 1 \in T
  <2> SUFFICES ASSUME n + 1 <= Len(ss)
               PROVE  FlattenSeq(Firsts(ss, n + 1)) = IF n + 1 < t THEN <<>> ELSE ss[t]
    OBVIOUS
  <2>1. FlattenSeq(Firsts(ss, n)) = IF n < t THEN <<>> ELSE ss[t]
    BY <1>0, <1>2
  <2>2. FlattenSeq(Firsts(ss, n + 1)) = Cat(FlattenSeq(Firsts(ss, n)), ss[n + 1])
    BY FlattenFirsts
  <2>3. ss[n + 1] \in Seq(S) /\ (n + 1 # t => ss[n + 1] = <<>>)
    BY <1>0
  <2>4. Cat(<<>>, <<>>) = <<>> /\ Cat(<<>>, ss[t]) = ss[t] /\ Cat(ss[t], <<>>) = ss[t]
    <3>1. <<>> \in Seq(S)
      OBVIOUS
    <3> QED
      BY <1>0, <3>1, CatEmpty
  <2>5. CASE n + 1 < t
    BY <1>0, <2>1, <2>2, <2>3, <2>4, <2>5
  <2>6. CASE n + 1 = t
    BY <1>0, <2>1, <2>2, <2>4, <2>6
  <2>7. CASE n + 1 > t
    BY <1>0, <2>1, <2>2, <2>3, <2>4, <2>7
  <2> QED
    BY <1>0, <2>5, <2>6, <2>7
<1> HIDE DEF T
<1>3. Len(ss) \in T
  BY <1>0, <1>1, <1>2, NatSetInduction
<1> QED
  BY <1>0, <1>3, FirstsAll DEF T

-----------------------------------------------------------------------------
(* Prefixes.                                                               *)

LEMMA PrefixIs ==
    ASSUME NEW S, NEW s \in Seq(S), NEW t \in Seq(S)
    PROVE  IsPrefix(s, t) <=> Len(s) <= Len(t) /\ \A i \in 1..Len(s) : s[i] = t[i]
<1>1. Len(s) \in Nat /\ Len(t) \in Nat
  OBVIOUS
<1>2. SubSeq(s, 1, Len(s)) = [i \in 1..Len(s) |-> s[i]]
  BY <1>1
<1>3. Len(s) <= Len(t) => SubSeq(t, 1, Len(s)) = [i \in 1..Len(s) |-> t[i]]
  BY <1>1
<1> QED
  BY <1>2, <1>3 DEF IsPrefix

LEMMA PrefixTrans ==
    ASSUME NEW S, NEW s \in Seq(S), NEW t \in Seq(S), NEW u \in Seq(S),
           IsPrefix(s, t), IsPrefix(t, u)
    PROVE  IsPrefix(s, u)
<1>1. Len(s) \in Nat /\ Len(t) \in Nat /\ Len(u) \in Nat
  OBVIOUS
<1>2. Len(s) <= Len(t) /\ \A i \in 1..Len(s) : s[i] = t[i]
  BY PrefixIs
<1>3. Len(t) <= Len(u) /\ \A i \in 1..Len(t) : t[i] = u[i]
  BY PrefixIs
<1>4. Len(s) <= Len(u) /\ \A i \in 1..Len(s) : s[i] = u[i]
  BY <1>1, <1>2, <1>3
<1> QED
  BY <1>4, PrefixIs

LEMMA PrefixCat ==
    ASSUME NEW S, NEW s \in Seq(S), NEW t \in Seq(S)
    PROVE  IsPrefix(s, Cat(s, t))
<1>1. /\ Cat(s, t) \in Seq(S)
      /\ Len(s) \in Nat /\ Len(t) \in Nat /\ Len(Cat(s, t)) = Len(s) + Len(t)
      /\ \A k \in 1..Len(s) : Cat(s, t)[k] = s[k]
      /\ \A k \in 1..(Len(s) + Len(t)) : k > Len(s) =>
            k - Len(s) \in 1..Len(t) /\ Cat(s, t)[k] = t[k - Len(s)]
  BY CatIs
<1>2. Len(s) <= Len(Cat(s, t))
  BY <1>1
<1> QED
  BY <1>1, <1>2, PrefixIs

LEMMA CatPrefix ==
    ASSUME NEW S, NEW s \in Seq(S), NEW t \in Seq(S), NEW u \in Seq(S), IsPrefix(t, u)
    PROVE  IsPrefix(Cat(s, t), Cat(s, u))
<1>1. Len(t) <= Len(u) /\ \A i \in 1..Len(t) : t[i] = u[i]
  BY PrefixIs
<1>2. /\ Cat(s, t) \in Seq(S) /\ Cat(s, u) \in Seq(S) /\ Len(Cat(s, t)) <= Len(Cat(s, u))
      /\ Len(s) \in Nat /\ Len(t) \in Nat /\ Len(u) \in Nat
      /\ Len(Cat(s, t)) = Len(s) + Len(t)
  BY <1>1, CatIs
<1>3. ASSUME NEW i \in 1..(Len(s) + Len(t)) PROVE Cat(s, t)[i] = Cat(s, u)[i]
  <2>1. CASE i \in 1..Len(s)
    BY <2>1, CatIs
  <2>2. CASE i \notin 1..Len(s)
    <3>1. i > Len(s) /\ i \in 1..(Len(s) + Len(u)) /\ i - Len(s) \in 1..Len(t)
      BY <1>1, <1>2, <2>2
    <3>2. Cat(s, t)[i] = t[i - Len(s)] /\ Cat(s, u)[i] = u[i - Len(s)]
      BY <3>1, CatIs
    <3> QED
      BY <1>1, <3>1, <3>2
  <2> QED
    BY <2>1, <2>2
<1> QED
  BY <1>2, <1>3, PrefixIs

LEMMA FirstsPrefix ==
    ASSUME NEW S, NEW s \in Seq(S), NEW n \in 0..Len(s)
    PROVE  IsPrefix(Firsts(s, n), s)
<1>1. /\ Firsts(s, n) \in Seq(S) /\ Len(Firsts(s, n)) = n
      /\ \A i \in 1..n : Firsts(s, n)[i] = s[i]
  BY FirstsIs
<1>2. n <= Len(s)
  OBVIOUS
<1> QED
  BY <1>1, <1>2, PrefixIs

(* Flattening fewer lists gives a prefix.                                  *)
LEMMA FlattenPrefix ==
    ASSUME NEW S, NEW ss \in Seq(Seq(S)), NEW n \in 0..Len(ss)
    PROVE  IsPrefix(FlattenSeq(Firsts(ss, n)), FlattenSeq(ss))
<1> DEFINE F(k) == FlattenSeq(Firsts(ss, k))
           T == {k \in Nat : n + k <= Len(ss) => IsPrefix(F(n), F(n + k))}
<1>0. Len(ss) \in Nat /\ n \in Nat /\ n <= Len(ss)
  OBVIOUS
<1>1. ASSUME NEW k \in 0..Len(ss) PROVE F(k) \in Seq(S)
  BY <1>1, FirstsIs, FlattenType
<1>2. 0 \in T
  <2>1. F(n) \in Seq(S) /\ n + 0 = n
    BY <1>0, <1>1
  <2>2. IsPrefix(F(n), F(n))
    BY <2>1, PrefixIs
  <2> QED
    BY <2>1, <2>2
<1>3. ASSUME NEW k \in Nat, k \in T PROVE k + 1 \in T
  <2> SUFFICES ASSUME n + (k + 1) <= Len(ss) PROVE IsPrefix(F(n), F(n + (k + 1)))
    OBVIOUS
  <2>1. n \in 0..Len(ss) /\ n + k \in 0..Len(ss) /\ n + (k + 1) = (n + k) + 1
        /\ (n + k) + 1 \in 0..Len(ss) /\ n + k \in Nat /\ (n + k) + 1 \in 1..Len(ss)
    BY <1>0
  <2>2. F(n) \in Seq(S) /\ F(n + k) \in Seq(S) /\ F((n + k) + 1) \in Seq(S) /\ ss[(n + k) + 1] \in Seq(S)
    BY <1>1, <2>1
  <2>3. F((n + k) + 1) = Cat(F(n + k), ss[(n + k) + 1])
    BY <2>1, FlattenFirsts
  <2>4. IsPrefix(F(n + k), F((n + k) + 1))
    BY <2>2, <2>3, PrefixCat
  <2>5. IsPrefix(F(n), F(n + k))
    BY <1>3, <2>1
  <2> QED
    BY <2>1, <2>2, <2>4, <2>5, PrefixTrans
<1>4. Len(ss) - n \in Nat /\ n + (Len(ss) - n) = Len(ss)
  BY <1>0
<1> HIDE DEF T
<1>5. Len(ss) - n \in T
  BY <1>2, <1>3, <1>4, NatSetInduction
<1>6. IsPrefix(F(n), F(Len(ss)))
  BY <1>0, <1>4, <1>5 DEF T
<1> QED
  BY <1>6, FirstsAll

-----------------------------------------------------------------------------
(* A list followed by the first elements of another, or by the first of    *)
(* several lists: what a loop over it has passed so far.                   *)
Upto(x, s, n) == Cat(x, Firsts(s, n))
UptoLists(x, ss, n) == Cat(x, FlattenSeq(Firsts(ss, n)))

LEMMA UptoIs ==
    ASSUME NEW S, NEW x \in Seq(S), NEW s \in Seq(S)
    PROVE  /\ Upto(x, s, 0) = x
           /\ Upto(x, s, Len(s)) = Cat(x, s)
           /\ Upto(x, s, Len(s)) \in Seq(S)
<1>1. Firsts(s, 0) = <<>>
  BY DEF Firsts
<1>2. Cat(x, <<>>) = x /\ Cat(x, s) \in Seq(S)
  BY CatEmpty, CatIs
<1> QED
  BY <1>1, <1>2, FirstsAll DEF Upto

LEMMA UptoPrefix ==
    ASSUME NEW S, NEW x \in Seq(S), NEW s \in Seq(S), NEW n \in 0..Len(s)
    PROVE  Upto(x, s, n) \in Seq(S) /\ IsPrefix(Upto(x, s, n), Upto(x, s, Len(s)))
<1>1. Firsts(s, n) \in Seq(S) /\ IsPrefix(Firsts(s, n), s)
  BY FirstsIs, FirstsPrefix
<1>2. Cat(x, Firsts(s, n)) \in Seq(S)
  BY <1>1, CatIs
<1>3. IsPrefix(Cat(x, Firsts(s, n)), Cat(x, s))
  BY <1>1, CatPrefix
<1> QED
  BY <1>2, <1>3, FirstsAll DEF Upto

LEMMA UptoNext ==
    ASSUME NEW S, NEW x \in Seq(S), NEW s \in Seq(S), NEW n \in Nat, n + 1 <= Len(s)
    PROVE  Upto(x, s, n + 1) = Cat(Upto(x, s, n), <<s[n + 1]>>)
<1> DEFINE f == Firsts(s, n)
           w == <<s[n + 1]>>
<1>0. n \in 0..Len(s) /\ n + 1 \in 1..Len(s)
  OBVIOUS
<1>1. Firsts(s, n + 1) = Cat(f, w)
  BY FirstsNext
<1>2. f \in Seq(S) /\ w \in Seq(S)
  BY <1>0, FirstsIs
<1> HIDE DEF f, w
<1>3. Cat(Cat(x, f), w) = Cat(x, Cat(f, w))
  BY <1>2, CatAssociative
<1>4. Cat(x, Firsts(s, n + 1)) = Cat(Cat(x, f), w)
  BY <1>1, <1>3
<1> QED
  BY <1>4 DEF Upto, f, w

LEMMA UptoListsIs ==
    ASSUME NEW S, NEW x \in Seq(S), NEW ss \in Seq(Seq(S))
    PROVE  /\ UptoLists(x, ss, 0) = x
           /\ UptoLists(x, ss, Len(ss)) = Cat(x, FlattenSeq(ss))
           /\ UptoLists(x, ss, Len(ss)) \in Seq(S)
<1>1. FlattenSeq(Firsts(ss, 0)) = <<>>
  BY FlattenNone
<1>2. FlattenSeq(ss) \in Seq(S)
  BY FlattenType
<1>3. Cat(x, <<>>) = x /\ Cat(x, FlattenSeq(ss)) \in Seq(S)
  BY <1>2, CatEmpty, CatIs
<1> QED
  BY <1>1, <1>3, FirstsAll DEF UptoLists

LEMMA UptoListsPrefix ==
    ASSUME NEW S, NEW x \in Seq(S), NEW ss \in Seq(Seq(S)), NEW n \in 0..Len(ss)
    PROVE  UptoLists(x, ss, n) \in Seq(S) /\ IsPrefix(UptoLists(x, ss, n), UptoLists(x, ss, Len(ss)))
<1> DEFINE f == FlattenSeq(Firsts(ss, n))
           g == FlattenSeq(ss)
<1>0. Firsts(ss, n) \in Seq(Seq(S))
  BY FirstsIs
<1>1. f \in Seq(S) /\ g \in Seq(S)
  BY <1>0, FlattenType
<1>2. IsPrefix(f, g)
  BY FlattenPrefix
<1> HIDE DEF f, g
<1>3. Cat(x, f) \in Seq(S) /\ IsPrefix(Cat(x, f), Cat(x, g))
  BY <1>1, <1>2, CatIs, CatPrefix
<1> QED
  BY <1>3, FirstsAll DEF UptoLists, f, g

LEMMA UptoListsNext ==
    ASSUME NEW S, NEW x \in Seq(S), NEW ss \in Seq(Seq(S)), NEW n \in Nat, n + 1 <= Len(ss)
    PROVE  UptoLists(x, ss, n + 1) = Cat(UptoLists(x, ss, n), ss[n + 1])
<1> DEFINE f == FlattenSeq(Firsts(ss, n))
           w == ss[n + 1]
<1>0. n \in 0..Len(ss) /\ n + 1 \in 1..Len(ss)
  OBVIOUS
<1>1. FlattenSeq(Firsts(ss, n + 1)) = Cat(f, w)
  BY FlattenFirsts
<1>2. f \in Seq(S)
  BY <1>0, FirstsIs, FlattenType
<1>3. w \in Seq(S)
  BY <1>0
<1> HIDE DEF f, w
<1>4. Cat(Cat(x, f), w) = Cat(x, Cat(f, w))
  BY <1>2, <1>3, CatAssociative
<1>5. Cat(x, FlattenSeq(Firsts(ss, n + 1))) = Cat(Cat(x, f), w)
  BY <1>1, <1>4
<1> QED
  BY <1>5 DEF UptoLists, f, w

-----------------------------------------------------------------------------
(* u is s with a function applied to every element.                        *)
Maps(f, s, u) == Len(u) = Len(s) /\ \A k \in 1..Len(s) : u[k] = f[s[k]]

LEMMA MapsCat ==
    ASSUME NEW S, NEW R, NEW f, NEW s \in Seq(S), NEW t \in Seq(S), NEW u \in Seq(R),
           NEW v \in Seq(R), Maps(f, s, u), Maps(f, t, v)
    PROVE  Maps(f, Cat(s, t), Cat(u, v))
<1>0. /\ Cat(s, t) \in Seq(S)
      /\ Len(s) \in Nat /\ Len(t) \in Nat /\ Len(Cat(s, t)) = Len(s) + Len(t)
      /\ \A k \in 1..Len(s) : Cat(s, t)[k] = s[k]
      /\ \A k \in 1..(Len(s) + Len(t)) : k > Len(s) =>
            k - Len(s) \in 1..Len(t) /\ Cat(s, t)[k] = t[k - Len(s)]
  BY CatIs
<1>3. /\ Cat(u, v) \in Seq(R)
      /\ Len(u) \in Nat /\ Len(v) \in Nat /\ Len(Cat(u, v)) = Len(u) + Len(v)
      /\ \A k \in 1..Len(u) : Cat(u, v)[k] = u[k]
      /\ \A k \in 1..(Len(u) + Len(v)) : k > Len(u) =>
            k - Len(u) \in 1..Len(v) /\ Cat(u, v)[k] = v[k - Len(u)]
  BY CatIs
<1>1. /\ Len(Cat(s, t)) = Len(s) + Len(t) /\ Len(Cat(u, v)) = Len(s) + Len(t)
      /\ Len(s) \in Nat /\ Len(t) \in Nat /\ Len(u) = Len(s) /\ Len(v) = Len(t)
  BY <1>0, <1>3 DEF Maps
<1>2. ASSUME NEW k \in 1..(Len(s) + Len(t)) PROVE Cat(u, v)[k] = f[Cat(s, t)[k]]
  <2>1. CASE k \in 1..Len(s)
    <3>1. Cat(s, t)[k] = s[k] /\ Cat(u, v)[k] = u[k]
      BY <1>0, <1>3, <1>1, <2>1
    <3> QED
      BY <2>1, <3>1 DEF Maps
  <2>2. CASE k \notin 1..Len(s)
    <3>1. k - Len(s) \in 1..Len(t) /\ k > Len(s)
      BY <1>1, <2>2
    <3>2. Cat(s, t)[k] = t[k - Len(s)]
      BY <1>0, <3>1
    <3>3. Cat(u, v)[k] = v[k - Len(s)]
      <4>1. k \in 1..(Len(u) + Len(v)) /\ k > Len(u)
        BY <1>1, <3>1
      <4>2. Cat(u, v)[k] = v[k - Len(u)]
        BY <1>3, <4>1
      <4> QED
        BY <1>1, <4>2
    <3> QED
      BY <3>1, <3>2, <3>3 DEF Maps
  <2> QED
    BY <2>1, <2>2
<1> QED
  BY <1>1, <1>2 DEF Maps

LEMMA MapsFlatten ==
    ASSUME NEW S, NEW R, NEW f, NEW ss \in Seq(Seq(S)), NEW uu \in Seq(Seq(R)),
           Len(uu) = Len(ss), \A t \in 1..Len(ss) : Maps(f, ss[t], uu[t])
    PROVE  Maps(f, FlattenSeq(ss), FlattenSeq(uu))
<1> DEFINE F(n) == FlattenSeq(Firsts(ss, n))
           G(n) == FlattenSeq(Firsts(uu, n))
           T == {n \in Nat : n <= Len(ss) => Maps(f, F(n), G(n))}
<1>0. Len(ss) \in Nat
  OBVIOUS
<1>1. 0 \in T
  <2>1. F(0) = <<>> /\ G(0) = <<>>
    BY FlattenNone
  <2>2. Maps(f, <<>>, <<>>)
    BY DEF Maps
  <2> QED
    BY <2>1, <2>2
<1>2. ASSUME NEW n \in Nat, n \in T PROVE n + 1 \in T
  <2> SUFFICES ASSUME n + 1 <= Len(ss) PROVE Maps(f, F(n + 1), G(n + 1))
    OBVIOUS
  <2>1. /\ n \in 0..Len(ss) /\ n \in 0..Len(uu) /\ n + 1 <= Len(uu)
        /\ ss[n + 1] \in Seq(S) /\ uu[n + 1] \in Seq(R) /\ Maps(f, ss[n + 1], uu[n + 1])
    BY <1>0
  <2>2. F(n) \in Seq(S) /\ G(n) \in Seq(R)
    BY <2>1, FirstsIs, FlattenType
  <2>3. F(n + 1) = Cat(F(n), ss[n + 1])
    BY FlattenFirsts
  <2>4. G(n + 1) = Cat(G(n), uu[n + 1])
    BY <2>1, FlattenFirsts
  <2>5. Maps(f, F(n), G(n))
    BY <1>0, <1>2
  <2> HIDE DEF F, G
  <2>6. Maps(f, Cat(F(n), ss[n + 1]), Cat(G(n), uu[n + 1]))
    BY <2>1, <2>2, <2>5, MapsCat
  <2> QED
    BY <2>3, <2>4, <2>6
<1> HIDE DEF T
<1>3. Len(ss) \in T
  BY <1>0, <1>1, <1>2, NatSetInduction
<1>4. Maps(f, F(Len(ss)), G(Len(uu)))
  BY <1>0, <1>3 DEF T
<1> QED
  BY <1>4, FirstsAll

-----------------------------------------------------------------------------
(* Sorted by a relation: lists that are, one after the other, give a list  *)
(* that is.                                                                *)
Sorted(s, R) == \A p, q \in 1..Len(s) : p < q => <<s[p], s[q]>> \in R

LEMMA SortedCat ==
    ASSUME NEW S, NEW R, NEW s \in Seq(S), NEW t \in Seq(S), Sorted(s, R), Sorted(t, R),
           \A p \in 1..Len(s), q \in 1..Len(t) : <<s[p], t[q]>> \in R
    PROVE  Sorted(Cat(s, t), R)
<1>1. Len(Cat(s, t)) = Len(s) + Len(t) /\ Len(s) \in Nat /\ Len(t) \in Nat
  BY CatIs
<1>2. \A k \in 1..Len(s) : Cat(s, t)[k] = s[k]
  BY CatIs
<1>3. \A k \in 1..(Len(s) + Len(t)) : k > Len(s) =>
        k - Len(s) \in 1..Len(t) /\ Cat(s, t)[k] = t[k - Len(s)]
  BY CatIs
<1>4. ASSUME NEW p \in 1..(Len(s) + Len(t)), NEW q \in 1..(Len(s) + Len(t)), p < q
      PROVE  <<Cat(s, t)[p], Cat(s, t)[q]>> \in R
  <2>1. CASE q <= Len(s)
    BY <1>1, <1>2, <1>4, <2>1 DEF Sorted
  <2>2. CASE p <= Len(s) /\ q > Len(s)
    <3>1. p \in 1..Len(s)
      BY <1>1, <2>2
    <3> QED
      BY <1>2, <1>3, <2>2, <3>1
  <2>3. CASE p > Len(s)
    <3>1. /\ p - Len(s) \in 1..Len(t) /\ Cat(s, t)[p] = t[p - Len(s)]
          /\ q - Len(s) \in 1..Len(t) /\ Cat(s, t)[q] = t[q - Len(s)]
          /\ p - Len(s) < q - Len(s)
      BY <1>1, <1>3, <1>4, <2>3
    <3> QED
      BY <3>1 DEF Sorted
  <2>4. q <= Len(s) \/ (p <= Len(s) /\ q > Len(s)) \/ p > Len(s)
    <3>1. p \in Int /\ q \in Int /\ Len(s) \in Int
      BY <1>1
    <3> QED
      BY <3>1
  <2> QED
    BY <2>1, <2>2, <2>3, <2>4
<1> QED
  BY <1>1, <1>4 DEF Sorted

(* An element of a flattened list is one of the lists' elements.           *)
From(ss, n, x) == \E t \in 1..n : \E p \in 1..Len(ss[t]) : x = ss[t][p]

LEMMA FlattenFrom ==
    ASSUME NEW S, NEW ss \in Seq(Seq(S))
    PROVE  \A n \in Nat : n <= Len(ss) =>
             \A k \in 1..Len(FlattenSeq(Firsts(ss, n))) :
                From(ss, n, FlattenSeq(Firsts(ss, n))[k])
<1> DEFINE F(n) == FlattenSeq(Firsts(ss, n))
           T == {n \in Nat : n <= Len(ss) => \A k \in 1..Len(F(n)) : From(ss, n, F(n)[k])}
<1>0. Len(ss) \in Nat
  OBVIOUS
<1>1. 0 \in T
  <2>1. F(0) = <<>> /\ Len(<<>>) = 0
    BY FlattenNone
  <2> QED
    BY <2>1
<1>2. ASSUME NEW n \in Nat, n \in T PROVE n + 1 \in T
  <2> SUFFICES ASSUME n + 1 <= Len(ss), NEW k \in 1..Len(F(n + 1))
               PROVE  From(ss, n + 1, F(n + 1)[k])
    OBVIOUS
  <2>1. n \in 0..Len(ss) /\ ss[n + 1] \in Seq(S) /\ n + 1 \in 1..(n + 1)
    BY <1>0
  <2>2. F(n) \in Seq(S)
    BY <2>1, FirstsIs, FlattenType
  <2>3. F(n + 1) = Cat(F(n), ss[n + 1])
    BY FlattenFirsts
  <2>4. \A j \in 1..Len(F(n)) : From(ss, n, F(n)[j])
    BY <1>0, <1>2
  <2> HIDE DEF F
  <2> DEFINE a == F(n)
             c == ss[n + 1]
  <2>8. /\ Cat(a, c) \in Seq(S)
        /\ Len(a) \in Nat /\ Len(c) \in Nat /\ Len(Cat(a, c)) = Len(a) + Len(c)
        /\ \A i \in 1..Len(a) : Cat(a, c)[i] = a[i]
        /\ \A i \in 1..(Len(a) + Len(c)) : i > Len(a) =>
              i - Len(a) \in 1..Len(c) /\ Cat(a, c)[i] = c[i - Len(a)]
    BY <2>1, <2>2, CatIs
  <2> HIDE DEF a, c
  <2>9. k \in 1..(Len(a) + Len(c)) /\ F(n) = a /\ ss[n + 1] = c /\ F(n + 1) = Cat(a, c)
    BY <2>3, <2>8 DEF a, c
  <2>5. CASE k <= Len(F(n))
    <3>1. k \in 1..Len(F(n)) /\ F(n + 1)[k] = F(n)[k]
      BY <2>5, <2>8, <2>9
    <3>2. From(ss, n, F(n + 1)[k])
      BY <2>4, <3>1
    <3>3. \A t \in 1..n : t \in 1..(n + 1)
      OBVIOUS
    <3> QED
      BY <3>2, <3>3 DEF From
  <2>6. CASE k > Len(F(n))
    <3>1. k - Len(F(n)) \in 1..Len(ss[n + 1]) /\ F(n + 1)[k] = ss[n + 1][k - Len(F(n))]
      BY <2>6, <2>8, <2>9
    <3> QED
      BY <2>1, <3>1 DEF From
  <2>7. k \in Int /\ Len(F(n)) \in Int
    BY <2>8, <2>9
  <2> QED
    BY <2>5, <2>6, <2>7
<1> HIDE DEF T
<1>3. \A n \in Nat : n \in T
  BY <1>1, <1>2, NatSetInduction
<1> QED
  BY <1>3 DEF T

LEMMA FlattenSorted ==
    ASSUME NEW S, NEW R, NEW ss \in Seq(Seq(S)),
           \A t \in 1..Len(ss) : Sorted(ss[t], R),
           \A t, u \in 1..Len(ss) : t < u =>
              \A p \in 1..Len(ss[t]), q \in 1..Len(ss[u]) : <<ss[t][p], ss[u][q]>> \in R
    PROVE  Sorted(FlattenSeq(ss), R)
<1> DEFINE F(n) == FlattenSeq(Firsts(ss, n))
           T == {n \in Nat : n <= Len(ss) => Sorted(F(n), R)}
<1>0. Len(ss) \in Nat
  OBVIOUS
<1>1. 0 \in T
  <2>1. F(0) = <<>> /\ Len(<<>>) = 0
    BY FlattenNone
  <2> QED
    BY <2>1 DEF Sorted
<1>2. ASSUME NEW n \in Nat, n \in T PROVE n + 1 \in T
  <2> SUFFICES ASSUME n + 1 <= Len(ss) PROVE Sorted(F(n + 1), R)
    OBVIOUS
  <2>1. n \in 0..Len(ss) /\ n + 1 \in 1..Len(ss) /\ ss[n + 1] \in Seq(S) /\ n <= Len(ss)
    BY <1>0
  <2>2. F(n) \in Seq(S)
    BY <2>1, FirstsIs, FlattenType
  <2>3. F(n + 1) = Cat(F(n), ss[n + 1])
    BY FlattenFirsts
  <2>4. \A p \in 1..Len(F(n)) : From(ss, n, F(n)[p])
    BY <2>1, FlattenFrom
  <2>5. Sorted(F(n), R) /\ Sorted(ss[n + 1], R)
    BY <1>2, <2>1
  <2> HIDE DEF F
  <2>6. ASSUME NEW p \in 1..Len(F(n)), NEW q \in 1..Len(ss[n + 1])
        PROVE  <<F(n)[p], ss[n + 1][q]>> \in R
    <3>1. PICK t \in 1..n : \E k \in 1..Len(ss[t]) : F(n)[p] = ss[t][k]
      BY <2>4 DEF From
    <3>2. t \in 1..Len(ss) /\ t < n + 1
      BY <1>0, <2>1
    <3> QED
      BY <2>1, <3>1, <3>2
  <2>7. Sorted(Cat(F(n), ss[n + 1]), R)
    BY <2>1, <2>2, <2>5, <2>6, SortedCat
  <2> QED
    BY <2>3, <2>7
<1> HIDE DEF T
<1>3. Len(ss) \in T
  BY <1>0, <1>1, <1>2, NatSetInduction
<1>4. Sorted(F(Len(ss)), R)
  BY <1>0, <1>3 DEF T
<1> QED
  BY <1>4, FirstsAll

(* A list all of whose elements are in T is a list over T.                 *)
LEMMA ListOver ==
    ASSUME NEW S, NEW T, NEW s \in Seq(S), \A k \in 1..Len(s) : s[k] \in T
    PROVE  s \in Seq(T)
OBVIOUS

=============================================================================
