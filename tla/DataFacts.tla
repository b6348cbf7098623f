---------------------------- MODULE DataFacts ----------------------------
(***************************************************************************)
(* What appending, removing the head and concatenating do to the set of    *)
(* elements of a sequence and to its being free of repetitions; induction  *)
(* over finite sets, which is what a fold over a set and hence a sum are   *)
(* computed by; and what a recursion over the naturals computes.           *)
(***************************************************************************)
EXTENDS Integers, Sequences, Functions, FiniteSetTheorems, WellFoundedInduction, TLAPS

\* The empty sequence has no element and repeats none.
LEMMA EmptySequence == Range(<<>>) = {} /\ IsInjective(<<>>)
  BY DEF Range, IsInjective

\* A sequence over S has its elements in S.
LEMMA RangeType ==
  ASSUME NEW S, NEW s \in Seq(S)
  PROVE  Range(s) \subseteq S
  BY DEF Range

\* Appending adds exactly the new element.
LEMMA RangeAppend ==
  ASSUME NEW S, NEW s \in Seq(S), NEW e \in S
  PROVE  Range(Append(s, e)) = Range(s) \cup {e}
<1> DEFINE t == Append(s, e)
<1>1. /\ DOMAIN t = 1..(Len(s) + 1) /\ DOMAIN s = 1..Len(s) /\ Len(s) \in Nat
      /\ \A i \in 1..Len(s) : t[i] = s[i]
      /\ t[Len(s) + 1] = e
  OBVIOUS
<1>2. Range(t) \subseteq Range(s) \cup {e}
  BY <1>1 DEF Range
<1>3. Range(s) \cup {e} \subseteq Range(t)
  BY <1>1 DEF Range
<1> QED  BY <1>2, <1>3

\* Appending an element that is not there yet repeats nothing.
LEMMA InjectiveAppend ==
  ASSUME NEW S, NEW s \in Seq(S), NEW e \in S, IsInjective(s), e \notin Range(s)
  PROVE  IsInjective(Append(s, e))
<1> DEFINE t == Append(s, e)
<1>1. /\ DOMAIN t = 1..(Len(s) + 1) /\ DOMAIN s = 1..Len(s) /\ Len(s) \in Nat
      /\ \A i \in 1..Len(s) : t[i] = s[i]
      /\ t[Len(s) + 1] = e
  OBVIOUS
<1>2. ASSUME NEW a \in DOMAIN t, NEW b \in DOMAIN t, t[a] = t[b]
      PROVE  a = b
  <2>1. CASE a \in 1..Len(s) /\ b \in 1..Len(s)
    BY <2>1, <1>1, <1>2 DEF IsInjective
  <2>2. CASE a = Len(s) + 1 /\ b \in 1..Len(s)
    BY <2>2, <1>1, <1>2 DEF Range
  <2>3. CASE b = Len(s) + 1 /\ a \in 1..Len(s)
    BY <2>3, <1>1, <1>2 DEF Range
  <2>4. CASE a = Len(s) + 1 /\ b = Len(s) + 1
    BY <2>4
  <2> QED  BY <2>1, <2>2, <2>3, <2>4, <1>1
<1> QED  BY <1>2 DEF IsInjective

\* A non-empty sequence is its head followed by its tail.
LEMMA RangeTail ==
  ASSUME NEW S, NEW s \in Seq(S), s # <<>>
  PROVE  /\ Head(s) \in S
         /\ Tail(s) \in Seq(S)
         /\ Range(s) = {Head(s)} \cup Range(Tail(s))
<1> DEFINE t == Tail(s)
<1>1. /\ Len(s) \in Nat \ {0} /\ DOMAIN s = 1..Len(s)
      /\ DOMAIN t = 1..(Len(s) - 1)
      /\ \A i \in 1..(Len(s) - 1) : t[i] = s[i + 1]
      /\ Head(s) = s[1] /\ t \in Seq(S) /\ s[1] \in S
  OBVIOUS
<1>2. Range(s) \subseteq {Head(s)} \cup Range(t)
  <2> SUFFICES ASSUME NEW i \in 1..Len(s), i # 1
               PROVE  s[i] \in Range(t)
    BY <1>1 DEF Range
  <2>1. i - 1 \in 1..(Len(s) - 1) /\ (i - 1) + 1 = i
    BY <1>1
  <2> QED  BY <1>1, <2>1 DEF Range
<1>3. {Head(s)} \cup Range(t) \subseteq Range(s)
  <2>1. \A i \in 1..(Len(s) - 1) : i + 1 \in 1..Len(s)
    BY <1>1
  <2>2. 1 \in 1..Len(s)
    BY <1>1
  <2> QED  BY <1>1, <2>1, <2>2 DEF Range
<1> QED  BY <1>1, <1>2, <1>3

\* If the sequence repeats nothing, neither does its tail, nor is its head there.
LEMMA InjectiveTail ==
  ASSUME NEW S, NEW s \in Seq(S), s # <<>>, IsInjective(s)
  PROVE  IsInjective(Tail(s)) /\ Head(s) \notin Range(Tail(s))
<1> DEFINE t == Tail(s)
<1>1. /\ Len(s) \in Nat \ {0} /\ DOMAIN s = 1..Len(s)
      /\ DOMAIN t = 1..(Len(s) - 1)
      /\ \A i \in 1..(Len(s) - 1) : t[i] = s[i + 1] /\ i + 1 \in 1..Len(s) /\ i + 1 # 1
      /\ Head(s) = s[1] /\ 1 \in 1..Len(s)
  OBVIOUS
<1>2. IsInjective(t)
  <2> SUFFICES ASSUME NEW a \in 1..(Len(s) - 1), NEW b \in 1..(Len(s) - 1), t[a] = t[b]
               PROVE  a = b
    BY <1>1 DEF IsInjective
  <2>1. a + 1 = b + 1
    BY <1>1 DEF IsInjective
  <2> QED  BY <2>1
<1>3. Head(s) \notin Range(t)
  <2> SUFFICES ASSUME NEW i \in 1..(Len(s) - 1), t[i] = s[1]
               PROVE  FALSE
    BY <1>1 DEF Range
  <2> QED  BY <1>1 DEF IsInjective
<1> QED  BY <1>2, <1>3

\* Concatenation adds the elements of the second sequence.
LEMMA RangeConcat ==
  ASSUME NEW S, NEW s \in Seq(S), NEW t \in Seq(S)
  PROVE  s \o t \in Seq(S) /\ Range(s \o t) = Range(s) \cup Range(t)
<1> DEFINE u == s \o t
<1>1. /\ DOMAIN u = 1..(Len(s) + Len(t)) /\ Len(s) \in Nat /\ Len(t) \in Nat
      /\ DOMAIN s = 1..Len(s) /\ DOMAIN t = 1..Len(t) /\ u \in Seq(S)
      /\ \A i \in 1..Len(s) : u[i] = s[i]
      /\ \A i \in 1..Len(t) : u[i + Len(s)] = t[i]
  OBVIOUS
<1>2. Range(u) \subseteq Range(s) \cup Range(t)
  <2> SUFFICES ASSUME NEW i \in 1..(Len(s) + Len(t)), i \notin 1..Len(s)
               PROVE  u[i] \in Range(t)
    BY <1>1 DEF Range
  <2>1. i - Len(s) \in 1..Len(t) /\ (i - Len(s)) + Len(s) = i
    BY <1>1
  <2> QED  BY <1>1, <2>1 DEF Range
<1>3. Range(s) \cup Range(t) \subseteq Range(u)
  <2>1. /\ \A i \in 1..Len(s) : i \in DOMAIN u
        /\ \A i \in 1..Len(t) : i + Len(s) \in DOMAIN u
    BY <1>1
  <2> QED  BY <1>1, <2>1 DEF Range
<1> QED  BY <1>1, <1>2, <1>3

\* Two sequences that repeat nothing and share nothing make one that does not.
LEMMA InjectiveConcat ==
  ASSUME NEW S, NEW s \in Seq(S), NEW t \in Seq(S),
         IsInjective(s), IsInjective(t), Range(s) \cap Range(t) = {}
  PROVE  IsInjective(s \o t)
<1> DEFINE u == s \o t
<1>1. /\ DOMAIN u = 1..(Len(s) + Len(t)) /\ Len(s) \in Nat /\ Len(t) \in Nat
      /\ DOMAIN s = 1..Len(s) /\ DOMAIN t = 1..Len(t)
      /\ \A i \in 1..Len(s) : u[i] = s[i]
      /\ \A i \in 1..Len(t) : u[i + Len(s)] = t[i]
  OBVIOUS
<1>2. \A i \in DOMAIN u : i \notin 1..Len(s) =>
        i - Len(s) \in 1..Len(t) /\ u[i] = t[i - Len(s)]
  <2> SUFFICES ASSUME NEW i \in DOMAIN u, i \notin 1..Len(s)
               PROVE  i - Len(s) \in 1..Len(t) /\ u[i] = t[i - Len(s)]
    OBVIOUS
  <2>1. i - Len(s) \in 1..Len(t) /\ (i - Len(s)) + Len(s) = i
    BY <1>1
  <2> QED  BY <1>1, <2>1
<1>3. ASSUME NEW a \in DOMAIN u, NEW b \in DOMAIN u, u[a] = u[b]
      PROVE  a = b
  <2>1. CASE a \in 1..Len(s) /\ b \in 1..Len(s)
    BY <2>1, <1>1, <1>3 DEF IsInjective
  <2>2. CASE a \notin 1..Len(s) /\ b \notin 1..Len(s)
    <3>1. a - Len(s) = b - Len(s)
      BY <2>2, <1>1, <1>2, <1>3 DEF IsInjective
    <3> QED  BY <3>1, <1>1
  <2>3. CASE a \in 1..Len(s) /\ b \notin 1..Len(s)
    <3>1. u[a] \in Range(s)
      BY <2>3, <1>1 DEF Range
    <3>2. u[b] \in Range(t)
      BY <2>3, <1>1, <1>2 DEF Range
    <3> QED  BY <3>1, <3>2, <1>3
  <2>4. CASE a \notin 1..Len(s) /\ b \in 1..Len(s)
    <3>1. u[b] \in Range(s)
      BY <2>4, <1>1 DEF Range
    <3>2. u[a] \in Range(t)
      BY <2>4, <1>1, <1>2 DEF Range
    <3> QED  BY <3>1, <3>2, <1>3
  <2> QED  BY <2>1, <2>2, <2>3, <2>4
<1> QED  BY <1>3 DEF IsInjective

\* A sequence that repeats nothing is as long as its set of elements is large.
LEMMA LengthIsCardinality ==
  ASSUME NEW S, NEW s \in Seq(S), IsInjective(s)
  PROVE  IsFiniteSet(Range(s)) /\ Cardinality(Range(s)) = Len(s)
<1>1. s \in Bijection(1..Len(s), Range(s))
  <2>1. s \in [1..Len(s) -> Range(s)]
    BY DEF Range
  <2>2. \A e \in Range(s) : \E n \in 1..Len(s) : s[n] = e
    BY DEF Range
  <2> QED  BY <2>1, <2>2 DEF Bijection, Injection, Surjection
<1>2. IsFiniteSet(1..Len(s)) /\ Cardinality(1..Len(s)) = Len(s)
  <2>1. Len(s) \in Nat
    OBVIOUS
  <2> QED  BY <2>1, FS_Interval
<1>3. ExistsBijection(1..Len(s), Range(s))
  BY <1>1 DEF ExistsBijection
<1> QED  BY <1>2, <1>3, FS_Bijection

-----------------------------------------------------------------------------
(* Induction and recursion over finite sets. *)

\* Induction over the naturals, for a set that holds 0 and all successors of its
\* members: with a set instead of a predicate the provers can instantiate it.
LEMMA SetInduction ==
  ASSUME NEW T \in SUBSET Nat, 0 \in T, \A n \in T : n + 1 \in T
  PROVE  T = Nat
<1> DEFINE U == Nat \ T
           R == {ss \in Nat \X Nat : ss[1] < ss[2]}
<1>1. IsWellFoundedOn(R, Nat)
  BY NatLessThanWellFounded DEF OpToRel
<1> SUFFICES ASSUME U # {} PROVE FALSE
  OBVIOUS
<1>2. PICK m \in U : \A y \in U : ~(<<y, m>> \in R)
  <2> HIDE DEF R
  <2> QED BY <1>1, WFMin
<1>3. m # 0 /\ m - 1 \in Nat /\ m - 1 < m
  BY <1>2
<1>4. m - 1 \notin U
  BY <1>2, <1>3
<1> QED BY <1>3, <1>4

\* Subsets of S with at most n elements.
Small(S, n) == {U \in SUBSET S : Cardinality(U) <= n}

\* h is the value of the recursion that takes out of a set the element pick names.
IsFold(h, D, base, step, pick) ==
  \A U \in D : h[U] = IF U = {} THEN base ELSE step[<<pick[U], h[U \ {pick[U]}]>>]

\* A recursion over the subsets of a finite set defines a function.
LEMMA FoldExists ==
  ASSUME NEW S, IsFiniteSet(S), NEW V, NEW base \in V, NEW step \in [S \X V -> V], NEW pick,
         \A U \in SUBSET S : U # {} => pick[U] \in U
  PROVE  \E h \in [SUBSET S -> V] : IsFold(h, SUBSET S, base, step, pick)
<1> DEFINE T == {n \in Nat : \E h \in [Small(S, n) -> V] : IsFold(h, Small(S, n), base, step, pick)}
<1>0. \A U \in SUBSET S : IsFiniteSet(U) /\ Cardinality(U) \in Nat /\ Cardinality(U) <= Cardinality(S)
  BY FS_Subset, FS_CardinalityType
<1>1. 0 \in T
  <2> DEFINE h == [U \in Small(S, 0) |-> base]
  <2>1. \A U \in Small(S, 0) : U = {}
    BY <1>0, FS_EmptySet DEF Small
  <2>2. h \in [Small(S, 0) -> V] /\ IsFold(h, Small(S, 0), base, step, pick)
    BY <2>1 DEF IsFold
  <2> QED BY <2>2
<1>2. ASSUME NEW n \in T PROVE n + 1 \in T
  <2>1. PICK h \in [Small(S, n) -> V] : IsFold(h, Small(S, n), base, step, pick)
    OBVIOUS
  <2> DEFINE g == [U \in Small(S, n + 1) |-> IF U \in Small(S, n) THEN h[U] ELSE step[<<pick[U], h[U \ {pick[U]}]>>]]
  <2>2. ASSUME NEW U \in Small(S, n + 1), U # {}
        PROVE  pick[U] \in S /\ U \ {pick[U]} \in Small(S, n)
    <3>1. Cardinality(U \ {pick[U]}) = Cardinality(U) - 1 /\ pick[U] \in U
      BY <1>0, <2>2, FS_RemoveElement DEF Small
    <3> QED BY <1>0, <3>1 DEF Small
  <2>3. ASSUME NEW U \in Small(S, n + 1)
        PROVE  g[U] \in V /\ g[U] = IF U = {} THEN base ELSE step[<<pick[U], g[U \ {pick[U]}]>>]
    <3>1. CASE U = {}
      <4>1. U \in Small(S, n)
        BY <3>1, FS_EmptySet DEF Small
      <4> QED BY <2>1, <3>1, <4>1 DEF IsFold
    <3>2. CASE U # {}
      <4> DEFINE W == U \ {pick[U]}
      <4>1. pick[U] \in S /\ W \in Small(S, n) /\ W \in Small(S, n + 1)
        <5>1. pick[U] \in S /\ W \in Small(S, n)
          BY <2>2, <3>2
        <5> QED BY <1>0, <5>1 DEF Small
      <4>2. h[W] \in V /\ g[W] = h[W]
        BY <4>1
      <4>3. step[<<pick[U], h[W]>>] \in V
        BY <4>1, <4>2
      <4>4. CASE U \in Small(S, n)
        BY <2>1, <3>2, <4>2, <4>3, <4>4 DEF IsFold
      <4>5. CASE U \notin Small(S, n)
        BY <3>2, <4>2, <4>3, <4>5
      <4> QED BY <4>4, <4>5
    <3> QED BY <3>1, <3>2
  <2> HIDE DEF g
  <2>4. IsFold(g, Small(S, n + 1), base, step, pick)
    BY <2>3 DEF IsFold
  <2>5. g \in [Small(S, n + 1) -> V]
    BY <2>3 DEF g
  <2> QED BY <2>4, <2>5
<1> HIDE DEF T
<1>3. T = Nat
  <2>1. T \in SUBSET Nat
    BY DEF T
  <2> QED BY <1>1, <1>2, <2>1, SetInduction
<1>4. Cardinality(S) \in T /\ Small(S, Cardinality(S)) = SUBSET S
  <2>1. Cardinality(S) \in Nat
    BY FS_CardinalityType
  <2> QED BY <1>0, <1>3, <2>1 DEF Small
<1>5. PICK h \in [Small(S, Cardinality(S)) -> V] : IsFold(h, Small(S, Cardinality(S)), base, step, pick)
  BY <1>4 DEF T
<1> QED BY <1>4, <1>5

-----------------------------------------------------------------------------
(* Sums. *)

\* The element the sum of the library takes first.
First(U) == CHOOSE x \in U : TRUE

\* h gives the sum of f over each subset of S.
IsSum(h, f, S) == \A U \in SUBSET S : h[U] = IF U = {} THEN 0 ELSE f[First(U)] + h[U \ {First(U)}]

\* Two such functions agree where the summands do.
LEMMA SumUnique ==
  ASSUME NEW S, NEW R, IsFiniteSet(S), NEW f, NEW e, NEW h, NEW g, IsSum(h, f, S), IsSum(g, e, R),
         S \subseteq R, \A x \in S : f[x] = e[x]
  PROVE  h[S] = g[S]
<1> DEFINE T == {n \in Nat : \A U \in Small(S, n) : h[U] = g[U]}
<1>0. \A U \in SUBSET S : IsFiniteSet(U) /\ Cardinality(U) \in Nat /\ Cardinality(U) <= Cardinality(S)
  BY FS_Subset, FS_CardinalityType
<1>1. 0 \in T
  <2>1. \A U \in Small(S, 0) : U = {} /\ U \in SUBSET S /\ U \in SUBSET R
    BY <1>0, FS_EmptySet DEF Small
  <2> QED BY <2>1 DEF IsSum
<1>2. ASSUME NEW n \in T PROVE n + 1 \in T
  <2>0. n + 1 \in Nat /\ h[{}] = g[{}]
    <3>1. {} \in SUBSET S /\ {} \in SUBSET R
      OBVIOUS
    <3>2. h[{}] = 0 /\ g[{}] = 0
      BY <3>1 DEF IsSum
    <3> QED BY <3>2
  <2> SUFFICES ASSUME NEW U \in Small(S, n + 1), U # {} PROVE h[U] = g[U]
    BY <2>0
  <2>1. First(U) \in U /\ U \in SUBSET S /\ U \in SUBSET R
    BY DEF First, Small
  <2>2. U \ {First(U)} \in Small(S, n)
    BY <1>0, <2>1, FS_RemoveElement DEF Small
  <2>3. h[U \ {First(U)}] = g[U \ {First(U)}] /\ f[First(U)] = e[First(U)]
    BY <2>1, <2>2
  <2> QED BY <2>1, <2>3 DEF IsSum
<1> HIDE DEF T
<1>3. T = Nat
  <2>1. T \in SUBSET Nat
    BY DEF T
  <2> QED BY <1>1, <1>2, <2>1, SetInduction
<1>4. Cardinality(S) \in T /\ S \in Small(S, Cardinality(S))
  <2>1. Cardinality(S) \in Nat
    BY FS_CardinalityType
  <2> QED BY <1>3, <2>1 DEF Small
<1> QED BY <1>4 DEF T

\* The library's sum is such a function's value.
LEMMA SumIsFold ==
  ASSUME NEW S, IsFiniteSet(S), NEW f, \A x \in S : f[x] \in Int
  PROVE  \E h \in [SUBSET S -> Int] : IsSum(h, f, S) /\ SumFunctionOnSet(f, S) = h[S]
<1> DEFINE step == [p \in S \X Int |-> f[p[1]] + p[2]]
           pick == [U \in SUBSET S |-> First(U)]
<1>1. step \in [S \X Int -> Int] /\ \A x \in S, v \in Int : step[<<x, v>>] = f[x] + v
  OBVIOUS
<1>2. \A U \in SUBSET S : U # {} => pick[U] \in U /\ pick[U] = First(U)
  BY DEF First
<1> HIDE DEF step, pick
<1>3. PICK h \in [SUBSET S -> Int] : IsFold(h, SUBSET S, 0, step, pick)
  <2>1. 0 \in Int
    OBVIOUS
  <2> QED BY <1>1, <1>2, <2>1, FoldExists
<1>4. IsSum(h, f, S)
  <2> SUFFICES ASSUME NEW U \in SUBSET S, U # {} PROVE h[U] = f[First(U)] + h[U \ {First(U)}]
    BY <1>3 DEF IsSum, IsFold
  <2>1. h[U] = step[<<First(U), h[U \ {First(U)}]>>]
    BY <1>2, <1>3 DEF IsFold
  <2>2. First(U) \in S /\ h[U \ {First(U)}] \in Int
    BY <1>2
  <2> QED BY <1>1, <2>1, <2>2
<1> DEFINE iter[s \in SUBSET S] ==
             IF s = {} THEN 0 ELSE LET x == CHOOSE x \in s : TRUE IN f[x] + iter[s \ {x}]
<1>5. SumFunctionOnSet(f, S) = iter[S]
  BY DEF SumFunctionOnSet, FoldFunctionOnSet, MapThenFoldSet
<1>6. IsSum(iter, f, S)
  <2>1. h = [s \in SUBSET S |-> IF s = {} THEN 0 ELSE LET x == CHOOSE x \in s : TRUE IN f[x] + h[s \ {x}]]
    BY <1>4 DEF IsSum, First
  <2>2. iter = [s \in SUBSET S |-> IF s = {} THEN 0 ELSE LET x == CHOOSE x \in s : TRUE IN f[x] + iter[s \ {x}]]
    BY <2>1
  <2> HIDE DEF iter
  <2> SUFFICES ASSUME NEW U \in SUBSET S
               PROVE  iter[U] = IF U = {} THEN 0 ELSE f[First(U)] + iter[U \ {First(U)}]
    BY DEF IsSum
  <2> QED BY <2>2 DEF First
<1> HIDE DEF iter
<1>7. h[S] = iter[S]
  BY <1>4, <1>6, SumUnique
<1> QED BY <1>4, <1>5, <1>7

IntegerSum(h, f, S) == IsSum(h, f, S) /\ h \in [SUBSET S -> Int] /\ \A x \in S : f[x] \in Int

\* Any element may be taken first.
LEMMA SumAnyFirst ==
  ASSUME NEW S, IsFiniteSet(S), NEW f, NEW h, IntegerSum(h, f, S)
  PROVE  \A x \in S : h[S] = f[x] + h[S \ {x}]
<1> USE DEF IntegerSum
<1> DEFINE T == {n \in Nat : \A U \in Small(S, n) : \A y \in U : h[U] = f[y] + h[U \ {y}]}
<1>0. \A U \in SUBSET S : IsFiniteSet(U) /\ Cardinality(U) \in Nat /\ Cardinality(U) <= Cardinality(S)
  BY FS_Subset, FS_CardinalityType
<1>1. 0 \in T
  <2>1. \A U \in Small(S, 0) : U = {}
    BY <1>0, FS_EmptySet DEF Small
  <2> QED BY <2>1
<1>2. ASSUME NEW n \in T PROVE n + 1 \in T
  <2>0. n + 1 \in Nat
    OBVIOUS
  <2> SUFFICES ASSUME NEW U \in Small(S, n + 1), NEW y \in U PROVE h[U] = f[y] + h[U \ {y}]
    BY <2>0
  <2> DEFINE z == First(U)
             V == (U \ {y}) \ {z}
  <2>1. z \in U /\ U \in SUBSET S /\ y \in S /\ z \in S
    BY DEF First, Small
  <2>2. h[U] = f[z] + h[U \ {z}]
    BY <2>1 DEF IsSum
  <2> HIDE DEF z
  <2>3. CASE z = y
    BY <2>2, <2>3
  <2>4. CASE z # y
    <3>1. U \ {z} \in Small(S, n) /\ U \ {y} \in Small(S, n)
      BY <1>0, <2>1, FS_RemoveElement DEF Small
    <3>2. h[U \ {z}] = f[y] + h[(U \ {z}) \ {y}] /\ h[U \ {y}] = f[z] + h[V]
      BY <2>1, <2>4, <3>1
    <3>3. (U \ {z}) \ {y} = V /\ V \in SUBSET S
      BY <2>1
    <3>4. h[V] \in Int /\ f[y] \in Int /\ f[z] \in Int
      BY <2>1, <3>3
    <3> HIDE DEF V
    <3>5. h[U \ {z}] = f[y] + h[V]
      BY <3>2, <3>3
    <3> QED BY <2>2, <3>2, <3>4, <3>5
  <2> QED BY <2>3, <2>4
<1> HIDE DEF T
<1>3. T = Nat
  <2>1. T \in SUBSET Nat
    BY DEF T
  <2> QED BY <1>1, <1>2, <2>1, SetInduction
<1>4. Cardinality(S) \in T /\ S \in Small(S, Cardinality(S))
  <2>1. Cardinality(S) \in Nat
    BY FS_CardinalityType
  <2> QED BY <1>3, <2>1 DEF Small
<1> QED BY <1>4 DEF T

\* Nothing sums up to zero.
LEMMA SumEmpty == ASSUME NEW f PROVE SumFunctionOnSet(f, {}) = 0
<1>1. PICK h \in [SUBSET {} -> Int] : IsSum(h, f, {}) /\ SumFunctionOnSet(f, {}) = h[{}]
  BY SumIsFold, FS_EmptySet
<1> QED BY <1>1 DEF IsSum

\* A sum of integers is one, and any summand may be taken out.
LEMMA SumRemove ==
  ASSUME NEW S, IsFiniteSet(S), NEW f, \A x \in S : f[x] \in Int
  PROVE  /\ SumFunctionOnSet(f, S) \in Int
         /\ \A x \in S : SumFunctionOnSet(f, S) = f[x] + SumFunctionOnSet(f, S \ {x})
<1>1. PICK h \in [SUBSET S -> Int] : IsSum(h, f, S) /\ SumFunctionOnSet(f, S) = h[S]
  BY SumIsFold
<1>2. ASSUME NEW x \in S PROVE SumFunctionOnSet(f, S) = f[x] + SumFunctionOnSet(f, S \ {x})
  <2> DEFINE R == S \ {x}
  <2>1. IsFiniteSet(R) /\ R \subseteq S
    BY FS_RemoveElement
  <2>2. PICK g \in [SUBSET R -> Int] : IsSum(g, f, R) /\ SumFunctionOnSet(f, R) = g[R]
    BY <2>1, SumIsFold
  <2>3. g[R] = h[R]
    BY <1>1, <2>1, <2>2, SumUnique
  <2>4. h[S] = f[x] + h[R]
    <3>1. IntegerSum(h, f, S)
      BY <1>1 DEF IntegerSum
    <3>2. IsFiniteSet(S)
      OBVIOUS
    <3>3. \A y \in S : h[S] = f[y] + h[S \ {y}]
      BY ONLY <3>1, <3>2, SumAnyFirst
    <3> QED BY <3>3
  <2> QED BY <1>1, <2>2, <2>3, <2>4
<1> QED BY <1>1, <1>2

\* Sums of the same summands are the same.
LEMMA SumSame ==
  ASSUME NEW S, IsFiniteSet(S), NEW f, NEW e, \A x \in S : f[x] \in Int /\ f[x] = e[x]
  PROVE  SumFunctionOnSet(f, S) = SumFunctionOnSet(e, S)
<1>1. PICK h \in [SUBSET S -> Int] : IsSum(h, f, S) /\ SumFunctionOnSet(f, S) = h[S]
  BY SumIsFold
<1>2. PICK g \in [SUBSET S -> Int] : IsSum(g, e, S) /\ SumFunctionOnSet(e, S) = g[S]
  BY SumIsFold
<1>3. h[S] = g[S]
  BY <1>1, <1>2, SumUnique
<1> QED BY <1>1, <1>2, <1>3

\* Only the summand of y may differ.
DifferAt(f, e, S, y) == \A x \in S : f[x] \in Int /\ e[x] \in Int /\ (x # y => f[x] = e[x])

\* If one summand changes, the sum changes by as much.
LEMMA SumChange ==
  ASSUME NEW S, IsFiniteSet(S), NEW f, NEW e, NEW y \in S, DifferAt(f, e, S, y)
  PROVE  SumFunctionOnSet(e, S) = SumFunctionOnSet(f, S) + e[y] - f[y]
<1> USE DEF DifferAt
<1> DEFINE R == S \ {y}
<1>1. IsFiniteSet(R) /\ \A x \in R : f[x] \in Int /\ f[x] = e[x]
  BY FS_RemoveElement
<1>2. SumFunctionOnSet(f, R) = SumFunctionOnSet(e, R) /\ SumFunctionOnSet(f, R) \in Int
  BY <1>1, SumSame, SumRemove
<1>3. SumFunctionOnSet(f, S) = f[y] + SumFunctionOnSet(f, R)
  BY SumRemove
<1>4. SumFunctionOnSet(e, S) = e[y] + SumFunctionOnSet(e, R)
  BY SumRemove
<1> QED BY <1>2, <1>3, <1>4

\* n equal summands.
LEMMA SumConstant ==
  ASSUME NEW S, IsFiniteSet(S), NEW f, NEW c \in Int, \A x \in S : f[x] = c
  PROVE  SumFunctionOnSet(f, S) = c * Cardinality(S)
<1> DEFINE T == {n \in Nat : \A U \in SUBSET S : Cardinality(U) = n => SumFunctionOnSet(f, U) = c * n}
<1>0. \A U \in SUBSET S : IsFiniteSet(U) /\ Cardinality(U) \in Nat
  BY FS_Subset, FS_CardinalityType
<1>1. 0 \in T
  <2>1. \A U \in SUBSET S : Cardinality(U) = 0 => U = {}
    BY <1>0, FS_EmptySet
  <2>2. SumFunctionOnSet(f, {}) = 0 /\ c * 0 = 0
    BY SumEmpty
  <2> QED BY <2>1, <2>2
<1>2. ASSUME NEW n \in T PROVE n + 1 \in T
  <2>1. ASSUME NEW U \in SUBSET S, Cardinality(U) = n + 1
        PROVE  SumFunctionOnSet(f, U) = c * (n + 1)
    <3>1. U # {} /\ n \in Nat
      BY <2>1, FS_EmptySet
    <3>2. PICK x \in U : TRUE
      BY <3>1
    <3>3. U \ {x} \in SUBSET S /\ Cardinality(U \ {x}) = n
      <4>1. IsFiniteSet(U) /\ x \in U
        BY <1>0, <3>2
      <4>2. Cardinality(U \ {x}) = Cardinality(U) - 1
        BY <4>1, FS_RemoveElement
      <4> QED BY <2>1, <3>1, <4>2
    <3>4. SumFunctionOnSet(f, U \ {x}) = c * n
      BY <3>3
    <3>5. IsFiniteSet(U) /\ \A y \in U : f[y] \in Int
      BY <1>0
    <3>6. SumFunctionOnSet(f, U) = f[x] + SumFunctionOnSet(f, U \ {x})
      BY ONLY <3>2, <3>5, SumRemove
    <3>7. c * (n + 1) = c + c * n
      BY <3>1
    <3> QED BY <3>4, <3>6, <3>7
  <2> QED BY <2>1
<1> HIDE DEF T
<1>3. T = Nat
  <2>1. T \in SUBSET Nat
    BY DEF T
  <2> QED BY <1>1, <1>2, <2>1, SetInduction
<1> QED BY <1>0, <1>3 DEF T

\* A sum of naturals is one.
LEMMA SumNat ==
  ASSUME NEW S, IsFiniteSet(S), NEW f, \A x \in S : f[x] \in Nat
  PROVE  SumFunctionOnSet(f, S) \in Nat
<1> DEFINE T == {n \in Nat : \A U \in SUBSET S : Cardinality(U) = n => SumFunctionOnSet(f, U) \in Nat}
<1>0. \A U \in SUBSET S : IsFiniteSet(U) /\ Cardinality(U) \in Nat
  BY FS_Subset, FS_CardinalityType
<1>1. 0 \in T
  <2>1. \A U \in SUBSET S : Cardinality(U) = 0 => U = {}
    BY <1>0, FS_EmptySet
  <2>2. SumFunctionOnSet(f, {}) = 0
    BY SumEmpty
  <2> QED BY <2>1, <2>2
<1>2. ASSUME NEW n \in T PROVE n + 1 \in T
  <2>1. ASSUME NEW U \in SUBSET S, Cardinality(U) = n + 1
        PROVE  SumFunctionOnSet(f, U) \in Nat
    <3>1. U # {} /\ n \in Nat
      BY <2>1, FS_EmptySet
    <3>2. PICK x \in U : TRUE
      BY <3>1
    <3>3. U \ {x} \in SUBSET S /\ Cardinality(U \ {x}) = n
      <4>1. IsFiniteSet(U) /\ x \in U
        BY <1>0, <3>2
      <4>2. Cardinality(U \ {x}) = Cardinality(U) - 1
        BY <4>1, FS_RemoveElement
      <4> QED BY <2>1, <3>1, <4>2
    <3>4. SumFunctionOnSet(f, U \ {x}) \in Nat
      BY <3>3
    <3>5. IsFiniteSet(U) /\ \A y \in U : f[y] \in Int
      BY <1>0
    <3>6. SumFunctionOnSet(f, U) = f[x] + SumFunctionOnSet(f, U \ {x})
      BY ONLY <3>2, <3>5, SumRemove
    <3>7. f[x] \in Nat
      BY <3>2
    <3> QED BY <3>4, <3>6, <3>7
  <2> QED BY <2>1
<1> HIDE DEF T
<1>3. T = Nat
  <2>1. T \in SUBSET Nat
    BY DEF T
  <2> QED BY <1>1, <1>2, <2>1, SetInduction
<1> QED BY <1>0, <1>3 DEF T

\* e is f with g added on N.
AddedOn(e, f, g, S, N) ==
  \A x \in S :
    /\ f[x] \in Int /\ e[x] \in Int
    /\ x \in N => g[x] \in Int /\ e[x] = f[x] + g[x]
    /\ x \notin N => e[x] = f[x]

\* What is added to the summands is added to the sum.
LEMMA SumAdded ==
  ASSUME NEW S, IsFiniteSet(S), NEW N, NEW f, NEW e, NEW g, AddedOn(e, f, g, S, N)
  PROVE  SumFunctionOnSet(e, S) = SumFunctionOnSet(f, S) + SumFunctionOnSet(g, S \cap N)
<1>f. \A x \in S : f[x] \in Int
  BY DEF AddedOn
<1>e. \A x \in S : e[x] \in Int
  BY DEF AddedOn
<1>g. \A x \in S : x \in N => g[x] \in Int /\ e[x] = f[x] + g[x]
  BY DEF AddedOn
<1>n. \A x \in S : x \notin N => e[x] = f[x]
  BY DEF AddedOn
<1> DEFINE Sums(U) == SumFunctionOnSet(e, U) = SumFunctionOnSet(f, U) + SumFunctionOnSet(g, U \cap N)
           T == {n \in Nat : \A U \in SUBSET S : Cardinality(U) = n => Sums(U)}
<1>0. \A U \in SUBSET S : IsFiniteSet(U) /\ IsFiniteSet(U \cap N) /\ Cardinality(U) \in Nat
  BY FS_Subset, FS_CardinalityType
<1>1. 0 \in T
  <2>1. \A U \in SUBSET S : Cardinality(U) = 0 => U = {}
    BY <1>0, FS_EmptySet
  <2>3. {} \cap N = {}
    OBVIOUS
  <2>2. SumFunctionOnSet(e, {}) = 0 /\ SumFunctionOnSet(f, {}) = 0 /\ SumFunctionOnSet(g, {}) = 0
    BY SumEmpty
  <2>4. Sums({})
    BY <2>2, <2>3
  <2> HIDE DEF Sums
  <2> QED BY <2>1, <2>4
<1>2. ASSUME NEW n \in T PROVE n + 1 \in T
  <2>1. ASSUME NEW U \in SUBSET S, Cardinality(U) = n + 1 PROVE Sums(U)
    <3>1. U # {} /\ n \in Nat
      BY <2>1, FS_EmptySet
    <3>2. PICK x \in U : TRUE
      BY <3>1
    <3> DEFINE V == U \ {x}
    <3>3. V \in SUBSET S /\ Cardinality(V) = n
      <4>1. IsFiniteSet(U) /\ x \in U
        BY <1>0, <3>2
      <4>2. Cardinality(U \ {x}) = Cardinality(U) - 1
        BY <4>1, FS_RemoveElement
      <4> QED BY <2>1, <3>1, <4>2
    <3>4. Sums(V)
      BY <3>3
    <3>v. V \subseteq U /\ V \in SUBSET S /\ U \in SUBSET S
      OBVIOUS
    <3>5. SumFunctionOnSet(e, U) = e[x] + SumFunctionOnSet(e, V) /\ SumFunctionOnSet(e, V) \in Int
      <4>1. IsFiniteSet(U) /\ (\A y \in U : e[y] \in Int) /\ IsFiniteSet(V) /\ \A y \in V : e[y] \in Int
        <5> HIDE DEF T, V
        <5> QED BY <1>0, <1>e, <3>3, <3>v
      <4> QED BY ONLY <3>2, <4>1, SumRemove
    <3>6. SumFunctionOnSet(f, U) = f[x] + SumFunctionOnSet(f, V) /\ SumFunctionOnSet(f, V) \in Int
      <4>1. IsFiniteSet(U) /\ (\A y \in U : f[y] \in Int) /\ IsFiniteSet(V) /\ \A y \in V : f[y] \in Int
        <5> HIDE DEF T, V
        <5> QED BY <1>0, <1>f, <3>3, <3>v
      <4> QED BY ONLY <3>2, <4>1, SumRemove
    <3>7. x \in S /\ f[x] \in Int /\ e[x] \in Int
      BY <1>e, <1>f, <3>2
    <3>8. CASE x \in N
      <4>1. x \in U \cap N /\ (U \cap N) \ {x} = V \cap N
        BY <3>2, <3>8
      <4>2. IsFiniteSet(U \cap N) /\ IsFiniteSet(V \cap N) /\ \A y \in U \cap N : g[y] \in Int
        <5> HIDE DEF T, V
        <5> QED BY <1>0, <1>g, <3>v
      <4>3. /\ SumFunctionOnSet(g, U \cap N) = g[x] + SumFunctionOnSet(g, V \cap N)
            /\ SumFunctionOnSet(g, V \cap N) \in Int
        <5> DEFINE M == U \cap N
        <5>1. x \in M /\ M \ {x} = V \cap N /\ IsFiniteSet(M) /\ \A y \in M : g[y] \in Int
          BY <4>1, <4>2
        <5>2. IsFiniteSet(V \cap N) /\ \A y \in V \cap N : g[y] \in Int
          <6> HIDE DEF T, V
          <6> QED BY <1>0, <1>g, <3>v
        <5> HIDE DEF M, V
        <5>3. SumFunctionOnSet(g, M) = g[x] + SumFunctionOnSet(g, M \ {x})
          BY ONLY <5>1, SumRemove
        <5>4. SumFunctionOnSet(g, V \cap N) \in Int
          BY ONLY <5>2, SumRemove
        <5> QED BY <5>1, <5>3, <5>4 DEF M, V
      <4>4. e[x] = f[x] + g[x] /\ g[x] \in Int
        BY <1>g, <3>7, <3>8
      <4>5. SumFunctionOnSet(e, V) = SumFunctionOnSet(f, V) + SumFunctionOnSet(g, V \cap N)
        BY <3>4
      <4> HIDE DEF V, T
      <4> QED BY <3>5, <3>6, <3>7, <4>3, <4>4, <4>5
    <3>9. CASE x \notin N
      <4>1. U \cap N = V \cap N /\ e[x] = f[x]
        BY <1>n, <3>7, <3>9
      <4>2. SumFunctionOnSet(e, V) = SumFunctionOnSet(f, V) + SumFunctionOnSet(g, V \cap N)
        BY <3>4
      <4>3. SumFunctionOnSet(g, V \cap N) \in Int
        <5>1. IsFiniteSet(V \cap N) /\ \A y \in V \cap N : g[y] \in Int
          <6> HIDE DEF T, V
          <6> QED BY <1>0, <1>g, <3>v
        <5> QED BY ONLY <5>1, SumRemove
      <4>4. SumFunctionOnSet(g, U \cap N) = SumFunctionOnSet(g, V \cap N)
        BY <4>1
      <4> HIDE DEF V, T
      <4>5. SumFunctionOnSet(e, U) = SumFunctionOnSet(f, U) + SumFunctionOnSet(g, U \cap N)
        BY ONLY <3>5, <3>6, <3>7, <4>1, <4>2, <4>3, <4>4
      <4> QED BY <4>5
    <3> QED BY <3>8, <3>9
  <2> QED BY <2>1
<1> HIDE DEF T
<1>3. T = Nat
  <2>1. T \in SUBSET Nat
    BY DEF T
  <2> QED BY <1>1, <1>2, <2>1, SetInduction
<1>4. S \in SUBSET S /\ Cardinality(S) \in T
  BY <1>0, <1>3
<1>5. Sums(S)
  BY <1>4 DEF T
<1> QED BY <1>5

\* The sum of two parts is that of the whole.
LEMMA SumSplit ==
  ASSUME NEW S, IsFiniteSet(S), NEW D, NEW f, \A x \in S : f[x] \in Int
  PROVE  SumFunctionOnSet(f, S) = SumFunctionOnSet(f, S \cap D) + SumFunctionOnSet(f, S \ D)
<1> DEFINE rest == [x \in S |-> IF x \in D THEN 0 ELSE f[x]]
           none == [x \in S |-> 0]
<1>1. AddedOn(f, rest, f, S, D)
  BY DEF AddedOn
<1>2. AddedOn(rest, none, f, S, S \ D)
  BY DEF AddedOn
<1>3. \A x \in S : none[x] = 0
  OBVIOUS
<1> HIDE DEF rest, none
<1>4. IsFiniteSet(S) /\ 0 \in Int
  OBVIOUS
<1>5. SumFunctionOnSet(f, S) = SumFunctionOnSet(rest, S) + SumFunctionOnSet(f, S \cap D)
  BY ONLY <1>1, <1>4, SumAdded
<1>6. SumFunctionOnSet(rest, S) = SumFunctionOnSet(none, S) + SumFunctionOnSet(f, S \cap (S \ D))
  BY ONLY <1>2, <1>4, SumAdded
<1>7. SumFunctionOnSet(none, S) = 0 * Cardinality(S)
  BY ONLY <1>3, <1>4, SumConstant
<1>8. SumFunctionOnSet(none, S) = 0
  BY <1>7, FS_CardinalityType
<1>9. SumFunctionOnSet(f, S \cap D) \in Int /\ SumFunctionOnSet(f, S \ D) \in Int
  <2>1. /\ IsFiniteSet(S \cap D) /\ \A x \in S \cap D : f[x] \in Int
        /\ IsFiniteSet(S \ D) /\ \A x \in S \ D : f[x] \in Int
    <3>1. S \cap D \subseteq S /\ S \ D \subseteq S
      OBVIOUS
    <3> QED BY <3>1, FS_Subset
  <2> QED BY ONLY <2>1, SumRemove
<1>10. SumFunctionOnSet(f, S \cap (S \ D)) = SumFunctionOnSet(f, S \ D)
  <2>1. S \cap (S \ D) = S \ D
    OBVIOUS
  <2> QED BY <2>1
<1> QED BY ONLY <1>5, <1>6, <1>8, <1>9, <1>10

-----------------------------------------------------------------------------
(* Recursion over the naturals. *)

\* h starts with base and takes n steps.
IsRun(h, n, base, step) == h[0] = base /\ \A i \in 1..n : h[i] = step[<<i, h[i - 1]>>]

\* Such a function exists.
LEMMA RunExists ==
  ASSUME NEW V, NEW base \in V, NEW n \in Nat, NEW step \in [(1..n) \X V -> V]
  PROVE  \E h \in [0..n -> V] : IsRun(h, n, base, step)
<1> DEFINE T == {m \in Nat : m <= n => \E h \in [0..m -> V] : IsRun(h, m, base, step)}
<1>1. 0 \in T
  <2> DEFINE h == [i \in 0..0 |-> base]
  <2>1. h \in [0..0 -> V] /\ IsRun(h, 0, base, step)
    BY DEF IsRun
  <2> QED BY <2>1
<1>2. ASSUME NEW m \in T PROVE m + 1 \in T
  <2> SUFFICES ASSUME m + 1 <= n PROVE \E h \in [0..(m + 1) -> V] : IsRun(h, m + 1, base, step)
    OBVIOUS
  <2>1. PICK h \in [0..m -> V] : IsRun(h, m, base, step)
    OBVIOUS
  <2> DEFINE g == [i \in 0..(m + 1) |-> IF i = m + 1 THEN step[<<m + 1, h[m]>>] ELSE h[i]]
  <2>2. m + 1 \in 1..n /\ h[m] \in V /\ step[<<m + 1, h[m]>>] \in V
    OBVIOUS
  <2>3. \A i \in 0..(m + 1) : i # m + 1 => i \in 0..m /\ g[i] = h[i]
    OBVIOUS
  <2>0. m \in Nat /\ m \in 0..(m + 1) /\ 0 \in 0..(m + 1) /\ m + 1 \in 0..(m + 1) /\ m # m + 1 /\ 0 # m + 1
    OBVIOUS
  <2>5. g \in [0..(m + 1) -> V]
    BY <2>2
  <2>7. g[m + 1] = step[<<m + 1, h[m]>>]
    BY <2>0
  <2> HIDE DEF g
  <2>4. g[m + 1] = step[<<m + 1, g[m]>>] /\ g[0] = h[0]
    BY <2>0, <2>3, <2>7
  <2>6. \A i \in 1..(m + 1) : g[i] = step[<<i, g[i - 1]>>]
    <3>2. (m + 1) - 1 = m
      BY <2>0
    <3> SUFFICES ASSUME NEW i \in 1..(m + 1), i # m + 1 PROVE g[i] = step[<<i, g[i - 1]>>]
      BY <2>4, <3>2
    <3>1. i \in 1..m /\ g[i] = h[i] /\ g[i - 1] = h[i - 1]
      BY <2>3
    <3> QED BY <2>1, <3>1 DEF IsRun
  <2> QED BY <2>1, <2>4, <2>5, <2>6 DEF IsRun
<1> HIDE DEF T
<1>3. T = Nat
  <2>1. T \in SUBSET Nat
    BY DEF T
  <2> QED BY <1>1, <1>2, <2>1, SetInduction
<1>4. n \in T
  BY <1>3
<1> QED BY <1>4 DEF T

\* A set of numbers has a largest one.
LEMMA LargestExists ==
  ASSUME NEW n \in Nat
  PROVE  \A U \in SUBSET (1..n) : U # {} => \E x \in U : \A y \in U : x >= y
<1> DEFINE T == {m \in Nat : \A U \in SUBSET (1..m) : U # {} => \E x \in U : \A y \in U : x >= y}
<1>1. 0 \in T
  <2>1. \A U \in SUBSET (1..0) : U = {}
    OBVIOUS
  <2> QED BY <2>1
<1>2. ASSUME NEW m \in T PROVE m + 1 \in T
  <2>1. m \in Nat /\ m + 1 \in Nat
    OBVIOUS
  <2>2. ASSUME NEW U \in SUBSET (1..(m + 1)), U # {} PROVE \E x \in U : \A y \in U : x >= y
    <3>1. CASE m + 1 \in U
      BY <2>1, <3>1
    <3>2. CASE m + 1 \notin U
      <4>1. U \in SUBSET (1..m)
        BY <2>1, <3>2
      <4> QED BY <2>2, <4>1
    <3> QED BY <3>1, <3>2
  <2> QED BY <2>1, <2>2
<1> HIDE DEF T
<1>3. T = Nat
  <2>1. T \in SUBSET Nat
    BY DEF T
  <2> QED BY <1>1, <1>2, <2>1, SetInduction
<1>4. n \in T
  BY <1>3
<1>5. ASSUME NEW U \in SUBSET (1..n), U # {} PROVE \E x \in U : \A y \in U : x >= y
  BY <1>4, <1>5 DEF T
<1> QED BY <1>5

-----------------------------------------------------------------------------
(* A sequence without one of its elements. *)

\* q without its k-th element, and what such a sequence holds.
Cut(q, k) == SubSeq(q, 1, k - 1) \o SubSeq(q, k + 1, Len(q))
IsCut(r, q, k) == Len(r) = Len(q) - 1 /\ \A i \in 1..Len(r) : r[i] = IF i < k THEN q[i] ELSE q[i + 1]

\* Cutting out the k-th element moves those behind it one place forward.
LEMMA SequenceCut ==
  ASSUME NEW S, NEW q \in Seq(S), NEW k \in 1..Len(q)
  PROVE  Cut(q, k) \in Seq(S) /\ IsCut(Cut(q, k), q, k)
<1> DEFINE r == Cut(q, k)
<1>c. q \in Seq(S) /\ Len(q) \in Nat
  OBVIOUS
<1>1. SubSeq(q, 1, k - 1) \in Seq(S) /\ Len(SubSeq(q, 1, k - 1)) = k - 1
      /\ \A i \in 1..(k - 1) : SubSeq(q, 1, k - 1)[i] = q[i]
  BY <1>c
<1>2. SubSeq(q, k + 1, Len(q)) \in Seq(S) /\ Len(SubSeq(q, k + 1, Len(q))) = Len(q) - k
      /\ \A i \in 1..(Len(q) - k) : SubSeq(q, k + 1, Len(q))[i] = q[k + i]
  BY <1>c
<1> DEFINE x == SubSeq(q, 1, k - 1)
           y == SubSeq(q, k + 1, Len(q))
<1> HIDE DEF x, y
<1>3. x \o y \in Seq(S) /\ Len(x \o y) = Len(x) + Len(y)
      /\ \A i \in 1..Len(x \o y) : (x \o y)[i] = IF i <= Len(x) THEN x[i] ELSE y[i - Len(x)]
  <2>1. x \in Seq(S) /\ y \in Seq(S)
    BY <1>1, <1>2 DEF x, y
  <2> QED BY ONLY <2>1
<1>4. r = x \o y
  BY DEF x, y, Cut
<1> HIDE DEF r
<1>5. Len(x) = k - 1 /\ Len(y) = Len(q) - k
  BY <1>1, <1>2 DEF x, y
<1>6. ASSUME NEW i \in 1..Len(r) PROVE r[i] = IF i < k THEN q[i] ELSE q[i + 1]
  <2>1. CASE i < k
    BY <1>c, <1>1, <1>3, <1>4, <1>5, <2>1 DEF x
  <2>2. CASE ~(i < k)
    <3>1. i - Len(x) \in 1..(Len(q) - k) /\ k + (i - Len(x)) = i + 1 /\ ~(i <= Len(x))
      BY <1>c, <1>3, <1>4, <1>5, <2>2
    <3>2. y[i - Len(x)] = q[k + (i - Len(x))]
      BY <1>2, <3>1 DEF y
    <3> QED BY <1>3, <1>4, <2>2, <3>1, <3>2
  <2> QED BY <2>1, <2>2
<1>7. r \in Seq(S) /\ Len(r) = Len(x) + Len(y)
  BY <1>3, <1>4
<1>8. Len(r) = Len(q) - 1
  BY <1>c, <1>5, <1>7
<1> QED BY <1>6, <1>7, <1>8 DEF r, IsCut

\* Cut out of a sequence that repeats nothing, an element is not in it any more.
LEMMA InjectiveCut ==
  ASSUME NEW S, NEW s \in Seq(S), IsInjective(s), NEW k \in 1..Len(s), NEW r \in Seq(S), IsCut(r, s, k)
  PROVE  IsInjective(r) /\ Range(r) = Range(s) \ {s[k]}
<1> DEFINE to(i) == IF i < k THEN i ELSE i + 1
           of(i) == IF i < k THEN i ELSE i - 1
<1> USE DEF IsCut
<1>0. Len(s) \in Nat /\ Len(r) \in Nat /\ DOMAIN s = 1..Len(s) /\ DOMAIN r = 1..Len(r)
  OBVIOUS
<1>1. ASSUME NEW i \in 1..Len(r) PROVE to(i) \in 1..Len(s) /\ to(i) # k /\ r[i] = s[to(i)]
  BY <1>0
<1>2. \A i, j \in 1..Len(r) : to(i) = to(j) => i = j
  BY <1>0
<1>3. ASSUME NEW i \in 1..Len(s), i # k PROVE of(i) \in 1..Len(r) /\ to(of(i)) = i
  BY <1>0, <1>3
<1> HIDE DEF to, of
<1>4. \A i, j \in 1..Len(s) : s[i] = s[j] => i = j
  BY <1>0 DEF IsInjective
<1>5. IsInjective(r)
  BY <1>0, <1>1, <1>2, <1>4 DEF IsInjective
<1>6. ASSUME NEW x \in Range(r) PROVE x \in Range(s) \ {s[k]}
  BY <1>0, <1>1, <1>4 DEF Range
<1>7. ASSUME NEW x \in Range(s) \ {s[k]} PROVE x \in Range(r)
  <2>1. PICK i \in 1..Len(s) : x = s[i] /\ i # k
    BY <1>0 DEF Range
  <2> QED BY <1>0, <1>1, <1>3, <2>1 DEF Range
<1> QED BY <1>5, <1>6, <1>7
=============================================================================
