----------------------------- MODULE SetLemmas -----------------------------
(* Facts about finite sets that the proofs of the other modules need: a      *)
(* finite set of numbers has a largest and a smallest element, and what a    *)
(* sum over a finite set is.  Induction is by a smallest counterexample:     *)
(* inclusion is well-founded on the finite subsets of a set.                 *)
EXTENDS Integers, FiniteSets, FiniteSetsExt, Functions, FiniteSetTheorems,
        WellFoundedInduction, TLAPS

(* A set of natural numbers has a least one.                                 *)
LEMMA LeastNatural ==
    ASSUME NEW N \in SUBSET Nat, N # {}
    PROVE  \E m \in N : \A k \in N : m <= k
  <1> DEFINE R == {ss \in Nat \X Nat : ss[1] < ss[2]}
  <1>1. IsWellFoundedOn(R, Nat)
    BY NatLessThanWellFounded DEF OpToRel
  <1>2. PICK m \in N : \A k \in N : ~ (<<k, m>> \in R)
    <2> HIDE DEF R
    <2> QED
      BY <1>1, WFMin
  <1>3. \A k \in N : k \in Nat /\ m \in Nat /\ ~ (k < m)
    BY <1>2
  <1> HIDE DEF R
  <1> QED
    BY <1>3

(* A set of finite sets has one that includes no other.                      *)
LEMMA LeastSet ==
    ASSUME NEW S, IsFiniteSet(S), NEW T, T \subseteq SUBSET S, T # {}
    PROVE  \E x \in T : \A y \in T : y \subseteq x => y = x
  <1>1. T \subseteq FiniteSubsetsOf(S)
    BY FS_Subset DEF FiniteSubsetsOf
  <1>2. PICK x \in T : \A y \in T : ~ (<<y, x>> \in StrictSubsetOrdering(S))
    BY <1>1, WFMin, FS_StrictSubsetOrderingWellFounded
  <1> QED
    BY <1>2 DEF StrictSubsetOrdering

(* A finite, non-empty set of integers has a largest element, and a smallest.*)
LEMMA FiniteBounds ==
    ASSUME NEW S, S \subseteq Int, IsFiniteSet(S), S # {}
    PROVE  /\ \E m \in S : \A k \in S : k <= m
           /\ \E m \in S : \A k \in S : m <= k
  <1> DEFINE Bad == {T \in SUBSET S : T # {} /\ ~ (/\ \E m \in T : \A k \in T : k <= m
                                                   /\ \E m \in T : \A k \in T : m <= k)}
  <1>1. SUFFICES ASSUME Bad # {} PROVE FALSE
    OBVIOUS
  <1>2. PICK T \in Bad : \A U \in Bad : U \subseteq T => U = T
    <2>1. Bad \subseteq SUBSET S /\ Bad # {}
      BY <1>1
    <2> HIDE DEF Bad
    <2>2. IsFiniteSet(S)
      OBVIOUS
    <2>3. \E x \in Bad : \A y \in Bad : y \subseteq x => y = x
      BY ONLY <2>1, <2>2, LeastSet
    <2> QED
      BY <2>3
  <1>3. PICK x : x \in T
    OBVIOUS
  <1>4. CASE T = {x}
    BY <1>4
  <1>5. CASE T # {x}
    <2>1. T \ {x} # {} /\ T \ {x} \notin Bad
      BY <1>2, <1>3, <1>5
    <2>2. PICK hi \in T \ {x} : \A k \in T \ {x} : k <= hi
      BY <2>1
    <2>3. PICK lo \in T \ {x} : \A k \in T \ {x} : lo <= k
      BY <2>1
    <2>4. \E m \in T : \A k \in T : k <= m
      <3>1. CASE x <= hi
        BY <2>2, <3>1
      <3>2. CASE hi <= x
        BY <1>3, <2>2, <3>2
      <3> QED
        BY <1>3, <3>1, <3>2
    <2>5. \E m \in T : \A k \in T : m <= k
      <3>1. CASE lo <= x
        BY <2>3, <3>1
      <3>2. CASE x <= lo
        BY <1>3, <2>3, <3>2
      <3> QED
        BY <1>3, <3>1, <3>2
    <2> QED
      BY <2>4, <2>5
  <1> QED
    BY <1>4, <1>5

(* The image of a finite set is finite.                                      *)
Image(f, S) == {f[x] : x \in S}

(* The image of a finite set is finite.                                      *)
LEMMA FiniteImage ==
    ASSUME NEW S, IsFiniteSet(S), NEW f
    PROVE  IsFiniteSet(Image(f, S))
  <1> DEFINE g == [x \in S |-> f[x]]
             T == {f[x] : x \in S}
  <1>1. g \in Surjection(S, T)
    BY DEF Surjection
  <1> HIDE DEF g, T
  <1> QED
    BY <1>1, FS_Surjection DEF T, Image

(* Max and Min are what their names say.                                     *)
LEMMA MaxOfFinite ==
    ASSUME NEW S, S \subseteq Int, IsFiniteSet(S), S # {}
    PROVE  Max(S) \in S /\ \A k \in S : k <= Max(S)
  BY FiniteBounds DEF Max

(* A finite set of integers has a least element, and Min is it.              *)
LEMMA MinOfFinite ==
    ASSUME NEW S, S \subseteq Int, IsFiniteSet(S), S # {}
    PROVE  Min(S) \in S /\ \A k \in S : Min(S) <= k
  BY FiniteBounds DEF Min

(* The largest value of a function on a finite set is one of its values.     *)
LEMMA LargestValue ==
    ASSUME NEW S, IsFiniteSet(S), S # {}, NEW f, \A x \in S : f[x] \in Int
    PROVE  /\ \E x \in S : f[x] = Max(Image(f, S))
           /\ \A x \in S : f[x] <= Max(Image(f, S))
           /\ Max(Image(f, S)) \in Int
  <1>1. IsFiniteSet(Image(f, S)) /\ Image(f, S) \subseteq Int /\ Image(f, S) # {}
    BY FiniteImage DEF Image
  <1>2. /\ Max(Image(f, S)) \in Image(f, S)
        /\ \A k \in Image(f, S) : k <= Max(Image(f, S))
    BY <1>1, MaxOfFinite
  <1> QED
    BY <1>1, <1>2 DEF Image

(* A function reaches its least value on a finite set.                       *)
LEMMA SmallestValue ==
    ASSUME NEW S, IsFiniteSet(S), S # {}, NEW f, \A x \in S : f[x] \in Int
    PROVE  /\ \E x \in S : f[x] = Min(Image(f, S))
           /\ \A x \in S : Min(Image(f, S)) <= f[x]
           /\ Min(Image(f, S)) \in Int
  <1>1. IsFiniteSet(Image(f, S)) /\ Image(f, S) \subseteq Int /\ Image(f, S) # {}
    BY FiniteImage DEF Image
  <1>2. /\ Min(Image(f, S)) \in Image(f, S)
        /\ \A k \in Image(f, S) : Min(Image(f, S)) <= k
    BY <1>1, MinOfFinite
  <1> QED
    BY <1>1, <1>2 DEF Image

(* Max of two numbers.                                                       *)
LEMMA MaxOfTwo ==
    ASSUME NEW a \in Int, NEW b \in Int
    PROVE  Max({a, b}) = IF a <= b THEN b ELSE a
  BY DEF Max

(* Min of two numbers.                                                       *)
LEMMA MinOfTwo ==
    ASSUME NEW a \in Int, NEW b \in Int
    PROVE  Min({a, b}) = IF a <= b THEN a ELSE b
  BY DEF Min

-----------------------------------------------------------------------------
(* Sums.  SumFunctionOnSet picks the elements of a set one by one; Sum(v, S) *)
(* abbreviates it here.                                                      *)
Pick(S) == CHOOSE x \in S : TRUE
Sum(v, S) == SumFunctionOnSet(v, S)

(* The recursive function by which the library defines the sum of v over S.  *)
IsSumming(g, v, S) ==
    g = [T \in SUBSET S |-> IF T = {} THEN 0 ELSE v[Pick(T)] + g[T \ {Pick(T)}]]

(* What is picked from a set belongs to it.                                  *)
LEMMA PickIsElement == ASSUME NEW S, S # {} PROVE Pick(S) \in S
  BY DEF Pick

(* It exists: it can be defined for the subsets of at most n elements, for   *)
(* each n in turn.                                                           *)
LEMMA SummingExists ==
    ASSUME NEW v, NEW S, IsFiniteSet(S)
    PROVE  \E g : IsSumming(g, v, S)
  <1> DEFINE Step(g, T) == IF T = {} THEN 0 ELSE v[Pick(T)] + g[T \ {Pick(T)}]
             UpTo(g, n) == \A T \in SUBSET S : Cardinality(T) <= n => g[T] = Step(g, T)
             Bad == {n \in Nat : ~ \E g : UpTo(g, n)}
  <1>1. \A T \in SUBSET S : IsFiniteSet(T) /\ Cardinality(T) \in Nat
    BY FS_Subset, FS_CardinalityType
  <1>2. ASSUME Bad # {} PROVE FALSE
    <2>1. PICK m \in Bad : \A k \in Bad : m <= k
      <3>1. Bad \subseteq Nat /\ Bad # {}
        BY <1>2
      <3> HIDE DEF Bad
      <3> QED
        BY <3>1, LeastNatural
    <2>2. CASE m = 0
      <3> DEFINE g == [T \in SUBSET S |-> 0]
      <3>1. \A T \in SUBSET S : Cardinality(T) <= 0 => T = {}
        BY <1>1, FS_EmptySet
      <3>2. UpTo(g, 0)
        BY <3>1
      <3> QED
        BY <2>1, <2>2, <3>2
    <2>3. CASE m # 0
      <3>1. m - 1 \in Nat /\ m - 1 \notin Bad
        <4>1. m \in Nat
          OBVIOUS
        <4> HIDE DEF Bad
        <4> QED
          BY <2>1, <2>3, <4>1
      <3>2. PICK g : UpTo(g, m - 1)
        BY <3>1
      <3> DEFINE h == [T \in SUBSET S |-> Step(g, T)]
      <3>3. ASSUME NEW T \in SUBSET S, Cardinality(T) <= m PROVE h[T] = Step(h, T)
        <4>1. CASE T = {}
          BY <4>1
        <4>2. CASE T # {}
          <5>1. Pick(T) \in T
            BY <4>2, PickIsElement
          <5>2. T \ {Pick(T)} \in SUBSET S
            OBVIOUS
          <5>3. Cardinality(T \ {Pick(T)}) <= m - 1
            BY <1>1, <3>3, <5>1, FS_RemoveElement
          <5>4. g[T \ {Pick(T)}] = Step(g, T \ {Pick(T)})
            BY <3>2, <5>2, <5>3
          <5>5. h[T \ {Pick(T)}] = g[T \ {Pick(T)}]
            BY <5>2, <5>4
          <5> QED
            BY <4>2, <5>5
        <4> QED
          BY <4>1, <4>2
      <3>4. UpTo(h, m)
        BY <3>3
      <3> QED
        BY <2>1, <3>4
    <2> QED
      BY <2>2, <2>3
  <1>3. Cardinality(S) \in Nat /\ Cardinality(S) \notin Bad
    BY <1>1, <1>2
  <1>4. PICK g : UpTo(g, Cardinality(S))
    BY <1>3
  <1> DEFINE h == [T \in SUBSET S |-> Step(g, T)]
  <1>5. \A T \in SUBSET S : g[T] = Step(g, T)
    BY <1>4, FS_Subset
  <1>6. \A T \in SUBSET S : T # {} => T \ {Pick(T)} \in SUBSET S
    OBVIOUS
  <1>7. \A T \in SUBSET S : Step(h, T) = Step(g, T)
    BY <1>5, <1>6
  <1>8. IsSumming(h, v, S)
    BY <1>7 DEF IsSumming
  <1> QED
    BY <1>8

(* ... and is unique on each subset, whatever set it was defined for.        *)
LEMMA SummingUnique ==
    ASSUME NEW v, NEW S, IsFiniteSet(S), NEW U, U \subseteq S,
           NEW g, IsSumming(g, v, S), NEW h, IsSumming(h, v, U)
    PROVE  \A T \in SUBSET U : g[T] = h[T]
  <1> DEFINE Bad == {T \in SUBSET U : g[T] # h[T]}
  <1>1. SUFFICES ASSUME Bad # {} PROVE FALSE
    OBVIOUS
  <1>2. PICK T \in Bad : \A W \in Bad : W \subseteq T => W = T
    <2>1. Bad \subseteq SUBSET S /\ Bad # {}
      BY <1>1
    <2> HIDE DEF Bad
    <2> QED
      BY <2>1, LeastSet
  <1>3. T \in SUBSET S /\ T \in SUBSET U
    OBVIOUS
  <1>4. CASE T = {}
    BY <1>3, <1>4 DEF IsSumming
  <1>5. CASE T # {}
    <2>1. Pick(T) \in T
      BY <1>5, PickIsElement
    <2>2. T \ {Pick(T)} \notin Bad
      BY <1>2, <2>1
    <2>3. g[T \ {Pick(T)}] = h[T \ {Pick(T)}]
      BY <1>3, <2>2
    <2> QED
      BY <1>3, <1>5, <2>3 DEF IsSumming
  <1> QED
    BY <1>4, <1>5

(* So the sum is the value that such a function gives the set.               *)
LEMMA SumIsSumming ==
    ASSUME NEW v, NEW S, IsFiniteSet(S)
    PROVE  \E g : IsSumming(g, v, S) /\ Sum(v, S) = g[S]
  <1>1. PICK g : IsSumming(g, v, S)
    BY SummingExists
  <1>2. \E h : /\ h = [T \in SUBSET S |->
                        IF T = {} THEN 0 ELSE v[Pick(T)] + h[T \ {Pick(T)}]]
               /\ Sum(v, S) = h[S]
    BY <1>1 DEF IsSumming, Sum, SumFunctionOnSet, FoldFunctionOnSet, MapThenFoldSet, Pick
  <1> QED
    BY <1>2 DEF IsSumming

(* The sum over no elements.                                                 *)
LEMMA SumEmpty == ASSUME NEW v PROVE Sum(v, {}) = 0
  <1>1. PICK g : IsSumming(g, v, {}) /\ Sum(v, {}) = g[{}]
    BY SumIsSumming, FS_EmptySet
  <1> QED
    BY <1>1 DEF IsSumming

(* The sum, with the picked element taken out.                               *)
LEMMA SumPick ==
    ASSUME NEW v, NEW S, IsFiniteSet(S), S # {}
    PROVE  Sum(v, S) = v[Pick(S)] + Sum(v, S \ {Pick(S)})
  <1> DEFINE U == S \ {Pick(S)}
  <1>1. IsFiniteSet(U)
    BY FS_Subset
  <1>2. PICK g : IsSumming(g, v, S) /\ Sum(v, S) = g[S]
    BY SumIsSumming
  <1>3. PICK h : IsSumming(h, v, U) /\ Sum(v, U) = h[U]
    BY <1>1, SumIsSumming
  <1>4. g[U] = h[U]
    BY <1>1, <1>2, <1>3, SummingUnique
  <1>5. g[S] = v[Pick(S)] + g[U]
    BY <1>2 DEF IsSumming
  <1> QED
    BY <1>2, <1>3, <1>4, <1>5

(* Any element can be taken first.                                           *)
LEMMA SumTake ==
    ASSUME NEW v, NEW S, IsFiniteSet(S), \A x \in S : v[x] \in Int
    PROVE  /\ Sum(v, S) \in Int
           /\ \A x \in S : Sum(v, S) = v[x] + Sum(v, S \ {x})
  <1> DEFINE Good(T) == /\ Sum(v, T) \in Int
                        /\ \A x \in T : Sum(v, T) = v[x] + Sum(v, T \ {x})
             Bad == {T \in SUBSET S : ~Good(T)}
  <1>1. SUFFICES ASSUME Bad # {} PROVE FALSE
    OBVIOUS
  <1>2. PICK T \in Bad : \A U \in Bad : U \subseteq T => U = T
    <2>1. Bad \subseteq SUBSET S /\ Bad # {}
      BY <1>1
    <2> HIDE DEF Bad
    <2> QED
      BY <2>1, LeastSet
  <1>3. T \in SUBSET S /\ ~Good(T) /\ IsFiniteSet(T)
    BY FS_Subset
  <1>4. \A U \in SUBSET T : U # T => Good(U)
    BY <1>2, <1>3
  <1>5. CASE T = {}
    BY <1>3, <1>5, SumEmpty
  <1>6. CASE T # {}
    <2> DEFINE p == Pick(T)
    <2>1. p \in T /\ v[p] \in Int
      BY <1>3, <1>6, PickIsElement
    <2>2. Sum(v, T) = v[p] + Sum(v, T \ {p})
      BY <1>3, <1>6, SumPick
    <2>3. Good(T \ {p})
      BY <1>4, <2>1
    <2>4. ASSUME NEW x \in T, x # p PROVE Sum(v, T) = v[x] + Sum(v, T \ {x})
      <3>1. Good(T \ {x}) /\ Good((T \ {p}) \ {x})
        BY <1>4, <2>4
      <3>2. p \in T \ {x} /\ x \in T \ {p}
        BY <2>1, <2>4
      <3> DEFINE rest == Sum(v, (T \ {p}) \ {x})
      <3>3. Sum(v, T \ {x}) = v[p] + rest
        <4>1. (T \ {x}) \ {p} = (T \ {p}) \ {x}
          OBVIOUS
        <4> QED
          BY <3>1, <3>2, <4>1
      <3>4. Sum(v, T \ {p}) = v[x] + rest
        BY <2>3, <3>2
      <3>5. v[x] \in Int /\ rest \in Int
        BY <1>3, <3>1
      <3> HIDE DEF rest, p
      <3> QED
        BY <2>1, <2>2, <3>3, <3>4, <3>5
    <2>5. Sum(v, T) \in Int
      BY <2>1, <2>2, <2>3
    <2>6. \A x \in T : Sum(v, T) = v[x] + Sum(v, T \ {x})
      BY <2>2, <2>4
    <2> QED
      BY <1>3, <2>5, <2>6
  <1> QED
    BY <1>5, <1>6

(* The sum, with one more element.                                           *)
LEMMA SumAdd ==
    ASSUME NEW v, NEW S, IsFiniteSet(S), NEW y, y \notin S,
           \A x \in S \cup {y} : v[x] \in Int
    PROVE  Sum(v, S \cup {y}) = v[y] + Sum(v, S)
  <1>1. IsFiniteSet(S \cup {y})
    BY FS_AddElement
  <1>2. (S \cup {y}) \ {y} = S
    OBVIOUS
  <1> QED
    BY <1>1, <1>2, SumTake

(* A sum of more, and larger, terms is larger.                               *)
LEMMA SumLeq ==
    ASSUME NEW v, NEW w, NEW S, NEW T, IsFiniteSet(T), S \subseteq T,
           \A x \in S : v[x] \in Int /\ v[x] <= w[x],
           \A x \in T : w[x] \in Nat
    PROVE  Sum(v, S) <= Sum(w, T)
  <1> DEFINE Good(U) == Sum(v, S \cap U) <= Sum(w, U)
             Bad == {U \in SUBSET T : ~Good(U)}
  <1>1. ASSUME Bad # {} PROVE FALSE
    <2>1. PICK U \in Bad : \A W \in Bad : W \subseteq U => W = U
      <3>1. Bad \subseteq SUBSET T /\ Bad # {}
        BY <1>1
      <3> HIDE DEF Bad
      <3> QED
        BY <3>1, LeastSet
    <2>2. U \in SUBSET T /\ ~Good(U) /\ IsFiniteSet(U)
      BY FS_Subset
    <2>3. CASE U = {}
      <3>1. S \cap U = {}
        BY <2>3
      <3> QED
        BY <2>2, <2>3, <3>1, SumEmpty
    <2>4. CASE U # {}
      <3> DEFINE p == Pick(U)
                 W == U \ {p}
      <3>1. p \in U /\ w[p] \in Nat
        BY <2>2, <2>4, PickIsElement
      <3>2. W \in SUBSET T /\ W # U /\ Good(W)
        BY <2>1, <2>2, <3>1
      <3>3. IsFiniteSet(W) /\ IsFiniteSet(S \cap U) /\ IsFiniteSet(S \cap W)
        BY <2>2, FS_Subset
      <3>4. Sum(w, U) = w[p] + Sum(w, W) /\ Sum(w, W) \in Int
        BY <2>2, <3>1, <3>2, <3>3, SumTake
      <3>5. Sum(v, S \cap W) \in Int
        BY <3>3, SumTake
      <3>6. CASE p \in S
        <4>1. (S \cap U) \ {p} = S \cap W
          OBVIOUS
        <4>2. Sum(v, S \cap U) = v[p] + Sum(v, S \cap W)
          BY <3>1, <3>3, <3>6, <4>1, SumTake
        <4>3. v[p] \in Int /\ v[p] <= w[p]
          BY <3>6
        <4>4. Sum(v, S \cap U) <= Sum(w, U)
          <5> HIDE DEF p, W
          <5> QED
            BY <3>1, <3>2, <3>4, <3>5, <4>2, <4>3
        <4> QED
          BY <2>2, <4>4
      <3>7. CASE p \notin S
        <4>1. S \cap U = S \cap W
          BY <3>7
        <4>2. Sum(v, S \cap U) = Sum(v, S \cap W)
          BY <4>1
        <4>3. Sum(v, S \cap W) <= Sum(w, W)
          BY <3>2
        <4>4. Sum(v, S \cap U) <= Sum(w, U)
          <5> HIDE DEF p, W
          <5> QED
            BY <3>1, <3>4, <3>5, <4>2, <4>3
        <4> QED
          BY <2>2, <4>4
      <3> QED
        BY <3>6, <3>7
    <2> QED
      BY <2>3, <2>4
  <1>2. Good(T) /\ S \cap T = S
    BY <1>1
  <1> QED
    BY <1>2

(* A sum of naturals is natural.                                             *)
LEMMA SumNat ==
    ASSUME NEW v, NEW S, IsFiniteSet(S), \A x \in S : v[x] \in Nat
    PROVE  Sum(v, S) \in Nat
  <1>1. Sum(v, {}) <= Sum(v, S)
    BY SumLeq
  <1>2. Sum(v, {}) = 0 /\ Sum(v, S) \in Int
    BY SumEmpty, SumTake
  <1> QED
    BY <1>1, <1>2

(* The terms alone make the sum, not the rest of the function.               *)
LEMMA SumSame ==
    ASSUME NEW v, NEW w, NEW S, IsFiniteSet(S), \A x \in S : v[x] \in Nat /\ v[x] = w[x]
    PROVE  Sum(v, S) = Sum(w, S)
  <1>1. Sum(v, S) <= Sum(w, S) /\ Sum(w, S) <= Sum(v, S)
    BY SumLeq
  <1>2. Sum(v, S) \in Int /\ Sum(w, S) \in Int
    BY SumTake
  <1> QED
    BY <1>1, <1>2

(* If each term is at most the sum of two others, so is the sum.             *)
LEMMA SumOfTwo ==
    ASSUME NEW u, NEW v, NEW w, NEW S, IsFiniteSet(S),
           \A x \in S : /\ u[x] \in Int /\ v[x] \in Nat /\ w[x] \in Nat
                        /\ u[x] <= v[x] + w[x]
    PROVE  Sum(u, S) <= Sum(v, S) + Sum(w, S)
  <1> DEFINE Good(U) == Sum(u, U) <= Sum(v, U) + Sum(w, U)
             Bad == {U \in SUBSET S : ~Good(U)}
  <1>1. ASSUME Bad # {} PROVE FALSE
    <2>1. PICK U \in Bad : \A W \in Bad : W \subseteq U => W = U
      <3>1. Bad \subseteq SUBSET S /\ Bad # {}
        BY <1>1
      <3> HIDE DEF Bad
      <3> QED
        BY <3>1, LeastSet
    <2>2. U \in SUBSET S /\ ~Good(U) /\ IsFiniteSet(U)
      BY FS_Subset
    <2>3. CASE U = {}
      <3>1. Sum(u, U) = 0 /\ Sum(v, U) = 0 /\ Sum(w, U) = 0
        BY <2>3, SumEmpty
      <3> QED
        BY <2>2, <3>1
    <2>4. CASE U # {}
      <3> DEFINE p == Pick(U)
                 W == U \ {p}
      <3>1. p \in U /\ u[p] \in Int /\ v[p] \in Nat /\ w[p] \in Nat /\ u[p] <= v[p] + w[p]
        BY <2>2, <2>4, PickIsElement
      <3>2. W \in SUBSET S /\ W # U /\ Good(W) /\ IsFiniteSet(W)
        BY <2>1, <2>2, <3>1, FS_Subset
      <3>3. /\ Sum(u, U) = u[p] + Sum(u, W) /\ Sum(u, W) \in Int
            /\ Sum(v, U) = v[p] + Sum(v, W) /\ Sum(v, W) \in Int
            /\ Sum(w, U) = w[p] + Sum(w, W) /\ Sum(w, W) \in Int
        <4>1. \A x \in U : u[x] \in Int /\ v[x] \in Int /\ w[x] \in Int
          BY <2>2
        <4>2. \A x \in W : u[x] \in Int /\ v[x] \in Int /\ w[x] \in Int
          BY <4>1
        <4> QED
          BY <2>2, <3>1, <3>2, <4>1, <4>2, SumTake
      <3>4. Good(U)
        <4> HIDE DEF p, W
        <4> QED
          BY <3>1, <3>2, <3>3
      <3> QED
        BY <2>2, <3>4
    <2> QED
      BY <2>3, <2>4
  <1>2. Good(S)
    BY <1>1
  <1> QED
    BY <1>2

(* The sum over two sets is at least that over their union, and equal to it  *)
(* if they have nothing in common.                                           *)
LEMMA SumUnion ==
    ASSUME NEW v, NEW S, NEW T, IsFiniteSet(S), IsFiniteSet(T), S \cap T = {},
           \A x \in S \cup T : v[x] \in Nat
    PROVE  Sum(v, S \cup T) = Sum(v, S) + Sum(v, T)
  <1> DEFINE Good(U) == Sum(v, S \cup U) = Sum(v, S) + Sum(v, U)
             Bad == {U \in SUBSET T : ~Good(U)}
  <1>1. ASSUME Bad # {} PROVE FALSE
    <2>1. PICK U \in Bad : \A W \in Bad : W \subseteq U => W = U
      <3>1. Bad \subseteq SUBSET T /\ Bad # {}
        BY <1>1
      <3> HIDE DEF Bad
      <3> QED
        BY <3>1, LeastSet
    <2>2. U \in SUBSET T /\ ~Good(U) /\ IsFiniteSet(U)
      BY FS_Subset
    <2>3. Sum(v, S) \in Int
      BY SumTake
    <2>4. CASE U = {}
      <3>1. S \cup U = S
        BY <2>4
      <3> QED
        BY <2>2, <2>3, <2>4, <3>1, SumEmpty
    <2>5. CASE U # {}
      <3> DEFINE p == Pick(U)
                 W == U \ {p}
      <3>1. p \in U /\ p \notin S /\ v[p] \in Int
        BY <2>2, <2>5, PickIsElement
      <3>2. W \in SUBSET T /\ W # U /\ Good(W)
        BY <2>1, <2>2, <3>1
      <3>3. IsFiniteSet(W) /\ IsFiniteSet(S \cup U)
        BY <2>2, FS_Subset, FS_Union
      <3>4. Sum(v, U) = v[p] + Sum(v, W) /\ Sum(v, W) \in Int
        BY <2>2, <3>1, <3>2, <3>3, SumTake
      <3>5. (S \cup U) \ {p} = S \cup W
        BY <3>1
      <3>6. Sum(v, S \cup U) = v[p] + Sum(v, S \cup W)
        BY <2>2, <3>1, <3>3, <3>5, SumTake
      <3>7. Sum(v, S \cup U) = Sum(v, S) + Sum(v, U)
        <4> HIDE DEF p, W
        <4> QED
          BY <2>3, <3>1, <3>2, <3>4, <3>6
      <3> QED
        BY <2>2, <3>7
    <2> QED
      BY <2>4, <2>5
  <1> QED
    BY <1>1

(* Disjoint parts of T sum up to what they have together.                    *)
LEMMA SumOfParts ==
    ASSUME NEW v, NEW S, NEW T, IsFiniteSet(S), IsFiniteSet(T),
           NEW part, \A x \in S : part[x] \subseteq T,
           \A x, y \in S : x # y => part[x] \cap part[y] = {},
           \A x \in T : v[x] \in Nat,
           NEW total, \A x \in S : total[x] = Sum(v, part[x])
    PROVE  Sum(total, S) = Sum(v, UNION {part[x] : x \in S})
  <1> DEFINE All(U) == UNION {part[x] : x \in U}
             Good(U) == Sum(total, U) = Sum(v, All(U))
             Bad == {U \in SUBSET S : ~Good(U)}
  <1>0. \A U \in SUBSET S : All(U) \subseteq T /\ IsFiniteSet(All(U)) /\ IsFiniteSet(U)
    BY FS_Subset
  <1>1. \A x \in S : IsFiniteSet(part[x]) /\ total[x] \in Nat
    <2> TAKE x \in S
    <2>1. IsFiniteSet(part[x]) /\ \A y \in part[x] : v[y] \in Nat
      BY FS_Subset
    <2> QED
      BY <2>1, SumNat
  <1>2. ASSUME Bad # {} PROVE FALSE
    <2>1. PICK U \in Bad : \A W \in Bad : W \subseteq U => W = U
      <3>1. Bad \subseteq SUBSET S /\ Bad # {}
        BY <1>2
      <3> HIDE DEF Bad
      <3> QED
        BY <3>1, LeastSet
    <2>2. U \in SUBSET S /\ ~Good(U) /\ IsFiniteSet(U)
      BY FS_Subset
    <2>3. CASE U = {}
      <3>1. All(U) = {}
        BY <2>3
      <3> QED
        BY <2>2, <2>3, <3>1, SumEmpty
    <2>4. CASE U # {}
      <3> DEFINE p == Pick(U)
                 W == U \ {p}
      <3>1. p \in U /\ p \in S
        BY <2>2, <2>4, PickIsElement
      <3>2. W \in SUBSET S /\ W # U /\ Good(W)
        BY <2>1, <2>2, <3>1
      <3>3. Sum(total, U) = total[p] + Sum(total, W)
        BY <1>1, <2>2, <3>1, SumTake
      <3>4. All(U) = All(W) \cup part[p] /\ All(W) \cap part[p] = {}
        BY <2>2, <3>1, <3>2
      <3>5. Sum(v, All(U)) = Sum(v, All(W)) + Sum(v, part[p])
        <4>1. IsFiniteSet(All(W)) /\ IsFiniteSet(part[p])
          BY <1>0, <1>1, <3>1, <3>2
        <4>2. \A x \in All(W) \cup part[p] : v[x] \in Nat
          BY <1>0, <3>1, <3>2
        <4> DEFINE A == All(W)
                   B == part[p]
        <4>3. /\ IsFiniteSet(A) /\ IsFiniteSet(B) /\ A \cap B = {}
              /\ \A x \in A \cup B : v[x] \in Nat
          BY <3>4, <4>1, <4>2
        <4>4. Sum(v, A \cup B) = Sum(v, A) + Sum(v, B)
          <5> HIDE DEF A, B
          <5> QED
            BY <4>3, SumUnion
        <4> QED
          BY <3>4, <4>4
      <3>6. Sum(v, All(W)) \in Int /\ total[p] \in Int
        <4> DEFINE A == All(W)
        <4>1. IsFiniteSet(A) /\ \A x \in A : v[x] \in Int
          <5>1. A \subseteq T /\ IsFiniteSet(A)
            BY <1>0, <3>2
          <5> HIDE DEF A
          <5> QED
            BY <5>1
        <4>2. Sum(v, A) \in Int
          <5> HIDE DEF A
          <5> QED
            BY <4>1, SumTake
        <4> QED
          BY <1>1, <3>1, <4>2
      <3>7. Sum(total, U) = Sum(v, All(U))
        <4>1. Sum(total, W) = Sum(v, All(W)) /\ total[p] = Sum(v, part[p])
          BY <3>1, <3>2
        <4> HIDE DEF p, W, All
        <4> QED
          BY <3>3, <3>5, <3>6, <4>1
      <3> QED
        BY <2>2, <3>7
    <2> QED
      BY <2>3, <2>4
  <1> QED
    BY <1>2

(* Renaming the elements, no two to one, leaves the sum alone.               *)
LEMMA SumRenamed ==
    ASSUME NEW v, NEW w, NEW S, IsFiniteSet(S), NEW f,
           \A x, y \in S : f[x] = f[y] => x = y,
           \A x \in S : v[x] \in Nat /\ w[f[x]] = v[x]
    PROVE  Sum(w, Image(f, S)) = Sum(v, S)
  <1> DEFINE Good(U) == Sum(w, Image(f, U)) = Sum(v, U)
             Bad == {U \in SUBSET S : ~Good(U)}
  <1>1. ASSUME Bad # {} PROVE FALSE
    <2>1. PICK U \in Bad : \A W \in Bad : W \subseteq U => W = U
      <3>1. Bad \subseteq SUBSET S /\ Bad # {}
        BY <1>1
      <3> HIDE DEF Bad
      <3> QED
        BY <3>1, LeastSet
    <2>2. U \in SUBSET S /\ ~Good(U) /\ IsFiniteSet(U)
      BY FS_Subset
    <2>3. CASE U = {}
      <3>1. Image(f, U) = {}
        BY <2>3 DEF Image
      <3> QED
        BY <2>2, <2>3, <3>1, SumEmpty
    <2>4. CASE U # {}
      <3> DEFINE p == Pick(U)
                 W == U \ {p}
      <3>1. p \in U /\ p \in S
        BY <2>2, <2>4, PickIsElement
      <3>2. W \in SUBSET S /\ W # U /\ Good(W)
        BY <2>1, <2>2, <3>1
      <3>3. Sum(v, U) = v[p] + Sum(v, W)
        BY <2>2, <3>1, SumTake
      <3>4. f[p] \in Image(f, U) /\ Image(f, U) \ {f[p]} = Image(f, W)
        BY <2>2, <3>1 DEF Image
      <3>5. IsFiniteSet(Image(f, U)) /\ \A y \in Image(f, U) : w[y] \in Int
        BY <2>2, FiniteImage DEF Image
      <3>6. Sum(w, Image(f, U)) = w[f[p]] + Sum(w, Image(f, W))
        <4> DEFINE I == Image(f, U)
                   q == f[p]
        <4>1. IsFiniteSet(I) /\ (\A y \in I : w[y] \in Int) /\ q \in I
          BY <3>4, <3>5
        <4>2. Sum(w, I) = w[q] + Sum(w, I \ {q})
          <5> HIDE DEF I, q
          <5> QED
            BY <4>1, SumTake
        <4> QED
          BY <3>4, <4>2
      <3>7. Sum(w, Image(f, U)) = Sum(v, U)
        <4>1. w[f[p]] = v[p]
          BY <3>1
        <4> HIDE DEF p, W
        <4> QED
          BY <3>2, <3>3, <3>6, <4>1
      <3> QED
        BY <2>2, <3>7
    <2> QED
      BY <2>3, <2>4
  <1> QED
    BY <1>1

(* If each term is at most k times another, so is the sum.                   *)
LEMMA SumTimes ==
    ASSUME NEW u, NEW v, NEW k \in Nat, NEW S, IsFiniteSet(S),
           \A x \in S : u[x] \in Nat /\ v[x] \in Nat /\ u[x] <= v[x] * k
    PROVE  Sum(u, S) <= Sum(v, S) * k
  <1> DEFINE Good(U) == Sum(u, U) <= Sum(v, U) * k
             Bad == {U \in SUBSET S : ~Good(U)}
  <1>1. ASSUME Bad # {} PROVE FALSE
    <2>1. PICK U \in Bad : \A W \in Bad : W \subseteq U => W = U
      <3>1. Bad \subseteq SUBSET S /\ Bad # {}
        BY <1>1
      <3> HIDE DEF Bad
      <3> QED
        BY <3>1, LeastSet
    <2>2. U \in SUBSET S /\ ~Good(U) /\ IsFiniteSet(U)
      BY FS_Subset
    <2>3. CASE U = {}
      BY <2>2, <2>3, SumEmpty
    <2>4. CASE U # {}
      <3> DEFINE p == Pick(U)
                 W == U \ {p}
      <3>1. p \in U /\ u[p] \in Nat /\ v[p] \in Nat /\ u[p] <= v[p] * k
        BY <2>2, <2>4, PickIsElement
      <3>2. W \in SUBSET S /\ W # U /\ Good(W)
        BY <2>1, <2>2, <3>1
      <3>3. /\ Sum(u, U) = u[p] + Sum(u, W) /\ Sum(v, U) = v[p] + Sum(v, W)
            /\ Sum(u, W) \in Int /\ Sum(v, W) \in Int
        <4>1. IsFiniteSet(W)
          BY <3>2, FS_Subset
        <4> QED
          BY <2>2, <3>1, <3>2, <4>1, SumTake
      <3>4. Good(U)
        <4> DEFINE a == v[p]
                   b == Sum(v, W)
        <4>1. (a + b) * k = a * k + b * k
          <5>1. a \in Int /\ b \in Int
            BY <3>1, <3>3
          <5> HIDE DEF a, b
          <5> QED
            BY <5>1
        <4>2. a * k \in Int /\ b * k \in Int
          BY <3>1, <3>3
        <4>3. u[p] <= a * k /\ Sum(u, W) <= b * k /\ Sum(v, U) = a + b
          BY <3>1, <3>2, <3>3
        <4>4. Sum(u, U) <= a * k + b * k
          <5> HIDE DEF a, b, p, W
          <5> QED
            BY <3>1, <3>3, <4>2, <4>3
        <4> QED
          BY <4>1, <4>3, <4>4
      <3> QED
        BY <2>2, <3>4
    <2> QED
      BY <2>3, <2>4
  <1> QED
    BY <1>1
=============================================================================
