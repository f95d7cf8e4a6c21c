--------------------------- MODULE InductionLemmas ---------------------------
(***************************************************************************)
(* Induction for the proofs of this project, stated over sets: the         *)
(* induction theorems of the library take the predicate as an operator, so *)
(* here a predicate is the set of the values it holds of.  All of it rests *)
(* on the least element of a set of numbers.                               *)
(*                                                                         *)
(* The second half is about FoldFunction(+, 0, f), the sum of a function   *)
(* over its finite domain, by which GameProgress adds up the hints used.   *)
(***************************************************************************)
EXTENDS Naturals, FiniteSets, Functions, WellFoundedInduction,
        FiniteSetTheorems, TLAPS

(***************************************************************************)
(* A set of natural numbers that is not empty has a least element.         *)
(***************************************************************************)
LEMMA LeastNat ==
  ASSUME NEW T, T \subseteq Nat, T # {}
  PROVE  \E x \in T : \A y \in T : x <= y
<1>. DEFINE R == OpToRel(<, Nat)
<1>1. IsWellFoundedOn(R, Nat)
  BY NatLessThanWellFounded
<1>2. \A a, b \in Nat : a < b => <<a, b>> \in R
  BY DEF OpToRel
<1>. HIDE DEF R
<1>3. PICK x \in T : \A y \in T : ~ (<<y, x>> \in R)
  BY <1>1, WFMin, Zenon
<1>4. \A y \in T : ~(y < x)
  BY <1>2, <1>3
<1>5. \A y \in T : x <= y
  BY <1>4
<1>. QED  BY <1>5

(***************************************************************************)
(* Induction over the natural numbers.                                     *)
(***************************************************************************)
LEMMA SetInduction ==
  ASSUME NEW T, 0 \in T, \A n \in Nat : n \in T => n + 1 \in T
  PROVE  Nat \subseteq T
<1>. SUFFICES ASSUME Nat \ T # {} PROVE FALSE
  OBVIOUS
<1>1. PICK x \in Nat \ T : \A y \in Nat \ T : x <= y
  BY LeastNat
<1>2. x # 0 /\ x - 1 \in Nat
  BY <1>1
<1>. QED  BY <1>1, <1>2

(***************************************************************************)
(* Induction over the subsets of a finite set, in the order in which a     *)
(* fold takes the elements out.                                            *)
(***************************************************************************)
Pick(s) == CHOOSE x \in s : TRUE

Rest(s) == s \ {Pick(s)}

LEMMA RestSmaller ==
  ASSUME NEW S, IsFiniteSet(S), NEW s \in SUBSET S, s # {}
  PROVE  /\ Pick(s) \in s
         /\ Rest(s) \in SUBSET S
         /\ IsFiniteSet(s)
         /\ Cardinality(s) \in Nat
         /\ Cardinality(Rest(s)) = Cardinality(s) - 1
<1>1. IsFiniteSet(s)
  BY FS_Subset, Zenon
<1>2. Pick(s) \in s
  BY DEF Pick
<1>3. Cardinality(s) \in Nat
  BY <1>1, FS_CardinalityType, Zenon
<1>4. Cardinality(Rest(s)) = Cardinality(s) - 1
  BY <1>1, <1>2, FS_RemoveElement, Zenon DEF Rest
<1>. QED  BY <1>1, <1>2, <1>3, <1>4 DEF Rest

LEMMA SubsetInduction ==
  ASSUME NEW S, IsFiniteSet(S), NEW P, {} \in P,
         \A s \in SUBSET S : s # {} /\ Rest(s) \in P => s \in P
  PROVE  SUBSET S \subseteq P
<1>. DEFINE T == {n \in Nat : \A s \in SUBSET S : Cardinality(s) = n => s \in P}
<1>1. 0 \in T
  <2>1. \A s \in SUBSET S : Cardinality(s) = 0 => s = {}
    BY FS_Subset, FS_EmptySet, Zenon
  <2>. QED  BY <2>1
<1>2. \A n \in Nat : n \in T => n + 1 \in T
  <2>. SUFFICES ASSUME NEW n \in T, NEW s \in SUBSET S, Cardinality(s) = n + 1
                PROVE  s \in P
    OBVIOUS
  <2>1. s # {}
    BY FS_EmptySet
  <2>2. Rest(s) \in SUBSET S /\ Cardinality(Rest(s)) = n
    BY <2>1, RestSmaller
  <2>. QED  BY <2>1, <2>2
<1>3. Nat \subseteq T
  <2>. HIDE DEF T
  <2>. QED  BY <1>1, <1>2, SetInduction
<1>4. \A s \in SUBSET S : Cardinality(s) \in Nat
  BY FS_Subset, FS_CardinalityType, Zenon
<1>. QED  BY <1>3, <1>4

(***************************************************************************)
(* The recursion of a sum over the subsets of S has a solution, and it is  *)
(* the one FoldFunction takes.                                             *)
(***************************************************************************)
Sums(f, S, g) ==
  \A s \in SUBSET S : g[s] = IF s = {} THEN 0 ELSE f[Pick(s)] + g[Rest(s)]

LEMMA SumsExist ==
  ASSUME NEW S, IsFiniteSet(S), NEW f \in [S -> Nat]
  PROVE  \E g \in [SUBSET S -> Nat] : Sums(f, S, g)
<1>. DEFINE Small(n) == {t \in SUBSET S : Cardinality(t) <= n}
            Eq(g, s) == g[s] = IF s = {} THEN 0 ELSE f[Pick(s)] + g[Rest(s)]
            T == {n \in Nat : \E g \in [Small(n) -> Nat] :
                                \A s \in Small(n) : Eq(g, s)}
<1>1. \A s \in SUBSET S : Cardinality(s) \in Nat
  BY FS_Subset, FS_CardinalityType, Zenon
<1>2. \A s \in SUBSET S : Cardinality(s) = 0 <=> s = {}
  BY FS_Subset, FS_EmptySet, Zenon
<1>3. 0 \in T
  <2>. DEFINE g == [s \in Small(0) |-> 0]
  <2>1. \A s \in Small(0) : s = {}
    BY <1>1, <1>2
  <2>2. g \in [Small(0) -> Nat] /\ \A s \in Small(0) : Eq(g, s)
    BY <2>1
  <2>. QED  BY <2>2
<1>4. ASSUME NEW n \in T  PROVE n + 1 \in T
  <2>1. PICK g \in [Small(n) -> Nat] : \A s \in Small(n) : Eq(g, s)
    OBVIOUS
  <2>. DEFINE h == [s \in Small(n + 1) |->
                      IF s = {} THEN 0 ELSE f[Pick(s)] + g[Rest(s)]]
  <2>2. ASSUME NEW s \in Small(n + 1), s # {}
        PROVE  Pick(s) \in S /\ Rest(s) \in Small(n)
    <3>1. /\ Pick(s) \in s /\ Rest(s) \in SUBSET S
          /\ Cardinality(s) \in Nat
          /\ Cardinality(Rest(s)) = Cardinality(s) - 1
      BY <2>2, RestSmaller
    <3>. QED  BY <3>1
  <2>3. h \in [Small(n + 1) -> Nat]
    BY <2>2
  <2>4. Small(n) \subseteq Small(n + 1) /\ n + 1 \in Nat
    BY <1>1
  <2>5. \A s \in Small(n) : h[s] = g[s]
    BY <2>1, <2>4
  <2>6. \A s \in Small(n + 1) : Eq(h, s)
    BY <2>2, <2>5
  <2>. QED  BY <2>3, <2>4, <2>6
<1>5. Cardinality(S) \in T
  <2>. HIDE DEF T
  <2>1. Nat \subseteq T
    BY <1>3, <1>4, SetInduction
  <2>. QED  BY <1>1, <2>1
<1>6. Small(Cardinality(S)) = SUBSET S
  BY FS_Subset, Zenon
<1>7. PICK g \in [SUBSET S -> Nat] : \A s \in SUBSET S : Eq(g, s)
  BY <1>5, <1>6
<1>. QED  BY <1>7 DEF Sums

(***************************************************************************)
(* What FoldFunction(+, 0, f) is: the sum of f over all of S.              *)
(***************************************************************************)
LEMMA FoldIsSum ==
  ASSUME NEW S, IsFiniteSet(S), NEW f \in [S -> Nat]
  PROVE  \E g : Sums(f, S, g) /\ FoldFunction(+, 0, f) = g[S]
<1>. DEFINE Eqn(g) == g = [s \in SUBSET S |->
               IF s = {} THEN 0
               ELSE f[CHOOSE x \in s : TRUE] + g[s \ {CHOOSE x \in s : TRUE}]]
<1>1. \E g : Eqn(g)
  <2>1. PICK g \in [SUBSET S -> Nat] : Sums(f, S, g)
    BY SumsExist
  <2>2. Eqn(g)
    BY <2>1 DEF Sums, Pick, Rest
  <2>. QED  BY <2>2
<1>2. FoldFunction(+, 0, f) = (CHOOSE g : Eqn(g))[S]
  BY DEF FoldFunction, FoldFunctionOnSet, MapThenFoldSet
<1>. DEFINE h == CHOOSE g : Eqn(g)
<1>3. Eqn(h)
  <2>. HIDE DEF Eqn
  <2>. QED  BY <1>1
<1>4. Sums(f, S, h)
  <2>. HIDE DEF h
  <2>. QED  BY <1>3 DEF Sums, Pick, Rest
<1>. QED  BY <1>2, <1>4

(***************************************************************************)
(* The sum of natural numbers is one; the sum of zeros is zero; adding one *)
(* to one summand adds one to the sum.                                     *)
(***************************************************************************)
LEMMA SumsAreNat ==
  ASSUME NEW S, IsFiniteSet(S), NEW f \in [S -> Nat], NEW g, Sums(f, S, g)
  PROVE  \A s \in SUBSET S : g[s] \in Nat
<1>. DEFINE P == {s \in SUBSET S : g[s] \in Nat}
<1>1. {} \in P
  BY DEF Sums
<1>2. ASSUME NEW s \in SUBSET S, s # {}, Rest(s) \in P  PROVE s \in P
  <2>1. Pick(s) \in S
    BY <1>2, RestSmaller
  <2>. QED  BY <1>2, <2>1 DEF Sums
<1>3. SUBSET S \subseteq P
  <2>. HIDE DEF P
  <2>. QED  BY <1>1, <1>2, SubsetInduction
<1>. QED  BY <1>3

LEMMA SumOfZeros ==
  ASSUME NEW S, IsFiniteSet(S)
  PROVE  FoldFunction(+, 0, [x \in S |-> 0]) = 0
<1>. DEFINE f == [x \in S |-> 0]
<1>1. f \in [S -> Nat]
  OBVIOUS
<1>2. PICK g : Sums(f, S, g) /\ FoldFunction(+, 0, f) = g[S]
  <2>. HIDE DEF f
  <2>. QED  BY <1>1, FoldIsSum
<1>. DEFINE P == {s \in SUBSET S : g[s] = 0}
<1>3. {} \in P
  BY <1>2 DEF Sums
<1>4. ASSUME NEW s \in SUBSET S, s # {}, Rest(s) \in P  PROVE s \in P
  <2>1. Pick(s) \in S
    BY <1>4, RestSmaller
  <2>2. g[s] = f[Pick(s)] + g[Rest(s)]
    BY <1>2, <1>4 DEF Sums
  <2>3. f[Pick(s)] = 0 /\ g[Rest(s)] = 0
    BY <1>4, <2>1
  <2>. QED  BY <2>2, <2>3
<1>5. SUBSET S \subseteq P
  <2>. HIDE DEF P
  <2>. QED  BY <1>3, <1>4, SubsetInduction
<1>. QED  BY <1>2, <1>5

LEMMA SumIsNat ==
  ASSUME NEW S, IsFiniteSet(S), NEW f \in [S -> Nat]
  PROVE  FoldFunction(+, 0, f) \in Nat
<1>1. PICK g : Sums(f, S, g) /\ FoldFunction(+, 0, f) = g[S]
  BY FoldIsSum
<1>2. g[S] \in Nat
  BY <1>1, SumsAreNat
<1>. QED  BY <1>1, <1>2, Zenon

LEMMA SumOfIncrement ==
  ASSUME NEW S, IsFiniteSet(S), NEW f \in [S -> Nat], NEW n \in S
  PROVE  FoldFunction(+, 0, [f EXCEPT ![n] = @ + 1])
           = FoldFunction(+, 0, f) + 1
<1>. DEFINE f1 == [f EXCEPT ![n] = @ + 1]
<1>1. f1 \in [S -> Nat]
  OBVIOUS
<1>2. PICK g : Sums(f, S, g) /\ FoldFunction(+, 0, f) = g[S]
  BY FoldIsSum
<1>3. PICK g1 : Sums(f1, S, g1) /\ FoldFunction(+, 0, f1) = g1[S]
  <2>. HIDE DEF f1
  <2>. QED  BY <1>1, FoldIsSum
<1>4. \A s \in SUBSET S : g[s] \in Nat
  BY <1>2, SumsAreNat
<1>. DEFINE P == {s \in SUBSET S : g1[s] = g[s] + (IF n \in s THEN 1 ELSE 0)}
<1>5. {} \in P
  <2>1. g[{}] = 0 /\ g1[{}] = 0
    BY <1>2, <1>3 DEF Sums
  <2>. QED  BY <2>1
<1>6. ASSUME NEW s \in SUBSET S, s # {}, Rest(s) \in P  PROVE s \in P
  <2>1. Pick(s) \in s /\ Rest(s) \in SUBSET S
    BY <1>6, RestSmaller
  <2>2. /\ g[s] = f[Pick(s)] + g[Rest(s)]
        /\ g1[s] = f1[Pick(s)] + g1[Rest(s)]
    BY <1>2, <1>3, <1>6 DEF Sums
  <2>3. g1[Rest(s)] = g[Rest(s)] + (IF n \in Rest(s) THEN 1 ELSE 0)
    BY <1>6
  <2>4. f[Pick(s)] \in Nat /\ g[Rest(s)] \in Nat
    BY <1>4, <2>1
  <2>5. CASE n = Pick(s)
    <3>1. n \notin Rest(s) /\ n \in s /\ f1[Pick(s)] = f[Pick(s)] + 1
      BY <2>1, <2>5 DEF Rest
    <3>. QED  BY <2>2, <2>3, <2>4, <3>1
  <2>6. CASE n # Pick(s)
    <3>1. (n \in Rest(s)) = (n \in s) /\ f1[Pick(s)] = f[Pick(s)]
      BY <2>1, <2>6 DEF Rest
    <3>. QED  BY <2>2, <2>3, <2>4, <3>1
  <2>. QED  BY <2>5, <2>6
<1>7. SUBSET S \subseteq P
  <2>. HIDE DEF P
  <2>. QED  BY <1>5, <1>6, SubsetInduction
<1>. QED  BY <1>2, <1>3, <1>7
=============================================================================
