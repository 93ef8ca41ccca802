----------------------------- MODULE NatLemmas -----------------------------
(***************************************************************************)
(* Facts about sets of numbers that the proofs of several components need: *)
(* what Min returns, and that a set of descriptors of which each holder    *)
(* has one at most cannot run out while a holder has none.                 *)
(***************************************************************************)
EXTENDS Integers, FiniteSets, FiniteSetsExt, FunctionTheorems, FiniteSetTheorems, WellFoundedInduction, TLAPS

\* Less-than on the naturals as a relation.
LEMMA NatLess == OpToRel(<, Nat) = {ss \in Nat \X Nat : ss[1] < ss[2]}
  BY Zenon DEF OpToRel

\* A set of naturals that is not empty has a least element, and Min returns it.
LEMMA MinNat ==
  ASSUME NEW S, S \subseteq Nat, S # {}
  PROVE  Min(S) \in S /\ \A y \in S : Min(S) <= y
<1> DEFINE R == {ss \in Nat \X Nat : ss[1] < ss[2]}
<1>1. IsWellFoundedOn(R, Nat)
  BY NatLess, NatLessThanWellFounded, Zenon
<1>2. \A a, b \in Nat : a < b => <<a, b>> \in R
  OBVIOUS
<1> HIDE DEF R
<1>3. \E x \in S : \A y \in S : ~(<<y, x>> \in R)
  BY <1>1, WFMin
<1>4. PICK x \in S : \A y \in S : ~(<<y, x>> \in R)
  BY <1>3
<1>5. ASSUME NEW y \in S PROVE x <= y
  <2>1. ~(y < x)
    BY <1>2, <1>4
  <2> QED BY <2>1
<1> QED BY <1>5, Zenon DEF Min

\* Min of numbers that may be negative, once a bound from below is known.
LEMMA MinInt ==
  ASSUME NEW S, NEW m \in Int, S \subseteq Int, S # {}, \A x \in S : m <= x
  PROVE  Min(S) \in S /\ \A y \in S : Min(S) <= y
<1> DEFINE T == {n \in Nat : m + n \in S}
<1>1. T \subseteq Nat /\ T # {}
  <2>1. PICK x \in S : TRUE
    OBVIOUS
  <2>2. x - m \in T
    BY <2>1
  <2> QED BY <2>2
<1>2. Min(T) \in T /\ \A y \in T : Min(T) <= y
  <2> HIDE DEF T
  <2> QED BY <1>1, MinNat
<1>3. PICK t \in T : \A y \in T : t <= y
  BY <1>2
<1>4. m + t \in S
  BY <1>3
<1>5. ASSUME NEW y \in S PROVE m + t <= y
  <2>1. y - m \in T
    BY <1>5
  <2>2. t <= y - m
    BY <1>3, <2>1
  <2> QED BY <2>2, <1>3
<1> QED BY <1>4, <1>5, Zenon DEF Min

\* Max of a set of integers with a bound from above.
LEMMA MaxInt ==
  ASSUME NEW S, NEW m \in Int, S \subseteq Int, S # {}, \A x \in S : x <= m
  PROVE  Max(S) \in S /\ \A y \in S : y <= Max(S)
<1> DEFINE T == {n \in Nat : m - n \in S}
<1>1. T \subseteq Nat /\ T # {}
  <2>1. PICK x \in S : TRUE
    OBVIOUS
  <2>2. m - x \in T
    BY <2>1
  <2> QED BY <2>2
<1>2. Min(T) \in T /\ \A y \in T : Min(T) <= y
  <2> HIDE DEF T
  <2> QED BY <1>1, MinNat
<1>3. PICK t \in T : \A y \in T : t <= y
  BY <1>2
<1>4. m - t \in S
  BY <1>3
<1>5. ASSUME NEW y \in S PROVE y <= m - t
  <2>1. m - y \in T
    BY <1>5
  <2>2. t <= m - y
    BY <1>3, <2>1
  <2> QED BY <2>2, <1>3
<1> QED BY <1>4, <1>5, Zenon DEF Max

\* N holders of one number each among 1 .. N: while one of them has none, a number is free.
LEMMA OneLeft ==
  ASSUME NEW N \in Nat, NEW g, NEW r \in 1 .. N,
         \A q \in 1 .. N : g[q] \in 1 .. N => q # r
  PROVE  \E f \in 1 .. N : \A q \in 1 .. N : g[q] # f
<1> SUFFICES ASSUME \A f \in 1 .. N : \E q \in 1 .. N : g[q] = f
             PROVE  FALSE
  OBVIOUS
<1> DEFINE H == [f \in 1 .. N |-> CHOOSE q \in 1 .. N : g[q] = f]
<1>1. \A f \in 1 .. N : H[f] \in (1 .. N) \ {r} /\ g[H[f]] = f
  OBVIOUS
<1>2. /\ IsFiniteSet(1 .. N) /\ Cardinality(1 .. N) = N
      /\ IsFiniteSet((1 .. N) \ {r}) /\ Cardinality((1 .. N) \ {r}) = N - 1
  <2>1. IsFiniteSet(1 .. N) /\ Cardinality(1 .. N) = N
    BY FS_Interval, SMTT(30)
  <2>2. N - 1 \in Nat
    OBVIOUS
  <2> QED BY <2>1, <2>2, FS_RemoveElement
<1>3. H \in [1 .. N -> (1 .. N) \ {r}]
  BY <1>1
<1> HIDE DEF H
<1>4. \E x, y \in 1 .. N : x # y /\ H[x] = H[y]
  <2> DEFINE A == 1 .. N
             B == (1 .. N) \ {r}
  <2>1. /\ IsFiniteSet(A) /\ IsFiniteSet(B) /\ H \in [A -> B]
        /\ Cardinality(A) = N /\ Cardinality(B) = N - 1
    BY <1>2, <1>3, Zenon
  <2> HIDE DEF A, B
  <2>2. Cardinality(B) < Cardinality(A)
    BY <2>1
  <2>3. \E x, y \in A : x # y /\ H[x] = H[y]
    BY <2>1, <2>2, FS_PigeonHole
  <2> QED BY <2>3 DEF A
<1> QED BY <1>1, <1>4
=============================================================================
