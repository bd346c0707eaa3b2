---------------------------- MODULE IntegerLemmas ----------------------------
(***************************************************************************)
(* Facts about sets of integers the proofs of several components use: the   *)
(* extreme elements that the specifications pick with CHOOSE exist, and     *)
(* finite sets can be listed in order.                                      *)
(***************************************************************************)
EXTENDS Integers, FiniteSetTheorems, WellFoundedInduction, TLAPS

\* A set of naturals has a least element.
LEMMA NatMinimum ==
    ASSUME NEW S \in SUBSET Nat, S # {}
    PROVE  \E x \in S : \A y \in S : x <= y
<1> DEFINE R == {ss \in Nat \X Nat : ss[1] < ss[2]}
<1>1. IsWellFoundedOn(R, Nat)
  BY NatLessThanWellFounded DEF OpToRel
<1> HIDE DEF R
<1>2. PICK x \in S : \A y \in S : ~ (<<y, x>> \in R)
  BY <1>1, WFMin, Zenon
<1>3. \A y \in S : ~ (y < x)
  BY <1>2 DEF R
<1> QED
  BY <1>3

\* A set of naturals with an upper bound has a greatest element.
LEMMA NatMaximum ==
    ASSUME NEW n \in Nat, NEW S \in SUBSET (0..n), S # {}
    PROVE  \E x \in S : \A y \in S : x >= y
<1> DEFINE T == {k \in Nat : n - k \in S}
<1>1. T # {}
  <2>1. PICK x \in S : TRUE
    OBVIOUS
  <2>2. n - x \in Nat /\ n - (n - x) = x
    BY <2>1
  <2> QED
    BY <2>1, <2>2
<1>2. PICK k \in T : \A j \in T : k <= j
  BY <1>1, NatMinimum
<1>3. ASSUME NEW y \in S
      PROVE  n - k >= y
  <2>1. n - y \in Nat /\ n - (n - y) = y
    OBVIOUS
  <2>2. n - y \in T
    BY <2>1
  <2>3. k <= n - y
    BY <1>2, <2>2
  <2>4. n \in Nat /\ k \in Nat /\ y \in Nat
    OBVIOUS
  <2> QED
    BY <2>3, <2>4
<1> QED
  BY <1>2, <1>3

\* The lists of S from its greatest element down.
Descending(S) ==
    {s \in [1..Cardinality(S) -> S] :
        /\ \A i, j \in 1..Cardinality(S) : i < j => s[i] > s[j]
        /\ \A x \in S : \E i \in 1..Cardinality(S) : s[i] = x}

\* A finite set of naturals has such a list: the one of all elements but the least,
\* and then the least.
LEMMA DescendingExists ==
    ASSUME NEW S \in SUBSET Nat, IsFiniteSet(S)
    PROVE  Descending(S) # {}
<1> DEFINE Counterexample(T) == IsFiniteSet(T) /\ Descending(T) = {}
           Sizes == {n \in Nat : \E T \in SUBSET Nat :
                                    Counterexample(T) /\ Cardinality(T) = n}
<1> SUFFICES ASSUME Sizes # {} PROVE FALSE
  BY FS_CardinalityType
<1>1. PICK n \in Sizes : \A k \in Sizes : n <= k
  BY NatMinimum
<1>2. PICK T \in SUBSET Nat : Counterexample(T) /\ Cardinality(T) = n
  OBVIOUS
<1>3. CASE T = {}
  <2>1. n = 0
    BY <1>2, <1>3, FS_EmptySet
  <2>2. [i \in 1..0 |-> i] \in [1..0 -> {}]
    OBVIOUS
  <2>3. [i \in 1..0 |-> i] \in Descending(T)
    BY <1>2, <1>3, <2>1, <2>2 DEF Descending
  <2> QED
    BY <1>2, <2>3
<1>4. CASE T # {}
  <2>1. PICK m \in T : \A y \in T : m <= y
    BY <1>4, NatMinimum
  <2> DEFINE R == T \ {m}
  <2>2. n \in Nat /\ n >= 1 /\ IsFiniteSet(R) /\ Cardinality(R) = n - 1
    <3>1. n # 0
      BY <1>2, <1>4, FS_EmptySet
    <3> QED
      BY <1>2, <3>1, FS_RemoveElement
  <2>3. n - 1 \notin Sizes
    <3>1. n - 1 \in Int /\ ~(n <= n - 1)
      BY <2>2
    <3> QED
      BY <1>1, <3>1
  <2>4. Descending(R) # {}
    BY <2>2, <2>3
  <2>5. PICK s \in Descending(R) : TRUE
    BY <2>4
  <2>6. /\ s \in [1..(n - 1) -> R]
        /\ \A i, j \in 1..(n - 1) : i < j => s[i] > s[j]
        /\ \A x \in R : \E i \in 1..(n - 1) : s[i] = x
    BY <2>2, <2>5 DEF Descending
  <2> DEFINE u == [i \in 1..n |-> IF i = n THEN m ELSE s[i]]
  <2> HIDE DEF R
  <2>7. \A i \in 1..n : i # n => i \in 1..(n - 1)
    BY <2>2
  <2>8. u \in [1..n -> T]
    BY <2>1, <2>6, <2>7 DEF R
  <2>9. \A i, j \in 1..n : i < j => u[i] > u[j]
    <3> SUFFICES ASSUME NEW i \in 1..n, NEW j \in 1..n, i < j PROVE u[i] > u[j]
      OBVIOUS
    <3>1. i \in 1..(n - 1) /\ u[i] = s[i] /\ s[i] \in R
      BY <2>2, <2>6
    <3>2. CASE j = n
      <4>1. s[i] \in T /\ s[i] # m
        BY <3>1 DEF R
      <4>2. \A y \in T : m <= y /\ y \in Int /\ m \in Int
        BY <2>1
      <4>3. m <= s[i] /\ s[i] \in Int /\ m \in Int
        BY <4>1, <4>2
      <4>4. u[j] = m
        BY <3>2
      <4> QED
        BY <3>1, <4>1, <4>3, <4>4
    <3>3. CASE j # n
      BY <2>6, <2>7, <3>1, <3>3
    <3> QED
      BY <3>2, <3>3
  <2>10. \A x \in T : \E i \in 1..n : u[i] = x
    <3> SUFFICES ASSUME NEW x \in T PROVE \E i \in 1..n : u[i] = x
      OBVIOUS
    <3>1. CASE x = m
      BY <2>2, <3>1
    <3>2. CASE x # m
      <4>1. PICK i \in 1..(n - 1) : s[i] = x
        BY <2>6, <3>2 DEF R
      <4>2. i \in 1..n /\ u[i] = x
        BY <2>2, <4>1
      <4> QED
        BY <4>2
    <3> QED
      BY <3>1, <3>2
  <2>11. u \in Descending(T)
    BY <1>2, <2>8, <2>9, <2>10 DEF Descending
  <2> QED
    BY <1>2, <2>11
<1> QED
  BY <1>3, <1>4
=============================================================================
