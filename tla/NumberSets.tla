----------------------------- MODULE NumberSets -----------------------------
(* The newest of some revisions, the first of some activities.                *)
EXTENDS Integers, WellFoundedInduction, TLAPS

\* The order of the naturals, as a relation.
Below == {p \in Nat \X Nat : p[1] < p[2]}
\* No descent among the naturals goes on for ever.
LEMMA BelowWF == IsWellFoundedOn(Below, Nat)
  BY NatLessThanWellFounded DEF OpToRel, Below

\* Numbers up to a bound have a largest among them.
LEMMA Largest ==
  ASSUME NEW n \in Nat, NEW S, S \subseteq 1..n, S # {}
  PROVE  \E k \in S : \A m \in S : m <= k
  <1> DEFINE T == {n - k : k \in S}
  <1>1. T \subseteq Nat /\ T # {}
    <2>1. \A k \in S : n - k \in Nat
      <3>1. \A k \in S : k \in 1..n
        OBVIOUS
      <3> QED BY <3>1
    <2>2. \A x \in T : \E k \in S : x = n - k
      OBVIOUS
    <2>3. T \subseteq Nat
      <3> HIDE DEF T
      <3> QED BY <2>1, <2>2
    <2>4. T # {}
      <3>1. PICK k \in S : TRUE
        OBVIOUS
      <3>2. n - k \in T
        OBVIOUS
      <3> HIDE DEF T
      <3> QED BY <3>2
    <2> QED BY <2>3, <2>4
  <1>2. PICK x \in T : \A y \in T : <<y, x>> \notin Below
    <2> HIDE DEF T
    <2> QED BY <1>1, BelowWF, WFMin
  <1>3. PICK k \in S : x = n - k
    OBVIOUS
  <1>4. ASSUME NEW m \in S PROVE m <= k
    <2>1. <<n - m, x>> \notin Below
      BY <1>2
    <2>2. n - m \in Nat /\ x \in Nat /\ m \in Int /\ k \in Int
      BY <1>1, <1>3
    <2>3. ~(n - m < x)
      BY <2>1, <2>2 DEF Below
    <2> QED BY <1>3, <2>2, <2>3
  <1> QED BY <1>4

\* Some numbers have a smallest among them.
LEMMA Smallest ==
  ASSUME NEW S, S \subseteq Nat, S # {}
  PROVE  \E k \in S : \A m \in S : k <= m
  <1>1. PICK k \in S : \A m \in S : <<m, k>> \notin Below
    BY BelowWF, WFMin
  <1>2. ASSUME NEW m \in S PROVE k <= m
    <2>1. <<m, k>> \notin Below /\ m \in Nat /\ k \in Nat
      BY <1>1
    <2>2. ~(m < k)
      BY <2>1 DEF Below
    <2> QED BY <2>1, <2>2
  <1> QED BY <1>2
=============================================================================
