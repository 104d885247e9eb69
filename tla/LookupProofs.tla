---------------------------- MODULE LookupProofs ----------------------------
(***************************************************************************)
(* The first element of a set of numbers belongs to the set.               *)
(***************************************************************************)
EXTENDS Lookup, TLAPS, FiniteSetTheorems

\* A loop that finds a row finds one that qualifies, and the first one: among
\* the intervals 0 .. n with n in the set there is one that strictly contains
\* no other.
LEMMA FirstOfIn ==
  ASSUME NEW S \in SUBSET Nat, S # {}
  PROVE  /\ FirstOf(S) \in S
         /\ \A m \in S : FirstOf(S) <= m
<1> DEFINE T == {0 .. n : n \in S}
           R == StrictSubsetOrdering(Nat)
<1>1. T \subseteq FiniteSubsetsOf(Nat)
  <2> SUFFICES ASSUME NEW n \in S PROVE 0 .. n \in FiniteSubsetsOf(Nat)
    OBVIOUS
  <2>1. n \in Int /\ 0 \in Int
    OBVIOUS
  <2>2. IsFiniteSet(0 .. n)
    BY <2>1, FS_Interval
  <2> QED BY <2>2 DEF FiniteSubsetsOf
<1>2. T # {}
  OBVIOUS
<1>3. IsWellFoundedOn(R, FiniteSubsetsOf(Nat))
  BY FS_StrictSubsetOrderingWellFounded
<1> HIDE DEF T, R
<1>4. PICK x \in T : \A y \in T : ~(<<y, x>> \in R)
  BY <1>1, <1>2, <1>3, WFMin
<1> USE DEF T
<1>5. PICK n \in S : x = 0 .. n
  OBVIOUS
<1>6. \A m \in S : n <= m
  <2> SUFFICES ASSUME NEW m \in S, m < n PROVE FALSE
    OBVIOUS
  <2>1. 0 .. m \in T
    OBVIOUS
  <2>2. 0 .. m \subseteq 0 .. n /\ 0 .. m # 0 .. n
    <3>1. n \in 0 .. n /\ n \notin 0 .. m
      OBVIOUS
    <3>2. 0 .. m \subseteq 0 .. n
      OBVIOUS
    <3> QED BY <3>1, <3>2
  <2>3. <<0 .. m, x>> \in R
    BY <1>5, <2>2 DEF R, StrictSubsetOrdering
  <2> QED BY <1>4, <2>1, <2>3
<1> QED BY <1>6 DEF FirstOf
=============================================================================
