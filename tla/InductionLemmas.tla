-------------------------- MODULE InductionLemmas --------------------------
(***************************************************************************)
(* Induction for the proofs of this project, in the form its provers can   *)
(* use: what is to be shown of the naturals up to a bound is a set of      *)
(* naturals, and a recursive definition f[n] = G(f[n - 1], n) is the one   *)
(* iteration of a step function.  None of them takes an operator.          *)
(***************************************************************************)
EXTENDS Integers, TLAPS, FiniteSets, FiniteSetTheorems, WellFoundedInduction

\* An interval is finite.
LEMMA IntervalFinite ==
  ASSUME NEW N \in Nat
  PROVE  IsFiniteSet(1..N) /\ Cardinality(1..N) = N
BY FS_Interval

\* A non-empty set of naturals has a least member.
LEMMA LeastNatural ==
  ASSUME NEW T, T \subseteq Nat, T # {}
  PROVE  \E x \in T : \A y \in T : x <= y
<1> DEFINE Upto == {0..x : x \in T}
<1>1. Upto \subseteq FiniteSubsetsOf(Nat) /\ Upto # {}
  <2>1. ASSUME NEW x \in T PROVE 0..x \in FiniteSubsetsOf(Nat)
    <3>1. IsFiniteSet(0..x)
      BY FS_Interval
    <3> QED
      BY <3>1 DEF FiniteSubsetsOf
  <2>2. PICK x \in T : TRUE
    OBVIOUS
  <2>3. 0..x \in Upto
    OBVIOUS
  <2> QED
    BY <2>1, <2>3
<1>2. PICK S \in Upto : \A U \in Upto : ~(<<U, S>> \in StrictSubsetOrdering(Nat))
  <2> HIDE DEF Upto
  <2> QED
    BY <1>1, FS_StrictSubsetOrderingWellFounded, WFMin
<1>3. PICK x \in T : S = 0..x
  BY <1>2
<1>4. ASSUME NEW y \in T, y < x PROVE FALSE
  <2>1. 0..y \in Upto /\ 0..y \subseteq S /\ 0..y # S /\ 0..y \subseteq Nat /\ S \subseteq Nat
    BY <1>3, <1>4
  <2>2. <<0..y, S>> \in StrictSubsetOrdering(Nat)
    BY <2>1 DEF StrictSubsetOrdering
  <2> QED
    BY <2>1, <2>2, <1>2
<1> QED
  BY <1>4

\* A set that holds 0 and with a number its successor holds all naturals.
LEMMA SetInduction ==
  ASSUME NEW G, 0 \in G, \A n \in Nat : n \in G => n + 1 \in G
  PROVE  Nat \subseteq G
<1> DEFINE T == Nat \ G
<1> SUFFICES ASSUME T # {} PROVE FALSE
  OBVIOUS
<1>1. PICK x \in T : \A y \in T : x <= y
  BY LeastNatural
<1>2. x \in Nat \ {0} /\ x - 1 \in Nat /\ x - 1 \notin T
  BY <1>1
<1> QED
  BY <1>2

\* A set that holds a number once it holds all smaller ones holds all naturals.
LEMMA StrongInduction ==
  ASSUME NEW G, \A n \in Nat : (\A m \in 0..(n - 1) : m \in G) => n \in G
  PROVE  Nat \subseteq G
<1> DEFINE T == Nat \ G
<1> SUFFICES ASSUME T # {} PROVE FALSE
  OBVIOUS
<1>1. PICK x \in T : \A y \in T : x <= y
  BY LeastNatural
<1>2. \A m \in 0..(x - 1) : m \in G
  BY <1>1
<1> QED
  BY <1>1, <1>2

\* A non-empty set of naturals below a bound has a greatest member.
LEMMA GreatestNatural ==
  ASSUME NEW N \in Nat, NEW T, T \subseteq 0..N, T # {}
  PROVE  \E x \in T : \A y \in T : y <= x
<1> DEFINE U == {N - x : x \in T}
<1>1. U \subseteq Nat
  OBVIOUS
<1>0. U # {}
  <2>1. PICK x \in T : TRUE
    OBVIOUS
  <2>2. N - x \in U
    OBVIOUS
  <2> QED
    BY <2>2
<1>2. PICK u \in U : \A v \in U : u <= v
  BY <1>0, <1>1, LeastNatural
<1>3. PICK x \in T : u = N - x
  BY <1>2
<1>4. \A y \in T : N - x <= N - y
  BY <1>2, <1>3
<1> QED
  BY <1>4

\* A sequence of steps from a member of S that never leaves S can be taken to
\* any number: what a recursive function over 0..N is defined by exists.
Iterates(f, b, N, Step) == f[0] = b /\ \A n \in 1..N : f[n] = Step[<<f[n - 1], n>>]
LEMMA IterationExists ==
  ASSUME NEW S, NEW b \in S, NEW N \in Nat, NEW Step \in [S \X (1..N) -> S]
  PROVE  \E f \in [0..N -> S] : Iterates(f, b, N, Step)
<1> USE DEF Iterates
<1> DEFINE G == {m \in Nat : m <= N => \E f \in [0..m -> S] : Iterates(f, b, m, Step)}
<1>1. 0 \in G
  <2>1. [n \in 0..0 |-> b] \in [0..0 -> S] /\ Iterates([n \in 0..0 |-> b], b, 0, Step)
    OBVIOUS
  <2> QED
    BY <2>1
<1>2. ASSUME NEW m \in Nat, m \in G PROVE m + 1 \in G
  <2> SUFFICES ASSUME m + 1 <= N PROVE \E f \in [0..(m + 1) -> S] : Iterates(f, b, m + 1, Step)
    OBVIOUS
  <2>1. PICK f \in [0..m -> S] : Iterates(f, b, m, Step)
    BY <1>2
  <2> DEFINE g == [n \in 0..(m + 1) |-> IF n = m + 1 THEN Step[<<f[m], m + 1>>] ELSE f[n]]
  <2>2. f[m] \in S /\ m + 1 \in 1..N
    BY <2>1
  <2>3. Step[<<f[m], m + 1>>] \in S
    BY <2>2
  <2>4. g \in [0..(m + 1) -> S]
    BY <2>1, <2>3
  <2>5. ASSUME NEW n \in 1..(m + 1) PROVE g[n] = Step[<<g[n - 1], n>>]
    <3>1. n - 1 \in 0..m /\ g[n - 1] = f[n - 1]
      OBVIOUS
    <3>2. CASE n = m + 1
      <4>1. n - 1 = m /\ g[m + 1] = Step[<<f[m], m + 1>>]
        BY <3>2
      <4> HIDE DEF g
      <4> QED
        BY <3>1, <3>2, <4>1
    <3>3. CASE n # m + 1
      <4>1. n \in 1..m /\ g[n] = f[n]
        BY <3>3
      <4> QED
        BY <2>1, <3>1, <4>1
    <3> QED
      BY <3>2, <3>3
  <2>6. g[0] = b
    BY <2>1
  <2> QED
    BY <2>4, <2>5, <2>6
<1>3. N \in G
  <2> HIDE DEF G
  <2> QED
    BY <1>1, <1>2, SetInduction
<1> QED
  BY <1>3
=============================================================================
