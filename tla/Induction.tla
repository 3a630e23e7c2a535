----------------------------- MODULE Induction ------------------------------
(***************************************************************************)
(* Induction and recursion over an initial part of the natural numbers, in *)
(* a form the provers can use: over a set, not an operator.                *)
(*                                                                         *)
(* For a definition  Op == LET f[n \in 0..K] == ... IN f[K]  lemma         *)
(* Recursion shows that there is such an f, so that the f that LET chooses *)
(* is one; what holds of f[K] then follows by InductionTo.                 *)
(***************************************************************************)
EXTENDS Integers, TLAPS, WellFoundedInduction

\* A set of numbers that is not empty has a least one.
LEMMA Least ==
    ASSUME NEW S \in SUBSET Nat, S # {}
    PROVE  \E n \in S : \A j \in S : n <= j
<1> DEFINE R == OpToRel(<, Nat)
<1>1. IsWellFoundedOn(R, Nat)
  BY NatLessThanWellFounded
<1>2. \A x, y \in Nat : <<x, y>> \in R <=> x < y
  BY DEF OpToRel
<1> HIDE DEF R
<1>3. PICK x \in S : \A y \in S : ~ (<<y, x>> \in R)
  BY <1>1, WFMin
<1>4. \A y \in S : ~ (y < x)
  BY <1>2, <1>3
<1>5. \A y \in S : x <= y
  BY <1>4
<1> QED
  BY <1>5

\* A set of numbers up to n that is not empty has a greatest one.
LEMMA Greatest ==
    ASSUME NEW n \in Nat, NEW S \in SUBSET (0..n), S # {}
    PROVE  \E x \in S : \A j \in S : j <= x
<1> DEFINE T == {n - j : j \in S}
<1>1. T \in SUBSET Nat /\ T # {}
  <2>1. \A j \in S : n - j \in Nat /\ n - j \in T
    OBVIOUS
  <2> QED
    BY <2>1
<1> HIDE DEF T
<1>2. PICK y \in T : \A j \in T : y <= j
  BY <1>1, Least
<1>3. PICK x \in S : y = n - x
  BY DEF T
<1>4. \A j \in S : n - j \in T
  BY DEF T
<1>5. \A j \in S : j <= x
  BY <1>2, <1>3, <1>4
<1> QED
  BY <1>5

\* A set that holds zero, and with every number below K the next, holds 0..K.
LEMMA InductionTo ==
    ASSUME NEW K \in Nat, NEW S, 0 \in S,
           \A n \in 0..(K - 1) : n \in S => n + 1 \in S
    PROVE  \A n \in 0..K : n \in S
<1> DEFINE B == {n \in Nat : n \in 0..K /\ n \notin S}
<1>1. B = {}
  <2> SUFFICES ASSUME B # {}
               PROVE  FALSE
    OBVIOUS
  <2>1. B \in SUBSET Nat
    OBVIOUS
  <2> HIDE DEF B
  <2>2. PICK n \in B : \A j \in B : n <= j
    BY <2>1, Least
  <2>3. n \in Nat /\ n \in 0..K /\ n \notin S
    BY DEF B
  <2>4. n # 0
    BY <2>3
  <2>5. n - 1 \in 0..(K - 1) /\ n - 1 \in Nat /\ n - 1 \in 0..K /\ ~ (n <= n - 1)
    BY <2>3, <2>4
  <2>6. n - 1 \in S
    BY <2>2, <2>5 DEF B
  <2>7. (n - 1) + 1 \in S
    BY <2>5, <2>6
  <2> QED
    BY <2>3, <2>7
<1> QED
  BY <1>1

\* A recursion over 0..K has a value.
HasValue(K, V, x, step) ==
    \E f \in [0..K -> V] : f[0] = x /\ \A n \in 1..K : f[n] = step[n][f[n - 1]]

LEMMA Recursion ==
    ASSUME NEW K \in Nat, NEW V, NEW x \in V, NEW step \in [1..K -> [V -> V]]
    PROVE  HasValue(K, V, x, step)
<1> DEFINE G(f, j) == f \in [0..K -> V] /\ \A n \in 0..j : f[n] = IF n = 0 THEN x ELSE step[n][f[n - 1]]
           S == {j \in 0..K : \E f : G(f, j)}
<1>1. 0 \in S
  <2>1. G([n \in 0..K |-> x], 0)
    OBVIOUS
  <2>2. 0 \in 0..K
    OBVIOUS
  <2> QED
    BY <2>1, <2>2
<1>2. ASSUME NEW j \in 0..(K - 1), j \in S
      PROVE  j + 1 \in S
  <2>1. PICK f : G(f, j)
    BY <1>2
  <2> DEFINE g == [f EXCEPT ![j + 1] = step[j + 1][f[j]]]
  <2>2. j + 1 \in 1..K /\ j \in 0..K /\ j + 1 \in 0..K
    OBVIOUS
  <2>3. f \in [0..K -> V] /\ \A n \in 0..j : f[n] = IF n = 0 THEN x ELSE step[n][f[n - 1]]
    BY <2>1
  <2>4. step[j + 1][f[j]] \in V
    BY <2>2, <2>3
  <2>5. g \in [0..K -> V]
    BY <2>2, <2>3, <2>4
  <2>6. ASSUME NEW n \in 0..(j + 1)
        PROVE  g[n] = IF n = 0 THEN x ELSE step[n][g[n - 1]]
    <3>1. CASE n = j + 1
      BY <2>2, <2>3, <3>1
    <3>2. CASE n # j + 1
      <4>1. n \in 0..j
        BY <3>2
      <4>2. g[n] = f[n] /\ (n # 0 => g[n - 1] = f[n - 1])
        BY <2>2, <2>3, <4>1
      <4> QED
        BY <2>3, <4>1, <4>2
    <3> QED
      BY <3>1, <3>2
  <2> HIDE DEF g
  <2>7. G(g, j + 1)
    BY <2>5, <2>6
  <2> QED
    BY <2>2, <2>7
<1> HIDE DEF S
<1>3. \A n \in 0..K : n \in S
  BY <1>1, <1>2, InductionTo
<1>4. PICK f : G(f, K)
  BY <1>3 DEF S
<1>5. f[0] = x /\ \A n \in 1..K : f[n] = step[n][f[n - 1]]
  BY <1>4
<1>6. f \in [0..K -> V]
  BY <1>4
<1>7. \E g \in [0..K -> V] : g[0] = x /\ \A n \in 1..K : g[n] = step[n][g[n - 1]]
  BY ONLY <1>5, <1>6
<1> QED
  BY ONLY <1>7 DEF HasValue
=============================================================================
