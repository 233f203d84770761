------------------------------ MODULE Induction ------------------------------
(***************************************************************************)
(* Induction over the natural numbers, stated for sets: what holds of 0    *)
(* and of the successor of each number it holds of, holds of all.  A       *)
(* property P is brought into this form as {n \in Nat : P(n)}.  And what a  *)
(* recursive function over 0..n is.                                        *)
(***************************************************************************)
EXTENDS Integers, WellFoundedInduction, TLAPS

(* Every set of natural numbers that is not empty has a least element. *)
LEMMA NatLeast ==
  ASSUME NEW S, S \subseteq Nat, S # {}
  PROVE  \E m \in S : \A k \in S : m <= k
<1>1. \E x \in S : \A y \in S : ~(<<y, x>> \in OpToRel(<, Nat))
  BY NatLessThanWellFounded, WFMin
<1>2. PICK x \in S : \A y \in S : ~(<<y, x>> \in OpToRel(<, Nat))
  BY <1>1
<1>3. \A y \in S : ~(y < x)
  BY <1>2 DEF OpToRel
<1>4. x \in Nat /\ \A y \in S : y \in Nat
  OBVIOUS
<1>5. \A y \in S : x <= y
  BY <1>3, <1>4
<1> QED BY <1>5

LEMMA NatSetInduction ==
  ASSUME NEW S, 0 \in S, \A n \in Nat : n \in S => n + 1 \in S
  PROVE  Nat \subseteq S
<1> DEFINE B == Nat \ S
<1> SUFFICES ASSUME B # {} PROVE FALSE
  OBVIOUS
<1>1. B \subseteq Nat
  OBVIOUS
<1>2. PICK m \in B : \A k \in B : m <= k
  <2> HIDE DEF B
  <2> QED BY <1>1, NatLeast
<1>3. m \in Nat /\ m # 0
  OBVIOUS
<1>4. m - 1 \in Nat /\ ~(m <= m - 1)
  BY <1>3
<1>5. m - 1 \in S
  BY <1>2, <1>4
<1>6. (m - 1) + 1 \in S
  BY <1>4, <1>5
<1> QED BY <1>3, <1>6

(* What a recursive function over 0..n has: its values are of a set that the  *)
(* steps do not leave.                                                        *)
HasRun(X, c, F, n) == \E g \in [0..n -> X] : g[0] = c /\ \A k \in 1..n : g[k] = F[k][g[k - 1]]

LEMMA Recursion ==
  ASSUME NEW X, NEW c \in X, NEW F \in [Nat -> [X -> X]], NEW n \in Nat
  PROVE  HasRun(X, c, F, n)
<1> DEFINE Runs(g, m) == g[0] = c /\ \A k \in 1..m : g[k] = F[k][g[k - 1]]
           R == {m \in Nat : \E g \in [0..m -> X] : Runs(g, m)}
<1>1. 0 \in R
  <2> DEFINE g == [k \in 0..0 |-> c]
  <2>1. g \in [0..0 -> X] /\ Runs(g, 0)
    OBVIOUS
  <2> QED BY <2>1
<1>2. ASSUME NEW m \in Nat, m \in R PROVE m + 1 \in R
  <2>1. PICK g \in [0..m -> X] : Runs(g, m)
    BY <1>2
  <2> DEFINE e == [k \in 0..(m + 1) |-> IF k <= m THEN g[k] ELSE F[m + 1][g[m]]]
  <2>2. F[m + 1][g[m]] \in X
    <3>1. F[m + 1] \in [X -> X] /\ g[m] \in X
      OBVIOUS
    <3> QED BY <3>1
  <2>3. e \in [0..(m + 1) -> X]
    BY <2>2
  <2>4. e[0] = c
    BY <2>1
  <2>5. ASSUME NEW k \in 1..(m + 1) PROVE e[k] = F[k][e[k - 1]]
    <3>1. e[k - 1] = g[k - 1]
      OBVIOUS
    <3>2. CASE k <= m
      <4>1. k \in 1..m /\ e[k] = g[k]
        BY <3>2
      <4> HIDE DEF e
      <4> QED BY <2>1, <3>1, <4>1
    <3>3. CASE k = m + 1
      <4>1. e[k] = F[m + 1][g[m]] /\ k - 1 = m
        BY <3>3
      <4> HIDE DEF e
      <4> QED BY <3>1, <3>3, <4>1
    <3> QED BY <3>2, <3>3
  <2> HIDE DEF e
  <2>6. Runs(e, m + 1)
    BY <2>4, <2>5
  <2> HIDE DEF Runs
  <2> QED BY <2>3, <2>6
<1> HIDE DEF R
<1>3. n \in R
  BY <1>1, <1>2, NatSetInduction
<1> QED BY <1>3 DEF R, HasRun
==============================================================================
