------------------------------ MODULE SetInduction ------------------------------
(***************************************************************************)
(* Induction over the naturals for a set instead of a predicate, which the *)
(* provers can be given: the sets here take the place of operators.        *)
(***************************************************************************)
EXTENDS Naturals, TLAPS, WellFoundedInduction

Below == {ss \in Nat \X Nat : ss[1] < ss[2]}

LEMMA BelowWellFounded == IsWellFoundedOn(Below, Nat)
  BY NatLessThanWellFounded DEF OpToRel, Below

\* Every set of naturals that is not empty has a least member.
LEMMA NatMinimum ==
    ASSUME NEW T, T \subseteq Nat, T # {}
    PROVE  \E x \in T : \A y \in T : x <= y
<1>1. PICK x \in T : \A y \in T : ~(<<y, x>> \in Below)
  BY BelowWellFounded, WFMin
<1>2. ASSUME NEW y \in T PROVE x <= y
  <2>1. x \in Nat /\ y \in Nat
    OBVIOUS
  <2>2. <<y, x>> \in Below <=> y < x
    BY <2>1 DEF Below
  <2> QED BY <2>1, <2>2, <1>1
<1> QED BY <1>2

\* A set that holds 0, and with each number the next one, holds all.
LEMMA SetInduction ==
    ASSUME NEW S, 0 \in S, \A n \in Nat : n \in S => n + 1 \in S
    PROVE  Nat \subseteq S
<1> DEFINE T == Nat \ S
<1> SUFFICES ASSUME T # {} PROVE FALSE
  OBVIOUS
<1>1. PICK x \in T : \A y \in T : x <= y
  BY NatMinimum
<1>2. x # 0 /\ x - 1 \in Nat
  OBVIOUS
<1>3. x - 1 \in S
  BY <1>1, <1>2
<1>4. (x - 1) + 1 \in S
  BY <1>2, <1>3
<1> QED BY <1>2, <1>4

\* The functions on 0..N that step makes of base.
Recursive(V, base, N, step) ==
    {f \in [0..N -> V] : \A n \in 0..N : f[n] = IF n = 0 THEN base ELSE step[<<n, f[n - 1]>>]}

LEMMA Recursion ==
    ASSUME NEW V, NEW base \in V, NEW N \in Nat, NEW step \in [(1..N) \X V -> V]
    PROVE  Recursive(V, base, N, step) # {}
<1> DEFINE S == {k \in Nat : k <= N => Recursive(V, base, k, step) # {}}
<1>1. 0 \in S
  <2> DEFINE f == [n \in 0..0 |-> base]
  <2>1. f \in [0..0 -> V] /\ \A n \in 0..0 : n = 0 /\ f[n] = base
    OBVIOUS
  <2>2. f \in Recursive(V, base, 0, step)
    <3> HIDE DEF f
    <3>1. \A n \in 0..0 : f[n] = IF n = 0 THEN base ELSE step[<<n, f[n - 1]>>]
      BY <2>1
    <3> QED BY <2>1, <3>1, Zenon DEF Recursive
  <2> QED BY <2>2
<1>2. ASSUME NEW k \in Nat, k \in S PROVE k + 1 \in S
  <2> SUFFICES ASSUME k + 1 <= N PROVE Recursive(V, base, k + 1, step) # {}
    OBVIOUS
  <2>1. PICK f : f \in Recursive(V, base, k, step)
    BY <1>2
  <2>2. /\ f \in [0..k -> V]
        /\ \A n \in 0..k : f[n] = IF n = 0 THEN base ELSE step[<<n, f[n - 1]>>]
    BY <2>1, Zenon DEF Recursive
  <2> DEFINE g == [n \in 0..(k + 1) |-> IF n <= k THEN f[n] ELSE step[<<k + 1, f[k]>>]]
  <2>3. g \in [0..(k + 1) -> V]
    <3>1. f[k] \in V /\ <<k + 1, f[k]>> \in (1..N) \X V
      BY <2>2
    <3>2. step[<<k + 1, f[k]>>] \in V
      BY <3>1
    <3> QED BY <2>2, <3>2
  <2>4. ASSUME NEW n \in 0..(k + 1)
        PROVE  g[n] = IF n = 0 THEN base ELSE step[<<n, g[n - 1]>>]
    <3>1. CASE n <= k
      <4>1. g[n] = f[n] /\ (n # 0 => g[n - 1] = f[n - 1])
        BY <3>1
      <4>2. f[n] = IF n = 0 THEN base ELSE step[<<n, f[n - 1]>>]
        BY <2>2, <3>1
      <4> HIDE DEF g
      <4> QED BY <4>1, <4>2
    <3>2. CASE n = k + 1
      BY <3>2
    <3> QED BY <3>1, <3>2
  <2> QED BY <2>3, <2>4 DEF Recursive
<1>3. N \in S
  <2> HIDE DEF S
  <2> QED BY <1>1, <1>2, SetInduction
<1> QED BY <1>3

\* A set that holds 0, and with each number up to N the next one, holds all of them.
LEMMA UpToInduction ==
    ASSUME NEW S, NEW N \in Nat, 0 \in S, \A n \in 1..N : n - 1 \in S => n \in S
    PROVE  0..N \subseteq S
<1> DEFINE T == {k \in Nat : k <= N => k \in S}
<1>1. ASSUME NEW k \in Nat, k \in T PROVE k + 1 \in T
  <2> SUFFICES ASSUME k + 1 <= N PROVE k + 1 \in S
    OBVIOUS
  <2>1. k \in S /\ k + 1 \in 1..N /\ (k + 1) - 1 = k
    BY <1>1
  <2> QED BY <2>1
<1>2. 0 \in T
  OBVIOUS
<1>3. Nat \subseteq T
  <2> HIDE DEF T
  <2> QED BY <1>1, <1>2, SetInduction
<1> QED BY <1>3
===============================================================================
