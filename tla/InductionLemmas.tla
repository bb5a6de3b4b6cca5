--------------------------- MODULE InductionLemmas ---------------------------
(***************************************************************************)
(* Induction and recursion over the natural numbers, stated for sets and   *)
(* functions so that every prover can use them: a predicate is the set of  *)
(* the numbers it holds of, a recursive definition iterates a function.    *)
(***************************************************************************)
EXTENDS Integers, WellFoundedInduction, TLAPS

(* Every set of natural numbers has a least element.                       *)
LEMMA LeastNat ==
  ASSUME NEW T \in SUBSET Nat, T # {}
  PROVE  \E n \in T : \A m \in T : n <= m
<1>1. PICK R : /\ IsWellFoundedOn(R, Nat)
               /\ \A m, n \in Nat : m < n => <<m, n>> \in R
  <2>1. \A m, n \in Nat : m < n => <<m, n>> \in OpToRel(<, Nat)
    BY Zenon DEF OpToRel
  <2> QED
    BY <2>1, NatLessThanWellFounded, Zenon
<1>2. PICK n \in T : \A m \in T : <<m, n>> \notin R
  <2>1. IsWellFoundedOn(R, Nat) /\ T \subseteq Nat /\ T # {}
    BY <1>1
  <2> QED
    BY ONLY <2>1, WFMin, Zenon
<1>3. \A m \in T : ~(m < n)
  BY <1>1, <1>2
<1> QED
  BY <1>2, <1>3

(* What holds of 0, and of n + 1 if of n, holds of every natural number.    *)
LEMMA Induction ==
  ASSUME NEW S, 0 \in S, \A n \in Nat : n \in S => n + 1 \in S
  PROVE  Nat \subseteq S
<1> SUFFICES ASSUME Nat \ S # {} PROVE FALSE
  OBVIOUS
<1>1. PICK n \in Nat \ S : \A m \in Nat \ S : n <= m
  BY LeastNat
<1>2. n - 1 \in Nat /\ n - 1 \in S
  BY <1>1
<1>3. (n - 1) + 1 \in S
  BY <1>2
<1> QED
  BY <1>1, <1>3

(* G leads from a to elements of S only.                                   *)
StaysIn(S, a, G) == a \in S /\ G \in [S -> S]

(* A function on a set can be iterated.                                    *)
LEMMA Iterates ==
  ASSUME NEW S, NEW a, NEW G, StaysIn(S, a, G)
  PROVE  \E f \in [Nat -> S] : f[0] = a /\ \A n \in Nat : f[n + 1] = G[f[n]]
<1>s. a \in S /\ G \in [S -> S]
  BY DEF StaysIn
<1> DEFINE Begins(h, n) == /\ h \in [0 .. n -> S] /\ h[0] = a
                           /\ \A k \in 0 .. n - 1 : h[k + 1] = G[h[k]]
<1>1. ASSUME NEW n \in Nat PROVE \E h \in [0 .. n -> S] : Begins(h, n)
  <2> DEFINE T == {k \in Nat : \E h \in [0 .. k -> S] : Begins(h, k)}
  <2>1. 0 \in T
    <3> DEFINE h == [k \in 0 .. 0 |-> a]
    <3>1. h \in [0 .. 0 -> S] /\ Begins(h, 0)
      BY <1>s
    <3> QED
      BY <3>1
  <2>2. ASSUME NEW k \in Nat, k \in T PROVE k + 1 \in T
    <3>1. PICK h \in [0 .. k -> S] : Begins(h, k)
      BY <2>2
    <3> DEFINE g == [l \in 0 .. k + 1 |-> IF l = k + 1 THEN G[h[k]] ELSE h[l]]
    <3>2. g \in [0 .. k + 1 -> S]
      BY <1>s, <3>1
    <3>3. g[0] = a
      BY <3>1
    <3>4. ASSUME NEW l \in 0 .. (k + 1) - 1 PROVE g[l + 1] = G[g[l]]
      BY <3>1
    <3>5. Begins(g, k + 1)
      BY <3>2, <3>3, <3>4
    <3> HIDE DEF g, Begins
    <3> QED
      BY <3>2, <3>5
  <2> HIDE DEF T
  <2>3. n \in T
    BY <2>1, <2>2, Induction
  <2> QED
    BY <2>3 DEF T
<1>2. ASSUME NEW n \in Nat, NEW m \in Nat, NEW h, NEW g, Begins(h, n), Begins(g, m),
             NEW k \in Nat, k <= n, k <= m
      PROVE  h[k] = g[k]
  <2> DEFINE T == {l \in Nat : l <= n /\ l <= m => h[l] = g[l]}
  <2>1. 0 \in T
    BY <1>2
  <2>2. ASSUME NEW l \in Nat, l \in T PROVE l + 1 \in T
    <3> SUFFICES ASSUME l + 1 <= n, l + 1 <= m PROVE h[l + 1] = g[l + 1]
      OBVIOUS
    <3>1. h[l] = g[l] /\ l \in 0 .. n - 1 /\ l \in 0 .. m - 1
      BY <2>2
    <3> QED
      BY <1>2, <3>1
  <2> HIDE DEF T
  <2>3. k \in T
    BY <2>1, <2>2, Induction
  <2> QED
    BY <1>2, <2>3 DEF T
<1> DEFINE H(n) == CHOOSE h \in [0 .. n -> S] : Begins(h, n)
           f == [n \in Nat |-> H(n)[n]]
<1>3. \A n \in Nat : H(n) \in [0 .. n -> S] /\ Begins(H(n), n)
  BY <1>1
<1>h. \A h, n : Begins(h, n) => \A k \in 0 .. n - 1 : h[k + 1] = G[h[k]]
  OBVIOUS
<1>0. \A n \in Nat : Begins(H(n), n) => H(n)[0] = a
  OBVIOUS
<1> HIDE DEF H, Begins
<1>4. \A n \in Nat : f[n] = H(n)[n] /\ f[n] \in S
  BY <1>3
<1>5. f \in [Nat -> S]
  BY <1>4
<1>6. f[0] = a
  BY <1>0, <1>3, <1>4
<1>7. ASSUME NEW n \in Nat, n # 0 PROVE f[n] = G[f[n - 1]]
  <2>1. n - 1 \in Nat /\ n - 1 \in 0 .. n - 1 /\ (n - 1) + 1 = n /\ n - 1 <= n
    BY <1>7
  <2>2. H(n)[n] = G[H(n)[n - 1]]
    BY <1>3, <1>h, <2>1
  <2>3. H(n)[n - 1] = H(n - 1)[n - 1]
    BY <1>2, <1>3, <2>1
  <2> QED
    BY <1>4, <2>1, <2>2, <2>3
<1>8. ASSUME NEW n \in Nat PROVE f[n + 1] = G[f[n]]
  <2>1. n + 1 \in Nat /\ n + 1 # 0 /\ (n + 1) - 1 = n
    OBVIOUS
  <2> HIDE DEF f
  <2> QED
    BY <1>7, <2>1
<1> HIDE DEF f
<1> QED
  BY <1>5, <1>6, <1>8, Zenon

(* Such an iteration is what a recursive definition defines.               *)
LEMMA Iteration ==
  ASSUME NEW S, NEW a \in S, NEW G \in [S -> S]
  PROVE  \E f \in [Nat -> S] :
           f = [n \in Nat |-> IF n = 0 THEN a ELSE G[f[n - 1]]]
<1>1. PICK f \in [Nat -> S] : f[0] = a /\ \A n \in Nat : f[n + 1] = G[f[n]]
  <2>1. StaysIn(S, a, G)
    BY DEF StaysIn
  <2> QED
    BY <2>1, Iterates
<1>2. ASSUME NEW n \in Nat, n # 0 PROVE f[n] = G[f[n - 1]]
  <2>1. n - 1 \in Nat /\ (n - 1) + 1 = n
    BY <1>2
  <2> QED
    BY <1>1, <2>1
<1>3. f = [n \in Nat |-> IF n = 0 THEN a ELSE G[f[n - 1]]]
  BY <1>1, <1>2
<1> QED
  BY <1>3
==============================================================================
