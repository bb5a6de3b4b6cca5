---------------------------- MODULE TablesProofs -----------------------------
(***************************************************************************)
(* Proofs about Tables, for any data, number of repetitions and contents   *)
(* of the stack: the table of knapsack holds the best values over all sets *)
(* of items, that of lcs the lengths of the longest common subsequences,   *)
(* and edit_distance, whose cells share words, stays inside its own.       *)
(***************************************************************************)
EXTENDS Tables, InductionLemmas, FiniteSetTheorems, TLAPS

(* A bounded set of numbers has a greatest element, and only one.          *)
LEMMA Greatest ==
  ASSUME NEW S \in SUBSET Nat, S # {}, NEW b \in Nat, \A x \in S : x <= b
  PROVE  Max(S) \in S /\ \A x \in S : x <= Max(S)
<1> DEFINE T == {n \in Nat : \A x \in S : x <= n}
<1>1. PICK n \in T : \A m \in T : n <= m
  <2>1. T \in SUBSET Nat /\ T # {}
    OBVIOUS
  <2> HIDE DEF T
  <2> QED
    BY <2>1, LeastNat
<1>2. n \in S
  <2> SUFFICES ASSUME n \notin S PROVE FALSE
    OBVIOUS
  <2>1. PICK x \in S : TRUE
    OBVIOUS
  <2>2. \A y \in S : y < n
    OBVIOUS
  <2>3. n - 1 \in T
    BY <2>1, <2>2
  <2> QED
    BY <1>1, <2>3
<1>3. \E x \in S : \A y \in S : x >= y
  BY <1>2
<1> QED
  BY <1>3 DEF Max

-----------------------------------------------------------------------------
(* Sums.                                                                   *)
Sums(f, items) ==
  CHOOSE sum : sum = [k \in Nat |-> IF k = 0 THEN 0
                                    ELSE sum[k - 1] + (IF k \in items THEN f[k] ELSE 0)]

(* The numbers of a function can be summed up.                             *)
LEMMA SumExists ==
  ASSUME NEW d \in [Nat -> Nat]
  PROVE  \E g \in [Nat -> Nat] : g = [k \in Nat |-> IF k = 0 THEN 0 ELSE g[k - 1] + d[k]]
<1>s. PICK S : S = Nat \X Nat
  OBVIOUS
<1>a. PICK a \in S : a = <<0, 0>>
  BY <1>s
<1>2. PICK G \in [S -> S] : G = [p \in S |-> <<p[1] + 1, p[2] + d[p[1] + 1]>>]
  <2>1. [p \in S |-> <<p[1] + 1, p[2] + d[p[1] + 1]>>] \in [S -> S]
    BY <1>s
  <2> QED
    BY <2>1
<1>3. PICK f \in [Nat -> S] : f[0] = a /\ \A n \in Nat : f[n + 1] = G[f[n]]
  <2>1. StaysIn(S, a, G)
    BY DEF StaysIn
  <2> QED
    BY <2>1, Iterates
<1>4. \A n \in Nat : f[n] \in S /\ f[n + 1] = G[f[n]]
  BY <1>3
<1>5. ASSUME NEW n \in Nat
      PROVE  /\ f[n][1] \in Nat /\ f[n][2] \in Nat
             /\ f[n + 1][1] = f[n][1] + 1
             /\ f[n + 1][2] = f[n][2] + d[f[n][1] + 1]
  <2>1. f[n] \in S /\ f[n + 1] = G[f[n]]
    BY <1>4
  <2>2. f[n + 1] = <<f[n][1] + 1, f[n][2] + d[f[n][1] + 1]>>
    BY <1>2, <2>1
  <2> QED
    BY <1>s, <2>1, <2>2
<1> DEFINE c == [n \in Nat |-> f[n][1]]
           g == [n \in Nat |-> f[n][2]]
<1>6. /\ c[0] = 0 /\ g[0] = 0
      /\ \A n \in Nat : /\ c[n + 1] = c[n] + 1
                        /\ g[n + 1] = g[n] + d[c[n] + 1]
  <2>1. c[0] = 0 /\ g[0] = 0
    BY <1>3, <1>a
  <2>2. ASSUME NEW n \in Nat
        PROVE  c[n + 1] = c[n] + 1 /\ g[n + 1] = g[n] + d[c[n] + 1]
    <3>1. /\ n + 1 \in Nat
          /\ c[n + 1] = f[n + 1][1] /\ g[n + 1] = f[n + 1][2]
          /\ c[n] = f[n][1] /\ g[n] = f[n][2]
      OBVIOUS
    <3> HIDE DEF c, g
    <3> QED
      BY <1>5, <3>1
  <2> QED
    BY <2>1, <2>2
<1>7. g \in [Nat -> Nat]
  BY <1>5, Zenon
<1> HIDE DEF c, g
<1>8. \A n \in Nat : c[n] = n
  <2> DEFINE T == {n \in Nat : c[n] = n}
  <2>1. 0 \in T /\ \A n \in Nat : n \in T => n + 1 \in T
    BY ONLY <1>6
  <2> HIDE DEF T
  <2>2. Nat \subseteq T
    BY <2>1, Induction
  <2> QED
    BY <2>2 DEF T
<1>9. ASSUME NEW k \in Nat, k # 0 PROVE g[k] = g[k - 1] + d[k]
  <2>1. k - 1 \in Nat /\ (k - 1) + 1 = k
    BY <1>9
  <2> QED
    BY ONLY <1>6, <1>8, <2>1
<1>10. g = [k \in Nat |-> IF k = 0 THEN 0 ELSE g[k - 1] + d[k]]
  BY ONLY <1>6, <1>7, <1>9
<1> QED
  BY <1>7, <1>10

(* s[n] is the sum of the first n numbers of d.                            *)
SumsUp(s, d) == /\ d \in [Nat -> Nat]
                /\ s[0] = 0 /\ \A n \in Nat : s[n + 1] = s[n] + d[n + 1]

(* Sums of natural numbers are natural numbers.                            *)
LEMMA SumsAreNat ==
  ASSUME NEW d, NEW s, SumsUp(s, d)
  PROVE  \A n \in Nat : s[n] \in Nat
<1>0. /\ d \in [Nat -> Nat]
      /\ s[0] = 0 /\ \A n \in Nat : s[n + 1] = s[n] + d[n + 1]
  BY DEF SumsUp
<1> DEFINE T == {n \in Nat : s[n] \in Nat}
<1>1. 0 \in T
  BY <1>0
<1>2. ASSUME NEW n \in Nat, s[n] \in Nat PROVE s[n + 1] \in Nat
  BY <1>0, <1>2
<1>3. \A n \in Nat : n \in T => n + 1 \in T
  BY <1>2
<1> HIDE DEF T
<1>4. Nat \subseteq T
  BY <1>1, <1>3, Induction
<1> QED
  BY <1>4 DEF T

(* Sums are well defined.                                                  *)
LEMMA SumsAre ==
  ASSUME NEW f \in Seq(Nat), NEW items \in SUBSET (1 .. Len(f))
  PROVE  \E d, s :
           /\ \A k \in Nat : d[k] = IF k \in items THEN f[k] ELSE 0
           /\ SumsUp(s, d)
           /\ Total(f, items) = s[Len(f)]
<1> DEFINE Add(k) == IF k \in items THEN f[k] ELSE 0
<1>1. PICK d \in [Nat -> Nat] : \A k \in Nat : d[k] = Add(k)
  <2>1. [k \in Nat |-> Add(k)] \in [Nat -> Nat]
    OBVIOUS
  <2> QED
    BY <2>1
<1>2. PICK g \in [Nat -> Nat] : g = [k \in Nat |-> IF k = 0 THEN 0 ELSE g[k - 1] + d[k]]
  BY SumExists
<1>3. g = [k \in Nat |-> IF k = 0 THEN 0 ELSE g[k - 1] + Add(k)]
  <2> HIDE DEF Add
  <2> QED
    BY <1>1, <1>2, Zenon
<1>4. PICK s : s = Sums(f, items)
  OBVIOUS
<1>5. s = [k \in Nat |-> IF k = 0 THEN 0 ELSE s[k - 1] + Add(k)]
  BY <1>3, <1>4, Zenon DEF Sums
<1>6. s = [k \in Nat |-> IF k = 0 THEN 0 ELSE s[k - 1] + d[k]]
  <2> HIDE DEF Add
  <2> QED
    BY <1>1, <1>5, Zenon
<1>7. s[0] = 0 /\ \A n \in Nat : s[n + 1] = s[n] + d[n + 1]
  <2>1. ASSUME NEW n \in Nat PROVE s[n + 1] = s[n] + d[n + 1]
    <3>1. n + 1 \in Nat /\ n + 1 # 0 /\ (n + 1) - 1 = n
      OBVIOUS
    <3> QED
      BY ONLY <1>6, <3>1
  <2> QED
    BY ONLY <1>6, <2>1
<1>8. Total(f, items) = s[Len(f)]
  BY <1>4 DEF Total, Sums
<1>9. SumsUp(s, d)
  BY <1>7 DEF SumsUp
<1> QED
  BY <1>1, <1>8, <1>9

(* One more addend makes the sums greater by it.                           *)
LEMMA SumsDiffer ==
  ASSUME NEW d, NEW s, SumsUp(s, d), NEW e, NEW t, SumsUp(t, e),
         NEW i \in Nat \ {0}, d[i] = 0, \A k \in Nat : k # i => e[k] = d[k]
  PROVE  \A n \in Nat : t[n] = s[n] + (IF i <= n THEN e[i] ELSE 0)
<1>0. /\ d \in [Nat -> Nat] /\ e \in [Nat -> Nat] /\ s[0] = 0 /\ t[0] = 0
      /\ \A n \in Nat : s[n + 1] = s[n] + d[n + 1] /\ t[n + 1] = t[n] + e[n + 1]
  BY DEF SumsUp
<1> DEFINE T == {n \in Nat : t[n] = s[n] + (IF i <= n THEN e[i] ELSE 0)}
<1>1. 0 \in T
  BY <1>0
<1>2. \A n \in Nat : s[n] \in Nat /\ t[n] \in Nat
  BY SumsAreNat
<1>3. ASSUME NEW n \in Nat, n \in T PROVE n + 1 \in T
  <2>1. t[n] = s[n] + (IF i <= n THEN e[i] ELSE 0)
    BY <1>3
  <2>2. /\ s[n] \in Nat /\ t[n] \in Nat /\ n + 1 \in Nat
        /\ d[n + 1] \in Nat /\ e[n + 1] \in Nat /\ e[i] \in Nat
    BY <1>0, <1>2
  <2>3. CASE n + 1 = i
    <3>1. ~(i <= n) /\ i <= n + 1 /\ s[n + 1] = s[n] + d[i] /\ t[n + 1] = t[n] + e[i]
      BY <1>0, <2>3
    <3> QED
      BY <1>0, <2>1, <2>2, <3>1
  <2>4. CASE n + 1 # i
    <3>1. e[n + 1] = d[n + 1] /\ (i <= n <=> i <= n + 1)
      BY <2>2, <2>4
    <3> QED
      BY <1>0, <2>1, <2>2, <3>1
  <2> QED
    BY <2>3, <2>4
<1> HIDE DEF T
<1>4. Nat \subseteq T
  BY <1>1, <1>3, Induction
<1> QED
  BY <1>4 DEF T

(* Greater addends make a greater sum.                                     *)
LEMMA SumsGrow ==
  ASSUME NEW d, NEW s, SumsUp(s, d), NEW e, NEW t, SumsUp(t, e),
         \A k \in Nat : d[k] <= e[k]
  PROVE  \A n \in Nat : s[n] <= t[n]
<1>0. /\ d \in [Nat -> Nat] /\ e \in [Nat -> Nat] /\ s[0] = 0 /\ t[0] = 0
      /\ \A n \in Nat : s[n + 1] = s[n] + d[n + 1] /\ t[n + 1] = t[n] + e[n + 1]
  BY DEF SumsUp
<1> DEFINE T == {n \in Nat : s[n] <= t[n]}
<1>1. 0 \in T
  BY <1>0
<1>2. \A n \in Nat : s[n] \in Nat /\ t[n] \in Nat
  BY SumsAreNat
<1>3. ASSUME NEW n \in Nat, n \in T PROVE n + 1 \in T
  BY <1>0, <1>2, <1>3
<1> HIDE DEF T
<1>4. Nat \subseteq T
  BY <1>1, <1>3, Induction
<1> QED
  BY <1>4 DEF T

(* The sum over no items, over some items and over one more.               *)
LEMMA Totals ==
  ASSUME NEW f \in Seq(Nat), NEW items \in SUBSET (1 .. Len(f))
  PROVE  /\ Total(f, items) \in Nat
         /\ Total(f, 1 .. Len(f)) \in Nat
         /\ Total(f, items) <= Total(f, 1 .. Len(f))
         /\ items = {} => Total(f, items) = 0
         /\ \A i \in (1 .. Len(f)) \ items :
              Total(f, items \cup {i}) = Total(f, items) + f[i]
<1>1. Len(f) \in Nat /\ \A k \in 1 .. Len(f) : f[k] \in Nat
  OBVIOUS
<1>2. PICK d, s :
           /\ \A k \in Nat : d[k] = IF k \in items THEN f[k] ELSE 0
           /\ SumsUp(s, d)
           /\ Total(f, items) = s[Len(f)]
  BY SumsAre
<1>3. PICK e, t :
           /\ \A k \in Nat : e[k] = IF k \in 1 .. Len(f) THEN f[k] ELSE 0
           /\ SumsUp(t, e)
           /\ Total(f, 1 .. Len(f)) = t[Len(f)]
  BY SumsAre
<1>4. \A n \in Nat : s[n] \in Nat /\ t[n] \in Nat
  BY <1>2, <1>3, SumsAreNat
<1>5. \A n \in Nat : s[n] <= t[n]
  <2>1. ASSUME NEW k \in Nat PROVE d[k] <= e[k]
    <3>1. CASE k \in 1 .. Len(f)
      <4>1. e[k] = f[k] /\ (d[k] = f[k] \/ d[k] = 0)
        BY <1>2, <1>3, <3>1, Zenon
      <4>2. f[k] \in Nat
        BY <1>1, <3>1
      <4> QED
        BY <4>1, <4>2
    <3>2. CASE k \notin 1 .. Len(f)
      <4>1. k \notin items
        BY <3>2
      <4>2. e[k] = 0 /\ d[k] = 0
        BY <1>2, <1>3, <3>2, <4>1, Zenon
      <4> QED
        BY <4>2
    <3> QED
      BY <3>1, <3>2
  <2> QED
    BY <1>2, <1>3, <2>1, SumsGrow
<1>6. ASSUME items = {} PROVE s[Len(f)] = 0
  <2> DEFINE T == {n \in Nat : s[n] = 0}
  <2>1. 0 \in T
    BY <1>2 DEF SumsUp
  <2>0. \A k \in Nat : d[k] = 0
    BY <1>2, <1>6, Zenon
  <2>2. ASSUME NEW n \in Nat, n \in T PROVE n + 1 \in T
    <3>1. n + 1 \in Nat /\ s[n] = 0
      BY <2>2
    <3>2. s[n + 1] = s[n] + d[n + 1] /\ d[n + 1] = 0
      BY <1>2, <2>0, <3>1 DEF SumsUp
    <3> QED
      BY <3>1, <3>2
  <2> HIDE DEF T
  <2>3. Nat \subseteq T
    BY <2>1, <2>2, Induction
  <2> QED
    BY <1>1, <2>3 DEF T
<1>7. ASSUME NEW i \in (1 .. Len(f)) \ items
      PROVE  Total(f, items \cup {i}) = s[Len(f)] + f[i]
  <2>0. PICK more \in SUBSET (1 .. Len(f)) : more = items \cup {i}
    OBVIOUS
  <2>1. PICK a, r :
             /\ \A k \in Nat : a[k] = IF k \in more THEN f[k] ELSE 0
             /\ SumsUp(r, a)
             /\ Total(f, more) = r[Len(f)]
    BY SumsAre
  <2>2. i \in Nat \ {0} /\ i <= Len(f)
    BY <1>1
  <2>3. d[i] = 0 /\ a[i] = f[i] /\ \A k \in Nat : k # i => a[k] = d[k]
    <3>1. i \in more /\ i \notin items /\ \A k : k # i => (k \in more <=> k \in items)
      BY <2>0
    <3> QED
      BY <1>2, <2>1, <2>2, <3>1, Zenon
  <2>4. \A n \in Nat : r[n] = s[n] + (IF i <= n THEN a[i] ELSE 0)
    BY <1>2, <2>1, <2>2, <2>3, SumsDiffer
  <2> QED
    BY <1>1, <2>0, <2>1, <2>2, <2>3, <2>4
<1> QED
  BY <1>1, <1>2, <1>3, <1>4, <1>5, <1>6, <1>7

-----------------------------------------------------------------------------
(* Knapsack.                                                               *)
Fits(i, c) == {items \in SUBSET (1 .. i) : Total(tIn.weight, items) <= c}

IsBest(i, c, b) ==
  /\ \E items \in Fits(i, c) : Total(tIn.value, items) = b
  /\ \A items \in Fits(i, c) : Total(tIn.value, items) <= b

(* Weights and values of the items are natural numbers.                    *)
LEMMA KsData ==
  ASSUME tIn \in Inputs, Runs("knapsack")
  PROVE  /\ tIn.capacity \in Nat
         /\ tIn.weight \in Seq(Nat) /\ tIn.value \in Seq(Nat)
         /\ Len(tIn.weight) \in Nat /\ Len(tIn.value) = Len(tIn.weight)
  BY TablesAssumption DEF Runs

(* So are the weight and the value of each item.                           *)
LEMMA ItemIs ==
  ASSUME tIn \in Inputs, Runs("knapsack"), NEW i \in 1 .. Len(tIn.weight)
  PROVE  tIn.weight[i] \in Nat /\ tIn.value[i] \in Nat
<1>1. PICK w \in Seq(Nat), v \in Seq(Nat) : w = tIn.weight /\ v = tIn.value
  BY KsData
<1>2. i \in 1 .. Len(w) /\ i \in 1 .. Len(v)
  BY <1>1, KsData
<1>3. w[i] \in Nat
  BY <1>2
<1>4. v[i] \in Nat
  BY <1>2
<1> QED
  BY <1>1, <1>3, <1>4

(* Every choice of items has a weight and a value.                         *)
LEMMA FitsAre ==
  ASSUME tIn \in Inputs, Runs("knapsack"), NEW i \in 0 .. Len(tIn.weight), NEW c \in Nat,
         NEW items \in SUBSET (1 .. i)
  PROVE  /\ items \in SUBSET (1 .. Len(tIn.weight))
         /\ Total(tIn.weight, items) \in Nat
         /\ Total(tIn.value, items) \in Nat
<1>1. PICK n \in Nat : n = Len(tIn.weight) /\ n = Len(tIn.value)
  BY KsData
<1>2. items \in SUBSET (1 .. n)
  BY <1>1
<1>3. items \in SUBSET (1 .. Len(tIn.weight)) /\ Total(tIn.weight, items) \in Nat
  BY KsData, <1>1, <1>2, Totals
<1>4. items \in SUBSET (1 .. Len(tIn.value)) /\ Total(tIn.value, items) \in Nat
  BY KsData, <1>1, <1>2, Totals
<1> QED
  BY <1>3, <1>4

(* There is a best choice, since no choice is worth more than all items.   *)
LEMMA BestExists ==
  ASSUME tIn \in Inputs, Runs("knapsack"), NEW i \in 0 .. Len(tIn.weight), NEW c \in Nat
  PROVE  BestValue(i, c) \in Nat /\ IsBest(i, c, BestValue(i, c))
<1> DEFINE S == {Total(tIn.value, items) : items \in Fits(i, c)}
           all == Total(tIn.value, 1 .. Len(tIn.value))
<1>1. S \in SUBSET Nat
  BY FitsAre DEF Fits
<1>2. S # {}
  <2>1. Total(tIn.weight, {}) = 0
    BY KsData, Totals
  <2>2. {} \in Fits(i, c)
    BY <2>1 DEF Fits
  <2> QED
    BY <2>2
<1>3. all \in Nat /\ \A x \in S : x <= all
  BY KsData, FitsAre, Totals DEF Fits
<1>4. BestValue(i, c) = Max(S)
  BY DEF BestValue, Fits
<1>5. \A x : x \in S <=> \E items \in Fits(i, c) : Total(tIn.value, items) = x
  OBVIOUS
<1> HIDE DEF S, all
<1>6. Max(S) \in S /\ \A x \in S : x <= Max(S)
  BY <1>1, <1>2, <1>3, Greatest
<1> QED
  BY <1>1, <1>4, <1>5, <1>6 DEF IsBest

(* There is but one.                                                       *)
LEMMA BestIsOne ==
  ASSUME tIn \in Inputs, Runs("knapsack"), NEW i \in 0 .. Len(tIn.weight), NEW c \in Nat,
         NEW b \in Nat, IsBest(i, c, b)
  PROVE  BestValue(i, c) = b
<1>1. PICK a \in Nat : a = BestValue(i, c)
  BY BestExists
<1>2. IsBest(i, c, a)
  BY <1>1, BestExists
<1>3. a <= b /\ b <= a
  BY <1>2 DEF IsBest
<1> QED
  BY <1>1, <1>3

(* What is worth most without item i, and with it.                         *)
LEMMA BestOfItem ==
  ASSUME tIn \in Inputs, Runs("knapsack"), NEW i \in 1 .. Len(tIn.weight), NEW c \in Nat,
         NEW a \in Nat, IsBest(i - 1, c, a)
  PROVE  /\ c < tIn.weight[i] => IsBest(i, c, a)
         /\ \A b \in Nat :
              c >= tIn.weight[i] /\ IsBest(i - 1, c - tIn.weight[i], b)
              => IsBest(i, c, IF a < b + tIn.value[i] THEN b + tIn.value[i] ELSE a)
<1>1. PICK n \in Nat : n = Len(tIn.weight)
  BY KsData
<1>2. PICK w \in Nat, v \in Nat : w = tIn.weight[i] /\ v = tIn.value[i]
  BY ItemIs
<1>3. i \in 1 .. n /\ i - 1 \in 0 .. n
  BY <1>1
<1>4. ASSUME NEW items \in SUBSET (1 .. i - 1)
      PROVE  /\ items \cup {i} \in SUBSET (1 .. i)
             /\ items \in SUBSET (1 .. i) /\ i \notin items
             /\ Total(tIn.weight, items) \in Nat /\ Total(tIn.value, items) \in Nat
             /\ Total(tIn.weight, items \cup {i}) = Total(tIn.weight, items) + w
             /\ Total(tIn.value, items \cup {i}) = Total(tIn.value, items) + v
  <2>1. items \cup {i} \in SUBSET (1 .. i) /\ items \in SUBSET (1 .. i) /\ i \notin items
    BY <1>3
  <2>2. items \in SUBSET (1 .. n) /\ i \in (1 .. n) \ items
    BY <1>3, <2>1
  <2> QED
    BY KsData, <1>1, <1>2, <2>1, <2>2, Totals
<1>5. ASSUME NEW items \in SUBSET (1 .. i)
      PROVE  /\ items \ {i} \in SUBSET (1 .. i - 1)
             /\ i \in items => items = (items \ {i}) \cup {i}
             /\ i \notin items => items = items \ {i}
  BY <1>3
<1>6. PICK best \in Fits(i - 1, c) : Total(tIn.value, best) = a
  BY DEF IsBest
<1>7. best \in Fits(i, c)
  BY <1>4 DEF Fits
<1>8. ASSUME NEW items \in Fits(i, c), i \notin items
      PROVE  Total(tIn.value, items) <= a
  BY <1>5, <1>8 DEF Fits, IsBest
<1>9. ASSUME NEW items \in Fits(i, c), i \in items
      PROVE  /\ w <= c /\ items \ {i} \in Fits(i - 1, c - w)
             /\ Total(tIn.value, items \ {i}) \in Nat
             /\ Total(tIn.value, items) = Total(tIn.value, items \ {i}) + v
  <2>1. PICK rest \in SUBSET (1 .. i - 1) : rest = items \ {i} /\ items = rest \cup {i}
    BY <1>5, <1>9 DEF Fits
  <2>2. Total(tIn.weight, rest) + w <= c
    BY <1>4, <2>1 DEF Fits
  <2>3. Total(tIn.weight, rest) \in Nat
    BY <1>4
  <2>4. w <= c /\ Total(tIn.weight, rest) <= c - w
    BY <2>2, <2>3
  <2> QED
    BY <1>4, <2>1, <2>4 DEF Fits
<1>10. ASSUME c < w PROVE IsBest(i, c, a)
  <2>1. ASSUME NEW items \in Fits(i, c) PROVE i \notin items
    <3>1. ~(w <= c)
      BY <1>10
    <3> QED
      BY <1>9, <3>1, Zenon
  <2> QED
    BY <1>6, <1>7, <1>8, <2>1 DEF IsBest
<1>11. ASSUME NEW b \in Nat, c >= w, IsBest(i - 1, c - w, b)
       PROVE  IsBest(i, c, IF a < b + v THEN b + v ELSE a)
  <2>1. PICK other \in Fits(i - 1, c - w) : Total(tIn.value, other) = b
    BY <1>11 DEF IsBest
  <2>2. other \in SUBSET (1 .. i - 1) /\ Total(tIn.weight, other) <= c - w
    BY DEF Fits
  <2>3. PICK with : with = other \cup {i}
    OBVIOUS
  <2>4. /\ with \in SUBSET (1 .. i) /\ Total(tIn.weight, with) = Total(tIn.weight, other) + w
        /\ Total(tIn.weight, other) \in Nat /\ Total(tIn.value, with) = b + v
    BY <1>4, <2>1, <2>2, <2>3
  <2>5. with \in Fits(i, c)
    <3>1. Total(tIn.weight, other) + w <= c
      BY <1>11, <2>2, <2>4
    <3> QED
      BY <2>4, <3>1 DEF Fits
  <2>6. ASSUME NEW items \in Fits(i, c)
        PROVE  Total(tIn.value, items) <= a \/ Total(tIn.value, items) <= b + v
    <3>1. CASE i \notin items
      BY <1>8, <3>1
    <3>2. CASE i \in items
      <4>1. PICK x \in Nat : x = Total(tIn.value, items \ {i})
        BY <1>9, <3>2
      <4>2. x <= b /\ Total(tIn.value, items) = x + v
        BY <1>9, <1>11, <3>2, <4>1 DEF IsBest
      <4> QED
        BY <4>2
    <3> QED
      BY <3>1, <3>2
  <2>7. ASSUME NEW items \in Fits(i, c) PROVE Total(tIn.value, items) \in Nat
    <3>1. items \in SUBSET (1 .. i) /\ i \in 0 .. Len(tIn.weight)
      BY <1>1, <1>3 DEF Fits
    <3> QED
      BY <3>1, FitsAre
  <2>8. CASE a < b + v
    <3>1. \A items \in Fits(i, c) : Total(tIn.value, items) <= b + v
      BY <2>6, <2>7, <2>8
    <3> QED
      BY <2>4, <2>5, <2>8, <3>1 DEF IsBest
  <2>9. CASE ~(a < b + v)
    <3>1. \A items \in Fits(i, c) : Total(tIn.value, items) <= a
      BY <2>6, <2>7, <2>9
    <3> QED
      BY <1>6, <1>7, <2>9, <3>1 DEF IsBest
  <2> QED
    BY <2>8, <2>9
<1> QED
  BY <1>2, <1>10, <1>11

(* The words of the table are numbers.                                     *)
KsInv ==
  /\ tIn \in Inputs
  /\ Runs("knapsack") => DOMAIN tTable = KsCells
  /\ Runs("knapsack") /\ tPc = "fill" =>
       tI \in 1 .. Len(tIn.weight) + 1 /\ tJ \in -1 .. tIn.capacity
  /\ KnapsackBest

(* How many items the word of capacity w accounts for.                     *)
Done(w) == IF tI > Len(tIn.weight) \/ w <= tJ THEN tI - 1 ELSE tI

(* What the invariant says of one word.                                    *)
LEMMA DoneItems ==
  ASSUME KsInv, Runs("knapsack"), tPc = "fill", NEW w \in KsCells
  PROVE  /\ Done(w) \in 0 .. Len(tIn.weight) /\ w \in Nat
         /\ tTable[w] = BestValue(Done(w), w)
<1>1. Len(tIn.weight) \in Nat /\ tIn.capacity \in Nat
  BY KsData DEF KsInv
<1>2. w \in Nat /\ Done(w) \in 0 .. Len(tIn.weight)
  BY <1>1 DEF KsInv, Done, KsCells
<1>3. tTable[w] = BestValue(Done(w), w)
  BY Zenon DEF KsInv, KnapsackBest, Done
<1> QED
  BY <1>2, <1>3

(* The values depend on the data alone.                                    *)
LEMMA BestIsFixed ==
  ASSUME tIn' = tIn
  PROVE  \A i, c : BestValue(i, c)' = BestValue(i, c)
  BY DEF BestValue, Total

(* Nothing is worth anything without items.                                *)
LEMMA NoItems ==
  ASSUME tIn \in Inputs, Runs("knapsack"), NEW c \in Nat
  PROVE  BestValue(0, c) = 0
<1>1. Total(tIn.weight, {}) = 0 /\ Total(tIn.value, {}) = 0
  BY KsData, Totals
<1>2. \A items : items \in Fits(0, c) <=> items = {}
  <2>1. SUBSET (1 .. 0) = {{}}
    OBVIOUS
  <2> QED
    BY <1>1, <2>1 DEF Fits
<1>3. IsBest(0, c, 0)
  BY <1>1, <1>2 DEF IsBest
<1>4. 0 \in 0 .. Len(tIn.weight)
  BY KsData
<1> QED
  BY <1>3, <1>4, BestIsOne

(* The word of the cell takes item tI in or leaves it; the word it is      *)
(* computed from, with a smaller capacity, has not seen that item yet.     *)
LEMMA KsCellStep ==
  ASSUME KsInv, KsCell PROVE KnapsackBest'
<1> SUFFICES ASSUME NEW w \in KsCells PROVE tTable'[w] = BestValue(Done(w)', w)
  <2>1. KsCells' = KsCells /\ \A i, c : BestValue(i, c)' = BestValue(i, c)
    BY BestIsFixed DEF KsCell, Fill, KsCells
  <2> QED
    BY <2>1 DEF KnapsackBest, Done
<1>1. /\ tIn \in Inputs /\ Runs("knapsack") /\ tPc = "fill"
      /\ tIn' = tIn /\ tI' = tI /\ tJ' = tJ - 1
      /\ tI <= Len(tIn.weight) /\ tJ >= tIn.weight[tI]
      /\ tI \in 1 .. Len(tIn.weight) + 1 /\ tJ \in -1 .. tIn.capacity
      /\ DOMAIN tTable = KsCells
  BY DEF KsInv, KsCell, Fill, KsCells
<1>2. Len(tIn.weight) \in Nat /\ tIn.capacity \in Nat
  BY <1>1, KsData
<1>3. tI \in 1 .. Len(tIn.weight)
  BY <1>1, <1>2
<1>4. tIn.weight[tI] \in Nat /\ tIn.value[tI] \in Nat
  BY <1>1, <1>3, ItemIs
<1>5. tJ \in KsCells /\ tJ - tIn.weight[tI] \in KsCells
  BY <1>1, <1>2, <1>4 DEF KsCells
<1>6. Done(w)' = IF w <= tJ - 1 THEN tI - 1 ELSE tI
  BY <1>1, <1>2, <1>3 DEF Done
<1>7. w \in Nat /\ tTable[w] = BestValue(Done(w), w)
  BY <1>1, DoneItems
<1>8. CASE w # tJ
  <2>1. tTable'[w] = tTable[w]
    BY <1>8 DEF KsCell
  <2>2. Done(w)' = Done(w)
    BY <1>1, <1>2, <1>3, <1>6, <1>7, <1>8 DEF Done
  <2> QED
    BY <1>7, <2>1, <2>2
<1>9. CASE w = tJ
  <2>1. PICK k \in KsCells : k = tJ - tIn.weight[tI]
    BY <1>5
  <2>2. Done(w) = tI - 1 /\ Done(k) = tI - 1 /\ Done(w)' = tI /\ k \in Nat
    BY <1>1, <1>2, <1>3, <1>4, <1>6, <1>7, <1>9, <2>1 DEF Done, KsCells
  <2>3. tTable[w] = BestValue(tI - 1, w) /\ tTable[k] = BestValue(tI - 1, k)
    BY <1>1, <1>7, <2>1, <2>2, DoneItems
  <2>4. PICK a \in Nat, b \in Nat : /\ a = tTable[w] /\ IsBest(tI - 1, w, a)
                                   /\ b = tTable[k] /\ IsBest(tI - 1, k, b)
    <3>1. tI - 1 \in 0 .. Len(tIn.weight)
      BY <1>2, <1>3
    <3> QED
      BY <1>1, <1>7, <2>2, <2>3, <3>1, BestExists
  <2>5. PICK m : m = IF a < b + tIn.value[tI] THEN b + tIn.value[tI] ELSE a
    OBVIOUS
  <2>6. m \in Nat
    BY <1>4, <2>5
  <2>7. IsBest(tI, w, m)
    BY <1>1, <1>3, <1>7, <1>9, <2>1, <2>4, <2>5, BestOfItem
  <2>8. BestValue(tI, w) = m
    <3>1. tI \in 0 .. Len(tIn.weight)
      BY <1>3
    <3> QED
      BY <1>1, <1>7, <2>6, <2>7, <3>1, BestIsOne
  <2>9. tTable'[w] = m
    BY <1>1, <1>9, <2>1, <2>4, <2>5 DEF KsCell
  <2> QED
    BY <2>2, <2>8, <2>9
<1> QED
  BY <1>8, <1>9

(* An item is too heavy for the words that its loop has not reached.       *)
LEMMA KsItemStep ==
  ASSUME KsInv, KsNextItem PROVE KnapsackBest'
<1> SUFFICES ASSUME NEW w \in KsCells PROVE tTable'[w] = BestValue(Done(w)', w)
  <2>1. KsCells' = KsCells /\ \A i, c : BestValue(i, c)' = BestValue(i, c)
    BY BestIsFixed DEF KsNextItem, Fill, KsCells
  <2> QED
    BY <2>1 DEF KnapsackBest, Done
<1>1. /\ tIn \in Inputs /\ Runs("knapsack") /\ tPc = "fill" /\ tTable' = tTable
      /\ tIn' = tIn /\ tI' = tI + 1 /\ tJ' = tIn.capacity
      /\ tI <= Len(tIn.weight) /\ tJ < tIn.weight[tI]
      /\ tI \in 1 .. Len(tIn.weight) + 1 /\ tJ \in -1 .. tIn.capacity
  BY DEF KsInv, KsNextItem, Fill
<1>2. Len(tIn.weight) \in Nat /\ tIn.capacity \in Nat
  BY <1>1, KsData
<1>3. tI \in 1 .. Len(tIn.weight)
  BY <1>1, <1>2
<1>4. w \in Nat /\ w <= tIn.capacity /\ tTable[w] = BestValue(Done(w), w)
  BY <1>1, <1>2, DoneItems DEF KsCells
<1>5. Done(w)' = tI
  BY <1>1, <1>2, <1>3, <1>4 DEF Done
<1>6. CASE w > tJ
  <2>1. Done(w) = tI
    BY <1>1, <1>2, <1>3, <1>4, <1>6 DEF Done
  <2> QED
    BY <1>1, <1>4, <1>5, <2>1
<1>7. CASE w <= tJ
  <2>1. Done(w) = tI - 1
    BY <1>7 DEF Done
  <2>2. tI - 1 \in 0 .. Len(tIn.weight) /\ tI \in 0 .. Len(tIn.weight)
    BY <1>2, <1>3
  <2>3. PICK a \in Nat : a = tTable[w] /\ IsBest(tI - 1, w, a)
    BY <1>1, <1>4, <2>1, <2>2, BestExists
  <2>4. w < tIn.weight[tI]
    <3>1. tIn.weight[tI] \in Nat
      BY <1>1, <1>3, ItemIs
    <3> QED
      BY <1>1, <1>4, <1>7, <3>1
  <2>5. IsBest(tI, w, a)
    BY <1>1, <1>3, <1>4, <2>3, <2>4, BestOfItem
  <2> QED
    BY <1>1, <1>4, <1>5, <2>2, <2>3, <2>5, BestIsOne
<1> QED
  BY <1>1, <1>2, <1>4, <1>6, <1>7

(* A repetition starts with zeros, whatever the last one has left.         *)
LEMMA KsBeginStep ==
  ASSUME KsInv, KsBegin PROVE KnapsackBest'
<1> SUFFICES ASSUME NEW w \in KsCells PROVE tTable'[w] = BestValue(Done(w)', w)
  <2>1. KsCells' = KsCells /\ \A i, c : BestValue(i, c)' = BestValue(i, c)
    BY BestIsFixed DEF KsBegin, KsCells
  <2> QED
    BY <2>1 DEF KnapsackBest, Done
<1>1. /\ tIn \in Inputs /\ Runs("knapsack") /\ tTable'[w] = 0
      /\ tIn' = tIn /\ tI' = 1 /\ tJ' = tIn.capacity
  BY DEF KsInv, KsBegin, Begin
<1>2. Len(tIn.weight) \in Nat /\ tIn.capacity \in Nat
  BY <1>1, KsData
<1>3. w \in Nat /\ w <= tIn.capacity
  BY <1>2 DEF KsCells
<1>4. Done(w)' = 0
  BY <1>1, <1>2, <1>3 DEF Done
<1> QED
  BY <1>1, <1>3, <1>4, NoItems

(* No repetition has begun.                                                *)
LEMMA KsInvInit == TInit => KsInv
  BY DEF TInit, KsInv, Runs, KnapsackBest

(* Every step of knapsack, and of the programs it is not, keeps KsInv.     *)
LEMMA KsInvStep == KsInv /\ [TNext]_tVars => KsInv'
<1> SUFFICES ASSUME KsInv, [TNext]_tVars PROVE KsInv'
  OBVIOUS
<1>1. CASE KsBegin
  <2>1. tIn.capacity \in Nat /\ Len(tIn.weight) \in Nat
    BY <1>1, KsData DEF KsInv, KsBegin, Begin
  <2> QED
    BY <1>1, <2>1, KsBeginStep DEF KsInv, KsBegin, Begin, Runs, KsCells
<1>2. CASE KsCell
  <2>1. tIn.capacity \in Nat /\ Len(tIn.weight) \in Nat
    BY <1>2, KsData DEF KsInv, KsCell, Fill
  <2>2. tI \in 1 .. Len(tIn.weight) /\ tIn.weight[tI] \in Nat
    <3>1. tI \in 1 .. Len(tIn.weight)
      BY <1>2, <2>1 DEF KsInv, KsCell, Fill
    <3> QED
      BY <1>2, <3>1, ItemIs DEF KsInv, KsCell, Fill
  <2>3. tJ - 1 \in -1 .. tIn.capacity
    BY <1>2, <2>1, <2>2 DEF KsInv, KsCell, Fill
  <2>4. DOMAIN tTable' = DOMAIN tTable
    BY <1>2 DEF KsCell
  <2> QED
    BY <1>2, <2>3, <2>4, KsCellStep DEF KsInv, KsCell, Fill, Runs, KsCells
<1>3. CASE KsNextItem
  <2>1. tIn.capacity \in Nat /\ Len(tIn.weight) \in Nat
    BY <1>3, KsData DEF KsInv, KsNextItem, Fill
  <2>2. tI + 1 \in 1 .. Len(tIn.weight) + 1
    BY <1>3, <2>1 DEF KsInv, KsNextItem, Fill
  <2> QED
    BY <1>3, <2>1, <2>2, KsItemStep DEF KsInv, KsNextItem, Fill, Runs, KsCells
<1>4. CASE KsEnd
  BY <1>4 DEF KsInv, KsEnd, Repeated, Runs, KsCells, KnapsackBest
<1>5. CASE LcsBegin \/ LcsCell \/ LcsNextRow \/ LcsEnd
  BY <1>5 DEF KsInv, LcsBegin, LcsCell, LcsNextRow, LcsEnd, Begin, Fill, Repeated, Runs,
              KnapsackBest
<1>6. CASE EdBegin \/ EdCell \/ EdNextRow \/ EdEnd
  BY <1>6 DEF KsInv, EdBegin, EdCell, EdNextRow, EdEnd, Begin, Fill, Runs, KnapsackBest
<1>7. CASE TReturn
  BY <1>7 DEF KsInv, TReturn, Runs, KsCells, KnapsackBest
<1>8. CASE UNCHANGED tVars
  <2>1. \A i, c : BestValue(i, c)' = BestValue(i, c)
    BY <1>8, BestIsFixed DEF tVars
  <2> QED
    BY <1>8, <2>1 DEF KsInv, tVars, Runs, KsCells, KnapsackBest
<1> QED
  BY <1>1, <1>2, <1>3, <1>4, <1>5, <1>6, <1>7, <1>8 DEF TNext

(* The words of knapsack's table are the best values, for all items and    *)
(* capacities, in every repetition.                                        *)
THEOREM KnapsackIsBest == TSpec => []KnapsackBest
<1>1. KsInv => KnapsackBest
  BY DEF KsInv
<1> QED
  BY <1>1, KsInvInit, KsInvStep, PTL DEF TSpec

-----------------------------------------------------------------------------
(* The longest common subsequence.                                         *)
Pairs(i, j) == {p \in (1 .. i) \X (1 .. j) : tIn.s[p[1]] = tIn.t[p[2]]}

InOrder(P) == \A p, q \in P : p[1] < q[1] <=> p[2] < q[2]

IsLongest(i, j, n) ==
  /\ \E P \in Common(i, j) : Cardinality(P) = n
  /\ \A P \in Common(i, j) : Cardinality(P) <= n

(* Common subsequences in these terms.                                     *)
LEMMA CommonIs ==
  \A i, j : Common(i, j) = {P \in SUBSET Pairs(i, j) : InOrder(P)}
  BY DEF Common, Pairs, InOrder

(* A common subsequence is finite.                                         *)
LEMMA CommonFinite ==
  ASSUME NEW i \in Nat, NEW j \in Nat, NEW P \in Common(i, j)
  PROVE  /\ IsFiniteSet(P) /\ Cardinality(P) \in Nat
         /\ Cardinality((1 .. i) \X (1 .. j)) \in Nat
         /\ Cardinality(P) <= Cardinality((1 .. i) \X (1 .. j))
<1>1. P \in SUBSET ((1 .. i) \X (1 .. j))
  BY CommonIs DEF Pairs
<1>2. IsFiniteSet((1 .. i) \X (1 .. j))
  <2>1. IsFiniteSet(1 .. i) /\ IsFiniteSet(1 .. j)
    BY FS_Interval
  <2> QED
    BY <2>1, FS_Product
<1> QED
  BY <1>1, <1>2, FS_Subset, FS_CardinalityType

(* There is a longest one.                                                 *)
LEMMA LongestExists ==
  ASSUME NEW i \in Nat, NEW j \in Nat
  PROVE  Longest(i, j) \in Nat /\ IsLongest(i, j, Longest(i, j))
<1> DEFINE S == {Cardinality(P) : P \in Common(i, j)}
           all == Cardinality((1 .. i) \X (1 .. j))
<1>1. {} \in Common(i, j)
  BY CommonIs DEF InOrder
<1>2. S \in SUBSET Nat /\ S # {}
  <2>1. \A P \in Common(i, j) : Cardinality(P) \in Nat
    BY CommonFinite
  <2> QED
    BY <1>1, <2>1
<1>3. all \in Nat /\ \A x \in S : x <= all
  BY <1>1, CommonFinite
<1>4. Longest(i, j) = Max(S)
  BY DEF Longest
<1>5. \A x : x \in S <=> \E P \in Common(i, j) : Cardinality(P) = x
  OBVIOUS
<1> HIDE DEF S, all
<1>6. Max(S) \in S /\ \A x \in S : x <= Max(S)
  BY <1>2, <1>3, Greatest
<1> QED
  BY <1>2, <1>4, <1>5, <1>6 DEF IsLongest

(* All of them are of the same length.                                     *)
LEMMA LongestIsOne ==
  ASSUME NEW i \in Nat, NEW j \in Nat, NEW n \in Nat, IsLongest(i, j, n)
  PROVE  Longest(i, j) = n
<1>1. PICK m \in Nat : m = Longest(i, j)
  BY LongestExists
<1>2. IsLongest(i, j, m)
  BY <1>1, LongestExists
<1>3. m <= n /\ n <= m
  BY <1>2 DEF IsLongest
<1> QED
  BY <1>1, <1>3

(* No letters have nothing in common with any others.                      *)
LEMMA NothingInCommon ==
  ASSUME NEW i \in Nat, NEW j \in Nat, i = 0 \/ j = 0
  PROVE  Longest(i, j) = 0
<1>1. Pairs(i, j) = {}
  <2>1. 1 .. i = {} \/ 1 .. j = {}
    OBVIOUS
  <2> QED
    BY <2>1 DEF Pairs
<1>2. Cardinality({}) = 0
  BY FS_EmptySet
<1>3. \A P : P \in Common(i, j) <=> P = {}
  <2>1. InOrder({})
    BY DEF InOrder
  <2> QED
    BY <1>1, <2>1, CommonIs
<1>4. IsLongest(i, j, 0)
  <2>1. {} \in Common(i, j) /\ \A P \in Common(i, j) : Cardinality(P) = 0
    BY <1>2, <1>3, Zenon
  <2> QED
    BY <1>2, <2>1 DEF IsLongest
<1> QED
  BY <1>4, LongestIsOne

(* At most one pair has the last letter of either word.                    *)
LEMMA LastPair ==
  ASSUME NEW i \in Nat \ {0}, NEW j \in Nat \ {0}, NEW P \in Common(i, j),
         NEW p \in P, NEW q \in P, p[1] = i \/ p[2] = j, q[1] = i \/ q[2] = j
  PROVE  p = q
<1>1. /\ p = <<p[1], p[2]>> /\ p[1] \in 1 .. i /\ p[2] \in 1 .. j
      /\ q = <<q[1], q[2]>> /\ q[1] \in 1 .. i /\ q[2] \in 1 .. j
  BY CommonIs DEF Pairs
<1>2. (p[1] < q[1] <=> p[2] < q[2]) /\ (q[1] < p[1] <=> q[2] < p[2])
  BY CommonIs DEF InOrder
<1>3. p[1] = q[1] /\ p[2] = q[2]
  BY <1>1, <1>2
<1> QED
  BY <1>1, <1>3

(* Without the last letter of both words, or of one of them.               *)
LEMMA CommonPart ==
  ASSUME NEW i \in Nat, NEW j \in Nat, NEW k \in 0 .. i, NEW l \in 0 .. j
  PROVE  /\ Common(k, l) \subseteq Common(i, j)
         /\ \A P \in Common(i, j) :
              (\A p \in P : p[1] <= k /\ p[2] <= l) => P \in Common(k, l)
<1>1. Pairs(k, l) \subseteq Pairs(i, j)
  BY DEF Pairs
<1>2. \A p \in Pairs(i, j) : p[1] <= k /\ p[2] <= l => p \in Pairs(k, l)
  BY DEF Pairs
<1> QED
  BY <1>1, <1>2, CommonIs

(* Equal letters at the end make a common subsequence longer by one.       *)
LEMMA LongestSame ==
  ASSUME NEW i \in Nat \ {0}, NEW j \in Nat \ {0}, tIn.s[i] = tIn.t[j],
         NEW n \in Nat, IsLongest(i - 1, j - 1, n)
  PROVE  IsLongest(i, j, n + 1)
<1>0. i - 1 \in Nat /\ j - 1 \in Nat /\ i - 1 \in 0 .. i /\ j - 1 \in 0 .. j
  OBVIOUS
<1>1. \E P \in Common(i, j) : Cardinality(P) = n + 1
  <2>1. PICK Q \in Common(i - 1, j - 1) : Cardinality(Q) = n
    BY DEF IsLongest
  <2>2. IsFiniteSet(Q)
    BY <1>0, CommonFinite
  <2>3. Q \in Common(i, j)
    <3>1. PICK k \in 0 .. i, l \in 0 .. j : k = i - 1 /\ l = j - 1
      BY <1>0
    <3>2. Common(k, l) \subseteq Common(i, j)
      BY CommonPart
    <3> QED
      BY <3>1, <3>2
  <2>4. \A p \in Q : p[1] \in 1 .. i - 1 /\ p[2] \in 1 .. j - 1
    BY CommonIs DEF Pairs
  <2>5. <<i, j>> \notin Q
    BY <2>4
  <2>6. Cardinality(Q \cup {<<i, j>>}) = n + 1
    BY <2>1, <2>2, <2>5, FS_AddElement
  <2>7. <<i, j>> \in Pairs(i, j)
    BY DEF Pairs
  <2>8. InOrder(Q \cup {<<i, j>>})
    <3> SUFFICES ASSUME NEW p \in Q \cup {<<i, j>>}, NEW q \in Q \cup {<<i, j>>}
                 PROVE  p[1] < q[1] <=> p[2] < q[2]
      BY DEF InOrder
    <3>1. CASE p \in Q /\ q \in Q
      BY <2>3, <3>1, CommonIs DEF InOrder
    <3>2. CASE p \in Q /\ q = <<i, j>>
      <4>1. p[1] < i /\ p[2] < j
        BY <2>4, <3>2
      <4> QED
        BY <3>2, <4>1
    <3>3. CASE p = <<i, j>> /\ q \in Q
      <4>1. ~(i < q[1]) /\ ~(j < q[2])
        BY <2>4, <3>3
      <4> QED
        BY <3>3, <4>1
    <3>4. CASE p = <<i, j>> /\ q = <<i, j>>
      BY <3>4
    <3> QED
      BY <3>1, <3>2, <3>3, <3>4
  <2>9. Q \cup {<<i, j>>} \in Common(i, j)
    BY <2>3, <2>7, <2>8, CommonIs
  <2> QED
    BY <2>6, <2>9
<1>2. ASSUME NEW P \in Common(i, j) PROVE Cardinality(P) <= n + 1
  <2>0. /\ IsFiniteSet(P) /\ Cardinality(P) \in Nat
        /\ \A p \in P : p[1] \in 1 .. i /\ p[2] \in 1 .. j
    BY CommonFinite, CommonIs DEF Pairs
  <2>1. CASE \A p \in P : p[1] # i /\ p[2] # j
    <3>1. \A p \in P : p[1] <= i - 1 /\ p[2] <= j - 1
      BY <2>0, <2>1
    <3>2. P \in Common(i - 1, j - 1)
      BY <1>0, <3>1, CommonPart
    <3> QED
      BY <2>0, <3>2 DEF IsLongest
  <2>2. ASSUME NEW q \in P, q[1] = i \/ q[2] = j PROVE Cardinality(P) <= n + 1
    <3> DEFINE Q == P \ {q}
    <3>1. Cardinality(Q) = Cardinality(P) - 1 /\ Cardinality(P) >= 1
      <4>1. Cardinality(Q) = Cardinality(P) - 1 /\ Cardinality(Q) \in Nat
        BY <2>0, FS_RemoveElement, FS_CardinalityType
      <4> QED
        BY <2>0, <4>1
    <3>2. \A p \in Q : p[1] <= i - 1 /\ p[2] <= j - 1
      <4>1. ASSUME NEW p \in Q PROVE p[1] # i /\ p[2] # j
        BY <2>2, LastPair
      <4> QED
        BY <2>0, <4>1
    <3>3. Q \in Common(i, j)
      <4>1. P \in SUBSET Pairs(i, j) /\ InOrder(P)
        BY CommonIs
      <4>2. Q \in SUBSET Pairs(i, j) /\ InOrder(Q)
        BY <4>1 DEF InOrder
      <4> QED
        BY <4>2, CommonIs
    <3>4. Q \in Common(i - 1, j - 1)
      BY <1>0, <3>2, <3>3, CommonPart
    <3> HIDE DEF Q
    <3>5. Cardinality(Q) <= n
      BY <3>4 DEF IsLongest
    <3> QED
      BY <2>0, <3>1, <3>5
  <2> QED
    BY <2>1, <2>2
<1> QED
  BY <1>1, <1>2 DEF IsLongest

(* With different letters at the end one of them is in no pair.            *)
LEMMA LongestOther ==
  ASSUME NEW i \in Nat \ {0}, NEW j \in Nat \ {0}, tIn.s[i] # tIn.t[j],
         NEW up \in Nat, IsLongest(i - 1, j, up),
         NEW left \in Nat, IsLongest(i, j - 1, left)
  PROVE  IsLongest(i, j, IF up > left THEN up ELSE left)
<1>0. i - 1 \in 0 .. i /\ j - 1 \in 0 .. j /\ i \in 0 .. i /\ j \in 0 .. j
  OBVIOUS
<1>1. Common(i - 1, j) \subseteq Common(i, j) /\ Common(i, j - 1) \subseteq Common(i, j)
  BY <1>0, CommonPart
<1>2. ASSUME NEW P \in Common(i, j)
      PROVE  Cardinality(P) \in Nat /\ (Cardinality(P) <= up \/ Cardinality(P) <= left)
  <2>0. /\ Cardinality(P) \in Nat
        /\ \A p \in P : p[1] \in 1 .. i /\ p[2] \in 1 .. j /\ tIn.s[p[1]] = tIn.t[p[2]]
    BY CommonFinite, CommonIs DEF Pairs
  <2>1. CASE \A p \in P : p[1] # i
    <3>1. \A p \in P : p[1] <= i - 1 /\ p[2] <= j
      BY <2>0, <2>1
    <3>2. P \in Common(i - 1, j)
      BY <1>0, <3>1, CommonPart
    <3> QED
      BY <2>0, <3>2 DEF IsLongest
  <2>2. CASE \A p \in P : p[2] # j
    <3>1. \A p \in P : p[1] <= i /\ p[2] <= j - 1
      BY <2>0, <2>2
    <3>2. P \in Common(i, j - 1)
      BY <1>0, <3>1, CommonPart
    <3> QED
      BY <2>0, <3>2 DEF IsLongest
  <2>3. ASSUME NEW p \in P, p[1] = i, NEW q \in P, q[2] = j PROVE FALSE
    <3>0. (p[1] = i \/ p[2] = j) /\ (q[1] = i \/ q[2] = j)
      BY <2>3
    <3>1. p = q
      BY ONLY <3>0, i \in Nat \ {0}, j \in Nat \ {0}, P \in Common(i, j), p \in P, q \in P,
              LastPair
    <3> QED
      BY <2>0, <2>3, <3>1
  <2> QED
    BY <2>1, <2>2, <2>3
<1>3. CASE up > left
  <2>1. \A P \in Common(i, j) : Cardinality(P) <= up
    BY <1>2, <1>3
  <2> QED
    BY <1>1, <1>3, <2>1 DEF IsLongest
<1>4. CASE ~(up > left)
  <2>1. \A P \in Common(i, j) : Cardinality(P) <= left
    BY <1>2, <1>4
  <2> QED
    BY <1>1, <1>4, <2>1 DEF IsLongest
<1> QED
  BY <1>3, <1>4

(* The cells of lcs are words of their own.                                *)
LEMMA LcsWords ==
  ASSUME NEW m \in Nat, NEW n \in Nat,
         NEW i \in 0 .. m, NEW j \in 0 .. n, NEW k \in 0 .. m, NEW l \in 0 .. n
  PROVE  /\ i * (n + 1) + j \in 0 .. (m + 1) * (n + 1) - 1
         /\ i * (n + 1) + j = k * (n + 1) + l => i = k /\ j = l
<1>1. PICK r \in Nat : r = n + 1
  OBVIOUS
<1>2. ASSUME NEW a \in Nat, NEW b \in Nat, a < b PROVE a * r + r <= b * r
  <2>1. b * r = a * r + r + (b - a - 1) * r
    BY <1>2
  <2>2. (b - a - 1) \in Nat
    BY <1>2
  <2>3. (b - a - 1) * r \in Nat /\ a * r \in Nat
    BY <2>2
  <2> QED
    BY <2>1, <2>3
<1>3. i * r \in Nat /\ k * r \in Nat /\ (m + 1) * r \in Nat
  OBVIOUS
<1>4. j < r /\ l < r
  BY <1>1
<1>5. i * r + r <= (m + 1) * r
  BY <1>2
<1>6. i * r + j \in 0 .. (m + 1) * r - 1
  BY <1>3, <1>4, <1>5
<1>7. ASSUME i * r + j = k * r + l PROVE i = k /\ j = l
  <2>1. ~(i < k)
    <3>1. i < k => i * r + r <= k * r
      BY <1>2
    <3> QED
      BY <1>3, <1>4, <1>7, <3>1
  <2>2. ~(k < i)
    <3>1. k < i => k * r + r <= i * r
      BY <1>2
    <3> QED
      BY <1>3, <1>4, <1>7, <3>1
  <2>3. i = k
    BY <2>1, <2>2
  <2>4. i * r = k * r
    BY <2>3
  <2> QED
    BY <1>3, <1>7, <2>3, <2>4
<1> QED
  BY <1>1, <1>6, <1>7

(* The cells that hold their value: those of row and column 0 from the     *)
(* start, the others as they are filled.                                   *)
Filled(i, j) == i < tI \/ (i = tI /\ j < tJ) \/ j = 0

LcsInv ==
  /\ tIn \in Inputs
  /\ Runs("lcs") => DOMAIN tTable = TableWords \cup {-1}
  /\ Runs("lcs") /\ tPc = "fill" =>
       /\ tI \in 1 .. M + 1 /\ tJ \in 1 .. N + 1
       /\ \A i \in 0 .. M, j \in 0 .. N :
            Filled(i, j) => tTable[LcsWord(i, j)] = Longest(i, j)

(* The lengths of the words are natural numbers.                           *)
LEMMA LcsData ==
  ASSUME tIn \in Inputs, Runs("lcs")
  PROVE  M \in Nat /\ N \in Nat
  BY TablesAssumption DEF Runs, M, N

(* The lengths depend on the words alone.                                  *)
LEMMA LongestIsFixed ==
  ASSUME tIn' = tIn
  PROVE  \A i, j : Longest(i, j)' = Longest(i, j)
  BY DEF Longest, Common

(* The words of cells.                                                     *)
LEMMA LcsWordsAre ==
  ASSUME tIn \in Inputs, Runs("lcs"), NEW i \in 0 .. M, NEW j \in 0 .. N
  PROVE  /\ LcsWord(i, j) \in TableWords
         /\ \A k \in 0 .. M, l \in 0 .. N :
              LcsWord(i, j) = LcsWord(k, l) => i = k /\ j = l
<1>1. PICK m \in Nat, n \in Nat : m = M /\ n = N
  BY LcsData
<1>2. i \in 0 .. m /\ j \in 0 .. n
  BY <1>1
<1>3. i * (n + 1) + j \in 0 .. (m + 1) * (n + 1) - 1
  BY <1>2, LcsWords
<1>4. ASSUME NEW k \in 0 .. m, NEW l \in 0 .. n, i * (n + 1) + j = k * (n + 1) + l
      PROVE  i = k /\ j = l
  BY ONLY <1>2, <1>4, m \in Nat, n \in Nat, LcsWords
<1> QED
  BY <1>1, <1>3, <1>4 DEF LcsWord, TableWords

(* A repetition starts with zeros.                                         *)
LEMMA LcsBeginStep ==
  ASSUME LcsInv, LcsBegin PROVE LcsInv'
<1>1. /\ tIn \in Inputs /\ Runs("lcs") /\ tIn' = tIn /\ tI' = 1 /\ tJ' = 1
      /\ M' = M /\ N' = N /\ TableWords' = TableWords
      /\ DOMAIN tTable = TableWords \cup {-1}
      /\ DOMAIN tTable' = DOMAIN tTable
      /\ \A k \in TableWords : tTable'[k] = 0
  BY DEF LcsInv, LcsBegin, Begin, M, N, TableWords
<1>2. M \in Nat /\ N \in Nat
  BY <1>1, LcsData
<1>3. ASSUME NEW i \in 0 .. M, NEW j \in 0 .. N, Filled(i, j)'
      PROVE  tTable'[LcsWord(i, j)] = Longest(i, j)
  <2>1. (i = 0 \/ j = 0) /\ i \in Nat /\ j \in Nat
    BY <1>1, <1>2, <1>3 DEF Filled
  <2>2. Longest(i, j) = 0
    BY <2>1, NothingInCommon
  <2>3. LcsWord(i, j) \in TableWords
    BY <1>1, LcsWordsAre
  <2> QED
    BY <1>1, <2>2, <2>3
<1>4. \A i, j : Longest(i, j)' = Longest(i, j) /\ LcsWord(i, j)' = LcsWord(i, j)
  BY <1>1, LongestIsFixed DEF LcsWord
<1> QED
  BY <1>1, <1>2, <1>3, <1>4 DEF LcsInv, Runs

(* A cell is filled from three that hold their value.                      *)
LEMMA LcsCellStep ==
  ASSUME LcsInv, LcsCell PROVE LcsInv'
<1>1. /\ tIn \in Inputs /\ Runs("lcs") /\ tIn' = tIn /\ tI' = tI /\ tJ' = tJ + 1
      /\ tPc = "fill" /\ tI <= M /\ tJ <= N
      /\ M' = M /\ N' = N /\ TableWords' = TableWords
      /\ DOMAIN tTable = TableWords \cup {-1}
      /\ DOMAIN tTable' = DOMAIN tTable
      /\ tI \in 1 .. M + 1 /\ tJ \in 1 .. N + 1
  BY DEF LcsInv, LcsCell, Fill, M, N, TableWords
<1>2. M \in Nat /\ N \in Nat
  BY <1>1, LcsData
<1>3. /\ tI \in Nat \ {0} /\ tJ \in Nat \ {0}
      /\ tI \in 0 .. M /\ tJ \in 0 .. N /\ tI - 1 \in 0 .. M /\ tJ - 1 \in 0 .. N
      /\ tI - 1 \in Nat /\ tJ - 1 \in Nat
  BY <1>1, <1>2
<1>4. \A i \in 0 .. M, j \in 0 .. N :
        Filled(i, j) => tTable[LcsWord(i, j)] = Longest(i, j)
  BY <1>1 DEF LcsInv
<1>5. PICK up \in Nat, left \in Nat, diag \in Nat :
        /\ up = tTable[LcsWord(tI - 1, tJ)] /\ IsLongest(tI - 1, tJ, up)
        /\ left = tTable[LcsWord(tI, tJ - 1)] /\ IsLongest(tI, tJ - 1, left)
        /\ diag = tTable[LcsWord(tI - 1, tJ - 1)] /\ IsLongest(tI - 1, tJ - 1, diag)
  <2>1. Filled(tI - 1, tJ) /\ Filled(tI, tJ - 1) /\ Filled(tI - 1, tJ - 1)
    BY <1>3 DEF Filled
  <2>2. /\ tTable[LcsWord(tI - 1, tJ)] = Longest(tI - 1, tJ)
        /\ tTable[LcsWord(tI, tJ - 1)] = Longest(tI, tJ - 1)
        /\ tTable[LcsWord(tI - 1, tJ - 1)] = Longest(tI - 1, tJ - 1)
    BY <1>3, <1>4, <2>1
  <2> QED
    BY <1>3, <2>2, LongestExists
<1>6. PICK cell : cell = IF tIn.s[tI] = tIn.t[tJ] THEN diag + 1
                         ELSE IF up > left THEN up ELSE left
  OBVIOUS
<1>7. tTable' = [tTable EXCEPT ![LcsWord(tI, tJ)] = cell]
  BY <1>5, <1>6 DEF LcsCell
<1>8. Longest(tI, tJ) = cell
  <2>1. CASE tIn.s[tI] = tIn.t[tJ]
    <3>1. IsLongest(tI, tJ, diag + 1)
      BY <1>3, <1>5, <2>1, LongestSame
    <3>2. diag + 1 \in Nat
      OBVIOUS
    <3> QED
      BY <1>3, <1>6, <2>1, <3>1, <3>2, LongestIsOne
  <2>2. CASE tIn.s[tI] # tIn.t[tJ]
    <3>1. IsLongest(tI, tJ, IF up > left THEN up ELSE left)
      BY <1>3, <1>5, <2>2, LongestOther
    <3>2. (IF up > left THEN up ELSE left) \in Nat
      OBVIOUS
    <3> QED
      BY <1>3, <1>6, <2>2, <3>1, <3>2, LongestIsOne
  <2> QED
    BY <2>1, <2>2
<1>9. ASSUME NEW i \in 0 .. M, NEW j \in 0 .. N, Filled(i, j)'
      PROVE  tTable'[LcsWord(i, j)] = Longest(i, j)
  <2>1. LcsWord(i, j) \in DOMAIN tTable
    BY <1>1, LcsWordsAre
  <2>2. CASE i = tI /\ j = tJ
    BY <1>7, <1>8, <2>1, <2>2
  <2>3. CASE ~(i = tI /\ j = tJ)
    <3>1. Filled(i, j)
      BY <1>1, <1>2, <1>3, <1>9, <2>3 DEF Filled
    <3>2. LcsWord(i, j) # LcsWord(tI, tJ)
      BY <1>1, <1>3, <2>3, LcsWordsAre
    <3> QED
      BY <1>4, <1>7, <2>1, <3>1, <3>2
  <2> QED
    BY <2>2, <2>3
<1>10. \A i, j : Longest(i, j)' = Longest(i, j) /\ LcsWord(i, j)' = LcsWord(i, j)
  BY <1>1, LongestIsFixed DEF LcsWord
<1>11. tI' \in 1 .. M + 1 /\ tJ' \in 1 .. N + 1
  BY <1>1, <1>2
<1> QED
  BY <1>1, <1>9, <1>10, <1>11 DEF LcsInv, Runs

(* The next row starts with its column 0 filled.                           *)
LEMMA LcsRowStep ==
  ASSUME LcsInv, LcsNextRow PROVE LcsInv'
<1>1. /\ tIn \in Inputs /\ Runs("lcs") /\ tIn' = tIn /\ tI' = tI + 1 /\ tJ' = 1
      /\ tPc = "fill" /\ tI <= M /\ tJ > N /\ tTable' = tTable
      /\ M' = M /\ N' = N /\ TableWords' = TableWords
      /\ DOMAIN tTable = TableWords \cup {-1}
      /\ tI \in 1 .. M + 1 /\ tJ \in 1 .. N + 1
  BY DEF LcsInv, LcsNextRow, Fill, M, N, TableWords
<1>2. M \in Nat /\ N \in Nat
  BY <1>1, LcsData
<1>3. \A i \in 0 .. M, j \in 0 .. N : Filled(i, j)' => Filled(i, j)
  BY <1>1, <1>2 DEF Filled
<1>4. \A i, j : Longest(i, j)' = Longest(i, j) /\ LcsWord(i, j)' = LcsWord(i, j)
  BY <1>1, LongestIsFixed DEF LcsWord
<1>5. tI' \in 1 .. M + 1 /\ tJ' \in 1 .. N + 1
  BY <1>1, <1>2
<1> QED
  BY <1>1, <1>3, <1>4, <1>5 DEF LcsInv, Runs

(* No repetition has begun.                                                *)
LEMMA LcsInvInit == TInit => LcsInv
<1> SUFFICES ASSUME TInit PROVE LcsInv
  OBVIOUS
<1>1. Runs("lcs") => DOMAIN tTable = TableWords \cup {-1}
  BY DEF TInit, Runs
<1> QED
  BY <1>1 DEF TInit, LcsInv

(* Every step of lcs, and of the programs it is not, keeps LcsInv.         *)
LEMMA LcsInvStep == LcsInv /\ [TNext]_tVars => LcsInv'
<1> SUFFICES ASSUME LcsInv, [TNext]_tVars PROVE LcsInv'
  OBVIOUS
<1>1. CASE LcsBegin
  BY <1>1, LcsBeginStep
<1>2. CASE LcsCell
  BY <1>2, LcsCellStep
<1>3. CASE LcsNextRow
  BY <1>3, LcsRowStep
<1>4. CASE LcsEnd
  BY <1>4 DEF LcsInv, LcsEnd, Repeated, Runs, M, N, TableWords
<1>5. CASE KsBegin \/ KsCell \/ KsNextItem \/ KsEnd
  BY <1>5 DEF LcsInv, KsBegin, KsCell, KsNextItem, KsEnd, Begin, Fill, Repeated, Runs
<1>6. CASE EdBegin \/ EdCell \/ EdNextRow \/ EdEnd
  BY <1>6 DEF LcsInv, EdBegin, EdCell, EdNextRow, EdEnd, Begin, Fill, Runs
<1>7. CASE TReturn
  BY <1>7 DEF LcsInv, TReturn, Runs, M, N, TableWords
<1>8. CASE UNCHANGED tVars
  <2>1. /\ \A i, j : Longest(i, j)' = Longest(i, j) /\ LcsWord(i, j)' = LcsWord(i, j)
        /\ \A i, j : Filled(i, j)' <=> Filled(i, j)
        /\ M' = M /\ N' = N /\ TableWords' = TableWords
    BY <1>8, LongestIsFixed DEF tVars, LcsWord, Filled, M, N, TableWords
  <2> QED
    BY <1>8, <2>1 DEF LcsInv, tVars, Runs
<1> QED
  BY <1>1, <1>2, <1>3, <1>4, <1>5, <1>6, <1>7, <1>8 DEF TNext

(* Each cell that lcs fills is the length of the longest common            *)
(* subsequence of the two prefixes, for all pairs of words and repetitions.*)
THEOREM LcsIsLongest == TSpec => []LcsLongest
<1>1. LcsInv => LcsLongest
  <2> SUFFICES ASSUME LcsInv, Runs("lcs"), tPc = "fill", tI <= M, tJ > 1
               PROVE  tTable[LcsWord(tI, tJ - 1)] = Longest(tI, tJ - 1)
    BY DEF LcsLongest
  <2>1. M \in Nat /\ N \in Nat /\ tI \in 1 .. M + 1 /\ tJ \in 1 .. N + 1
    BY LcsData DEF LcsInv
  <2>2. tI \in 0 .. M /\ tJ - 1 \in 0 .. N /\ tJ - 1 < tJ
    BY <2>1
  <2> QED
    BY <2>2 DEF LcsInv, Filled
<1> QED
  BY <1>1, LcsInvInit, LcsInvStep, PTL DEF TSpec

-----------------------------------------------------------------------------
(* Edit distance.  The cells overlap, and some of the loads are one word   *)
(* off; they stay at the table all the same.                               *)

(* What EditStaysInTable rests on: the indices of the next cell.           *)
EdInv ==
  /\ tIn \in Inputs
  /\ Runs("edit_distance") /\ tPc = "fill" => tI \in 1 .. M + 1 /\ tJ \in 1 .. N + 1
  /\ EditStaysInTable

(* The product of two indices is the index of a word of the table.         *)
LEMMA EdWordInside ==
  ASSUME NEW m \in Nat, NEW n \in Nat, NEW i \in 0 .. m, NEW j \in 0 .. n
  PROVE  EdWord(i, j) \in 0 .. (m + 1) * (n + 1) - 1
<1>1. i * j \in Nat /\ m * j \in Nat /\ m * n \in Nat
  OBVIOUS
<1>2. i * j <= m * j
  OBVIOUS
<1>3. m * j <= m * n
  OBVIOUS
<1>4. (m + 1) * (n + 1) - 1 = m * n + m + n
  OBVIOUS
<1> QED
  BY <1>1, <1>2, <1>3, <1>4 DEF EdWord

(* The words have lengths, and every cell has a word of the table.         *)
LEMMA Words ==
  ASSUME EdInv, Runs("edit_distance")
  PROVE  /\ M \in Nat /\ N \in Nat
         /\ \A i \in 0 .. M, j \in 0 .. N : EdWord(i, j) \in TableWords
         /\ TableWords \subseteq Nat
<1>1. M \in Nat /\ N \in Nat
  BY TablesAssumption DEF EdInv, Runs, M, N
<1>2. TableWords = 0 .. (M + 1) * (N + 1) - 1
  BY DEF TableWords
<1>3. \A i \in 0 .. M, j \in 0 .. N : EdWord(i, j) \in TableWords
  BY <1>1, <1>2, EdWordInside
<1> QED
  BY <1>1, <1>2, <1>3

(* Every step keeps the indices and the words it touches inside.           *)
LEMMA EdStep == EdInv /\ [TNext]_tVars => EdInv'
<1> SUFFICES ASSUME EdInv, [TNext]_tVars PROVE EdInv'
  OBVIOUS
<1>1. CASE Runs("edit_distance")
  <2>m. /\ M \in Nat /\ N \in Nat
        /\ \A i \in 0 .. M, j \in 0 .. N : EdWord(i, j) \in TableWords
        /\ TableWords \subseteq Nat
    BY <1>1, Words
  <2>s. /\ tIn' = tIn => EditStaysInTable' <=> (/\ tStored' \subseteq TableWords
                           /\ tLoaded' \subseteq TableWords \cup {-1})
        /\ tIn' = tIn => M' = M /\ N' = N /\ TableWords' = TableWords
    BY <1>1 DEF EditStaysInTable, Runs, TableWords, M, N
  <2>i. tIn \in Inputs /\ tStored \subseteq TableWords
          /\ tLoaded \subseteq TableWords \cup {-1}
    BY <1>1 DEF EdInv, EditStaysInTable
  <2>1. CASE EdBegin
    <3>1. /\ tIn' = tIn /\ tI' = 1 /\ tJ' = 1 /\ tLoaded' = {}
          /\ tStored' = {EdWord(0, j) : j \in 0 .. N} \cup {EdWord(i, 0) : i \in 1 .. M}
      BY <2>1 DEF EdBegin
    <3>2. tStored' \subseteq TableWords
      BY <2>m, <3>1
    <3>3. 1 \in 1 .. M + 1 /\ 1 \in 1 .. N + 1
      BY <2>m
    <3> QED
      BY <2>i, <2>s, <3>1, <3>2, <3>3 DEF EdInv
  <2>2. CASE EdCell
    <3>1. /\ tIn' = tIn /\ tI' = tI /\ tJ' = tJ + 1
          /\ tI \in 1 .. M /\ tJ \in 1 .. N
      BY <1>1, <2>m, <2>2 DEF EdCell, Fill, EdInv
    <3> DEFINE up   == EdWord(tI - 1, tJ)
               left == EdWord(tI, tJ) - 1
               diag == EdWord(tI - 1, tJ) - 1
    <3>2. /\ tStored' = tStored \cup {EdWord(tI, tJ)}
          /\ tLoaded' \subseteq tLoaded \cup {up, left, diag}
      BY <2>2 DEF EdCell
    <3>3. EdWord(tI, tJ) \in TableWords /\ up \in TableWords
      BY <2>m, <3>1
    <3>4. \A w \in TableWords : w - 1 \in TableWords \cup {-1}
      BY <2>m DEF TableWords
    <3>5. {up, left, diag} \subseteq TableWords \cup {-1}
      BY <3>3, <3>4
    <3> HIDE DEF up, left, diag
    <3>6. tI \in 1 .. M + 1 /\ tJ + 1 \in 1 .. N + 1
      BY <2>m, <3>1
    <3> QED
      BY <2>i, <2>s, <3>1, <3>2, <3>3, <3>5, <3>6 DEF EdInv
  <2>3. CASE EdNextRow
    BY <1>1, <2>i, <2>m, <2>s, <2>3 DEF EdNextRow, Fill, EdInv
  <2>4. CASE EdEnd
    <3>1. /\ tIn' = tIn /\ tPc' = "start" /\ tStored' = tStored
          /\ tLoaded' = tLoaded \cup {EdWord(M, N)}
      BY <2>4 DEF EdEnd
    <3>2. EdWord(M, N) \in TableWords
      BY <2>m
    <3> QED
      BY <2>i, <2>s, <3>1, <3>2 DEF EdInv
  <2>5. CASE TReturn \/ UNCHANGED tVars
    <3>1. UNCHANGED <<tIn, tI, tJ, tStored, tLoaded>>
            /\ (tPc' = "fill" => tPc = "fill")
      BY <2>5 DEF TReturn, tVars
    <3>2. tPc = "fill" => tI \in 1 .. M + 1 /\ tJ \in 1 .. N + 1
      BY <1>1 DEF EdInv
    <3> QED
      BY <2>i, <2>s, <3>1, <3>2 DEF EdInv
  <2>6. ~KsBegin /\ ~KsCell /\ ~KsNextItem /\ ~KsEnd
    BY <1>1 DEF Runs, KsBegin, KsCell, KsNextItem, KsEnd, Begin, Fill
  <2>7. ~LcsBegin /\ ~LcsCell /\ ~LcsNextRow /\ ~LcsEnd
    BY <1>1 DEF Runs, LcsBegin, LcsCell, LcsNextRow, LcsEnd, Begin, Fill
  <2> QED
    BY <2>1, <2>2, <2>3, <2>4, <2>5, <2>6, <2>7 DEF TNext
<1>2. CASE ~Runs("edit_distance")
  <2>1. tIn' = tIn
    BY DEF TNext, tVars, KsBegin, KsCell, KsNextItem, KsEnd, LcsBegin, LcsCell,
           LcsNextRow, LcsEnd, EdBegin, EdCell, EdNextRow, EdEnd, TReturn, Fill,
           Repeated
  <2> QED
    BY <1>2, <2>1 DEF EdInv, EditStaysInTable, Runs
<1> QED
  BY <1>1, <1>2

(* edit_distance stores inside its table, and loads no further than one    *)
(* word below it, whatever the two words are and however often it runs.    *)
THEOREM EditIsContained == TSpec => []EditStaysInTable
<1>1. TInit => EdInv
  BY DEF TInit, EdInv, EditStaysInTable
<1>2. EdInv => EditStaysInTable
  BY DEF EdInv
<1> QED
  BY <1>1, <1>2, EdStep, PTL DEF TSpec
==============================================================================
