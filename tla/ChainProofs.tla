---------------------------- MODULE ChainProofs ------------------------------
(***************************************************************************)
(* Proofs about PointerChain, for every number of nodes and chains, every  *)
(* layout without overlaps and every sequence of random numbers.           *)
(***************************************************************************)
EXTENDS PointerChain, TLAPS, FiniteSetTheorems

(* The first n nodes of the order of chain c point to their successors. *)
Points(c, k) == mem[At(c, order[c][k])] = Stored(At(c, order[c][Succ(k)]))
Linked(c, n) == \A k \in Node : k < n => Points(c, k)

(* shuffle loses no node and repeats none. *)
Injective  == \A c \in AllChain : \A k, l \in Node : order[c][k] = order[c][l] => k = l
Surjective == \A c \in AllChain : \A k \in Node : \E l \in Node : order[c][l] = k

(* How far the chains are linked at each point of the program. *)
Progress ==
  /\ pc = "shuffle" => /\ i \in Node
                       /\ \A c \in Chain : c < chain => Linked(c, N)
  /\ pc = "link" => /\ i \in 0 .. N
                    /\ Linked(chain, i)
                    /\ \A c \in Chain : c < chain => Linked(c, N)
  /\ pc \in {"verify", "warm", "chase"} => \A c \in Chain : Linked(c, N)

(* The walk of build_tlb_chain has reached the i-th node of the ring. *)
VerifyFollows ==
  pc = "verify" => /\ strategy = "tlb"
                   /\ i \in 0 .. N
                   /\ p[0] = At(0, order[0][IF i = N THEN 0 ELSE i])

ChainInv ==
  /\ TypeOK
  /\ Injective /\ Surjective
  /\ Progress
  /\ VerifyFollows
  /\ ChainNeverBroken
  /\ WalksStayInChain

-----------------------------------------------------------------------------
(* Addresses are natural numbers. *)
LEMMA AddrNat ==
  \A s \in Strategies, c \in AllChain, k \in Node : Addr(s, c, k) \in Nat
<1> SUFFICES ASSUME NEW s \in Strategies, NEW c \in AllChain, NEW k \in Node
             PROVE  Addr(s, c, k) \in Nat
  OBVIOUS
<1>1. Buffer[c] \in Nat /\ k \in Nat /\ Page \in Nat /\ Line \in Nat /\ k % OffsetMod \in Nat
  BY ChainAssumption DEF Node
<1>2. k * Page \in Nat /\ k * Line \in Nat /\ (k % OffsetMod) * Line \in Nat
  BY <1>1
<1>3. Slot(s, k) \in Nat
  BY <1>1, <1>2 DEF Slot
<1> QED
  BY <1>1, <1>3 DEF Addr

(* NODE_PTR stays within the npages pages of the buffer. *)
LEMMA TlbInside ==
  ASSUME NEW k \in Node
  PROVE  Addr("tlb", 0, k) \in Buffer[0] .. Buffer[0] + N * Page - 1
<1> DEFINE m == k % OffsetMod
<1>1. /\ k \in Nat /\ k <= N - 1 /\ N \in Nat
      /\ Page \in Nat /\ Line \in Nat /\ Line >= 1
      /\ OffsetMod \in Nat /\ OffsetMod >= 1 /\ OffsetMod * Line <= Page
      /\ Buffer[0] \in Nat
  BY ChainAssumption DEF Node, AllChain
<1>2. m \in Nat /\ m + 1 <= OffsetMod
  BY <1>1
<1> HIDE DEF m
<1>3. (m + 1) * Line <= OffsetMod * Line
  BY <1>1, <1>2
<1>4. (m + 1) * Line = m * Line + Line /\ m * Line \in Nat
  BY <1>1, <1>2
<1>5. m * Line \in 0 .. Page - 1
  BY <1>1, <1>3, <1>4
<1>6. (k + 1) * Page <= N * Page /\ (k + 1) * Page = k * Page + Page /\ k * Page \in Nat
  BY <1>1
<1>7. Slot("tlb", k) = k * Page + m * Line
  BY DEF Slot, m
<1> QED
  BY <1>1, <1>5, <1>6, <1>7 DEF Addr

(* What the program stores as the address of a node it also loads as that. *)
LEMMA StoredLoads ==
  ASSUME TypeOK, NEW c \in AllChain, NEW k \in Node
  PROVE  /\ At(c, k) \in Lines(strategy) /\ At(c, k) \in Nat
         /\ Stored(At(c, k)) \in Nat
         /\ Stored(Stored(At(c, k))) = At(c, k)
<1>1. At(c, k) \in Lines(strategy)
  BY DEF At, Lines
<1>2. At(c, k) \in Nat
  BY AddrNat DEF At, TypeOK
<1>3. Mask(At(c, k)) \in Nat /\ Mask(Mask(At(c, k))) = At(c, k)
  BY <1>1, ChainAssumption DEF TypeOK
<1> QED
  BY <1>1, <1>2, <1>3 DEF Stored

(* No two nodes share a line. *)
LEMMA AtInjective ==
  ASSUME TypeOK, NEW c \in AllChain, NEW d \in AllChain, NEW k \in Node, NEW l \in Node,
         At(c, k) = At(d, l)
  PROVE  c = d /\ k = l
<1>1. strategy \in Strategies
  BY DEF TypeOK
<1>2. Addr(strategy, c, k) = Addr(strategy, d, l)
  BY DEF At
<1> QED
  BY <1>1, <1>2, ChainAssumption

(* The successor of a position is a position; chain 0 always exists. *)
LEMMA Positions ==
  /\ \A k \in Node : Succ(k) \in Node
  /\ 0 \in Node /\ N - 1 \in Node
  /\ 0 \in AllChain /\ 0 \in Chain /\ Chain \subseteq AllChain
BY ChainAssumption DEF Succ, Node, Chain, AllChain

(* A load from a node of a ring goes to the next node of the ring. *)
LEMMA LoadFollows ==
  ASSUME TypeOK, NEW c \in AllChain, Linked(c, N), NEW l \in Node
  PROVE  Load(At(c, order[c][l])) = At(c, order[c][Succ(l)])
<1>1. l < N /\ N \in Nat
  BY ChainAssumption DEF Node
<1>2. Succ(l) \in Node /\ order[c][Succ(l)] \in Node
  BY Positions DEF TypeOK
<1> QED
  BY <1>1, <1>2, StoredLoads DEF Linked, Points, Load

-----------------------------------------------------------------------------
(* Before the first exchange the order is the identity. *)
LEMMA ChainInvInit == Init => ChainInv
<1> SUFFICES ASSUME Init PROVE ChainInv
  OBVIOUS
<1>1. TypeOK
  BY Positions, ChainAssumption DEF Init, TypeOK, Node
<1>2. Injective /\ Surjective
  BY DEF Init, Injective, Surjective
<1>3. Progress
  BY Positions, ChainAssumption DEF Init, Progress, Chain, AllChain
<1> QED
  BY <1>1, <1>2, <1>3
  DEF Init, ChainInv, VerifyFollows, ChainNeverBroken, WalksStayInChain, Walking

(* One exchange keeps the order a permutation. *)
LEMMA ShuffleStep == ASSUME ChainInv, Shuffle PROVE ChainInv'
<1> USE DEF ChainInv
<1>1. PICK j \in 0 .. i :
        order' = [order EXCEPT ![chain][i] = order[chain][j],
                               ![chain][j] = order[chain][i]]
  BY DEF Shuffle
<1>2. /\ pc = "shuffle" /\ i \in Node /\ i > 0 /\ j \in Node /\ chain \in AllChain
      /\ i' = i - 1 /\ i' \in Node
      /\ UNCHANGED <<strategy, pc, chain, mem, p, selector, seen>>
  BY <1>1, Positions, ChainAssumption DEF Shuffle, Progress, Node, TypeOK
<1>3. /\ order' \in [AllChain -> [Node -> Node]]
      /\ \A c \in AllChain : c # chain => order'[c] = order[c]
      /\ \A k \in Node : order'[chain][k] = IF k = j THEN order[chain][i]
                                            ELSE IF k = i THEN order[chain][j]
                                            ELSE order[chain][k]
  BY <1>1, <1>2 DEF TypeOK
<1>4. TypeOK'
  BY <1>2, <1>3 DEF TypeOK, Chain, Node, Lines, Addr, Slot
<1>5. Injective'
  BY <1>2, <1>3 DEF Injective, TypeOK
<1>6. Surjective'
  <2> SUFFICES ASSUME NEW c \in AllChain, NEW k \in Node
               PROVE  \E l \in Node : order'[c][l] = k
    BY DEF Surjective
  <2>1. PICK l \in Node : order[c][l] = k
    BY DEF Surjective
  <2>2. CASE c # chain
    BY <2>1, <2>2, <1>3
  <2>3. CASE c = chain /\ l = i
    BY <2>1, <2>3, <1>2, <1>3
  <2>4. CASE c = chain /\ l = j
    BY <2>1, <2>4, <1>2, <1>3
  <2>5. CASE c = chain /\ l # i /\ l # j
    BY <2>1, <2>5, <1>2, <1>3
  <2> QED
    BY <2>2, <2>3, <2>4, <2>5
<1>7. Progress'
  <2>1. ASSUME NEW c \in Chain, c < chain PROVE Linked(c, N)'
    <3>1. c \in AllChain /\ order'[c] = order[c] /\ c # chain
      BY <2>1, <1>2, <1>3, Positions DEF AllChain
    <3>2. Linked(c, N)
      BY <2>1, <1>2 DEF Progress
    <3> QED
      BY <3>1, <3>2, <1>2 DEF Linked, Points, At, Stored, Ciphered
  <2>2. Chain' = Chain
    BY <1>2 DEF Chain
  <2> QED
    BY <2>1, <2>2, <1>2 DEF Progress
<1> QED
  BY <1>2, <1>4, <1>5, <1>6, <1>7
  DEF VerifyFollows, ChainNeverBroken, WalksStayInChain, Walking

(* Linking a node does not touch the nodes already linked. *)
LEMMA LinkStep == ASSUME ChainInv, Link PROVE ChainInv'
<1> USE DEF ChainInv
<1> DEFINE here == order[chain][i]
           next == order[chain][Succ(i)]
<1>0. /\ pc = "link" /\ i < N /\ i' = i + 1
      /\ mem' = [mem EXCEPT ![At(chain, here)] = Stored(At(chain, next))]
      /\ strategy' = strategy /\ pc' = pc /\ chain' = chain /\ order' = order
      /\ p' = p /\ selector' = selector /\ seen' = seen
  BY DEF Link
<1>a. i \in Node /\ i' \in 0 .. N
  BY <1>0, ChainAssumption DEF Progress, Node
<1>b. chain \in AllChain /\ Succ(i) \in Node
  BY <1>a, Positions DEF TypeOK
<1>c. here \in Node /\ next \in Node
  BY <1>a, <1>b DEF TypeOK
<1> HIDE DEF here, next
<1>1. /\ pc = "link" /\ i \in Node /\ chain \in AllChain
      /\ here \in Node /\ next \in Node
      /\ mem' = [mem EXCEPT ![At(chain, here)] = Stored(At(chain, next))]
      /\ i' = i + 1 /\ i' \in 0 .. N
      /\ strategy' = strategy /\ pc' = pc /\ chain' = chain /\ order' = order
      /\ p' = p /\ selector' = selector /\ seen' = seen
  BY <1>0, <1>a, <1>b, <1>c
<1>2. At(chain, here) \in Lines(strategy) /\ Stored(At(chain, next)) \in Nat
  BY <1>1, StoredLoads
<1>3. TypeOK'
  <2>1. Chain' = Chain /\ Lines(strategy)' = Lines(strategy)
    BY <1>1 DEF Chain
  <2>2. mem' \in [Lines(strategy) -> Nat]
    BY <1>1, <1>2 DEF TypeOK
  <2>3. i' \in Nat
    BY <1>1, ChainAssumption DEF Node
  <2> QED
    BY <1>1, <2>1, <2>2, <2>3 DEF TypeOK
<1>4. Injective' /\ Surjective'
  BY <1>1 DEF Injective, Surjective
<1>5. ASSUME NEW c \in AllChain, NEW k \in Node, c # chain \/ k # i, Points(c, k)
      PROVE  Points(c, k)'
  <2>1. order[c][k] \in Node /\ At(c, order[c][k]) \in Lines(strategy)
    BY StoredLoads DEF TypeOK
  <2>2. At(c, order[c][k]) # At(chain, here)
    <3>1. SUFFICES ASSUME At(c, order[c][k]) = At(chain, here) PROVE FALSE
      OBVIOUS
    <3>2. c = chain /\ order[c][k] = here
      BY <3>1, <2>1, <1>1, AtInjective
    <3>3. k = i
      BY <3>2, <1>1 DEF Injective, here
    <3> QED
      BY <3>2, <3>3, <1>5
  <2>3. mem'[At(c, order[c][k])] = mem[At(c, order[c][k])]
    BY <2>1, <2>2, <1>1 DEF TypeOK
  <2> QED
    BY <2>3, <1>5, <1>1 DEF Points, At, Stored, Ciphered
<1>6. ASSUME NEW k \in Node, k = i PROVE Points(chain, k)'
  <2>1. mem'[At(chain, here)] = Stored(At(chain, next))
    BY <1>1, <1>2 DEF TypeOK
  <2> QED
    BY <2>1, <1>6, <1>1 DEF Points, At, Stored, Ciphered, here, next
<1>7. Progress'
  <2>1. Chain' = Chain
    BY <1>1 DEF Chain
  <2>2. ASSUME NEW c \in Chain, c < chain PROVE Linked(c, N)'
    <3>1. c \in AllChain /\ c # chain
      BY <2>2, <1>1, Positions DEF AllChain
    <3>2. Linked(c, N)
      BY <2>2, <1>1 DEF Progress
    <3> QED
      BY <3>1, <3>2, <1>5 DEF Linked
  <2>3. ASSUME NEW k \in Node, k < i' PROVE Points(chain, k)'
    <3>1. Linked(chain, i)
      BY <1>1 DEF Progress
    <3>2. k = i \/ k < i
      BY <2>3, <1>1 DEF Node
    <3> QED
      BY <3>1, <3>2, <1>1, <1>5, <1>6 DEF Linked, Node
  <2>4. Linked(chain, i)'
    BY <2>3, <1>1 DEF Linked
  <2> QED
    BY <2>1, <2>2, <2>4, <1>1 DEF Progress
<1> QED
  BY <1>1, <1>3, <1>4, <1>7
  DEF VerifyFollows, ChainNeverBroken, WalksStayInChain, Walking

(* With no node linked yet there is nothing to show of the chain. *)
LEMMA EndShuffleStep == ASSUME ChainInv, EndShuffle PROVE ChainInv'
<1> USE DEF ChainInv
<1>1. /\ pc = "shuffle" /\ i = 0 /\ pc' = "link"
      /\ strategy' = strategy /\ chain' = chain /\ i' = i /\ order' = order
      /\ mem' = mem /\ p' = p /\ selector' = selector /\ seen' = seen
  BY DEF EndShuffle
<1>2. TypeOK' /\ Injective' /\ Surjective'
  <2>1. Chain' = Chain /\ Lines(strategy)' = Lines(strategy)
    BY <1>1 DEF Chain
  <2> QED
    BY <1>1, <2>1 DEF TypeOK, Injective, Surjective
<1>3. Progress'
  <2>2. \A c \in Chain : c < chain => Linked(c, N)
    BY <1>1 DEF Progress
  <2>3. Chain' = Chain /\ i \in 0 .. N
    BY <1>1, ChainAssumption DEF Chain
  <2>4. ASSUME NEW c \in Chain, Linked(c, N) PROVE Linked(c, N)'
    BY <2>4, <1>1 DEF Linked, Points, At, Stored, Ciphered
  <2>1. Linked(chain, i)'
    BY <1>1, ChainAssumption DEF Linked, Node
  <2> QED
    BY <1>1, <2>2, <2>3, <2>4, <2>1 DEF Progress
<1> QED
  BY <1>1, <1>2, <1>3 DEF VerifyFollows, ChainNeverBroken, WalksStayInChain, Walking

(* The last chain is linked when the walks begin, each at a node. *)
LEMMA EndLinkStep == ASSUME ChainInv, EndLink PROVE ChainInv'
<1> USE DEF ChainInv
<1>1. /\ pc = "link" /\ i = N
      /\ strategy' = strategy /\ order' = order /\ mem' = mem
      /\ selector' = selector /\ seen' = seen
  BY DEF EndLink
<1>2. Chain' = Chain /\ Lines(strategy)' = Lines(strategy)
  BY <1>1 DEF Chain
<1>3. Injective' /\ Surjective'
  BY <1>1 DEF Injective, Surjective
<1>4. \A c \in Chain : c <= chain => Linked(c, N)
  <2>1. Linked(chain, N) /\ \A c \in Chain : c < chain => Linked(c, N)
    BY <1>1 DEF Progress
  <2>2. \A c \in Chain : c <= chain => c < chain \/ c = chain
    BY Positions DEF TypeOK, AllChain
  <2> QED
    BY <2>1, <2>2
<1>5. ASSUME NEW c \in Chain, Linked(c, N) PROVE Linked(c, N)'
  BY <1>5, <1>1 DEF Linked, Points, At, Stored, Ciphered
<1>6. CASE chain + 1 \in Chain
  <2>1. chain' = chain + 1 /\ pc' = "shuffle" /\ i' = N - 1 /\ p' = p
    BY <1>6 DEF EndLink
  <2>2. TypeOK'
    <3>1. i' \in Nat
      BY <2>1, ChainAssumption
    <3> QED
      BY <3>1, <2>1, <1>1, <1>2, <1>6 DEF TypeOK
  <2>3. \A c \in Chain : c < chain + 1 => c <= chain
    BY Positions DEF TypeOK, AllChain
  <2>4. Progress'
    BY <2>1, <2>3, <1>2, <1>4, <1>5, Positions DEF Progress
  <2> QED
    BY <2>1, <2>2, <2>4, <1>3
    DEF VerifyFollows, ChainNeverBroken, WalksStayInChain, Walking
<1>7. CASE chain + 1 \notin Chain
  <2>1. /\ chain' = chain /\ i' = 0
        /\ pc' = IF strategy = "tlb" THEN "verify" ELSE "warm"
        /\ p' = [c \in AllChain |->
                   IF c \notin Chain THEN 0
                   ELSE IF strategy = "tlb" THEN At(c, order[c][0])
                   ELSE At(c, 0)]
    BY <1>7 DEF EndLink
  <2>2. ASSUME NEW c \in Chain
        PROVE  \E k \in Node : /\ p'[c] = At(c, k)
                               /\ strategy = "tlb" => k = order[c][0]
    <3>1. c \in AllChain /\ 0 \in Node /\ order[c][0] \in Node
      BY Positions DEF TypeOK
    <3> QED
      BY <2>1, <3>1
  <2>3. p' \in [AllChain -> Nat]
    <3>1. ASSUME NEW c \in AllChain PROVE p'[c] \in Nat
      <4>1. order[c][0] \in Node /\ 0 \in Node
        BY Positions DEF TypeOK
      <4> QED
        BY <2>1, <4>1, StoredLoads
    <3> QED
      BY <2>1, <3>1
  <2>4. TypeOK'
    BY <2>1, <2>3, <1>1, <1>2 DEF TypeOK
  <2>5. \A c \in Chain : c <= chain
    BY <1>7, ChainAssumption DEF Chain, AllChain, TypeOK
  <2>6. Progress'
    BY <2>1, <2>5, <1>2, <1>4, <1>5 DEF Progress
  <2>7. VerifyFollows'
    <3>1. 0 \in Chain /\ N # 0 /\ 0 \in 0 .. N
      BY Positions, ChainAssumption
    <3>2. 0 \in AllChain
      BY Positions
    <3> QED
      BY <3>1, <3>2, <2>1, <1>1 DEF VerifyFollows, At
  <2>8. WalksStayInChain'
    BY <2>2, <1>1, <1>2 DEF WalksStayInChain, Walking, At
  <2> QED
    BY <2>1, <2>4, <2>6, <2>7, <2>8, <1>3 DEF ChainNeverBroken
<1> QED
  BY <1>6, <1>7

(* What a load from the lines of a whole ring does to the walk of chain c. *)
LEMMA WalkStep ==
  ASSUME ChainInv, pc \in {"verify", "warm", "chase"},
         NEW c \in Chain, NEW k \in Node, p[c] = At(c, k)
  PROVE  \E l \in Node : Load(p[c]) = At(c, l)
<1> USE DEF ChainInv
<1>1. c \in AllChain /\ Linked(c, N)
  BY Positions DEF Progress
<1>2. PICK l \in Node : order[c][l] = k
  BY <1>1 DEF Surjective
<1>3. Load(p[c]) = At(c, order[c][Succ(l)])
  BY <1>1, <1>2, LoadFollows
<1>4. order[c][Succ(l)] \in Node
  BY <1>1, Positions DEF TypeOK
<1> QED
  BY <1>3, <1>4

(* What the walks do not write. *)
LEMMA WalkKeeps ==
  ASSUME ChainInv,
         pc \in {"verify", "warm", "chase"}, pc' \in {"verify", "warm", "chase"},
         strategy' = strategy, chain' = chain, order' = order, mem' = mem,
         i' \in Nat, p' \in [AllChain -> Nat], selector' \in Nat,
         seen' \in [AllChain -> SUBSET Lines(strategy)]
  PROVE  TypeOK' /\ Injective' /\ Surjective' /\ Progress'
<1> USE DEF ChainInv
<1>1. Chain' = Chain /\ Lines(strategy)' = Lines(strategy)
  BY DEF Chain
<1>2. ASSUME NEW c \in Chain PROVE Linked(c, N)'
  <2>1. Linked(c, N)
    BY DEF Progress
  <2> QED
    BY <2>1 DEF Linked, Points, At, Stored, Ciphered
<1> QED
  BY <1>1, <1>2 DEF TypeOK, Injective, Surjective, Progress

(* The check of build_tlb_chain meets the nodes in the order of the ring,  *)
(* all of them inside the buffer, and ends at the head.                    *)
LEMMA VerifyStep == ASSUME ChainInv, Verify PROVE ChainInv'
<1> USE DEF ChainInv
<1>1. /\ pc = "verify" /\ strategy' = strategy /\ chain' = chain
      /\ order' = order /\ mem' = mem /\ selector' = selector /\ seen' = seen
  BY DEF Verify
<1>2. /\ strategy = "tlb" /\ i \in 0 .. N
      /\ p[0] = At(0, order[0][IF i = N THEN 0 ELSE i])
      /\ 0 \in AllChain /\ 0 \in Chain /\ Linked(0, N) /\ N \in Nat
  BY <1>1, Positions, ChainAssumption DEF VerifyFollows, Progress
<1>3. CASE i < N
  <2>1. i \in Node /\ p[0] = At(0, order[0][i]) /\ order[0][i] \in Node
    BY <1>2, <1>3 DEF Node, TypeOK
  <2>2. p[0] \in Buffer[0] .. Buffer[0] + N * Page - 1
    BY <2>1, <1>2, TlbInside DEF At
  <2>3. p' = [p EXCEPT ![0] = Load(p[0])] /\ i' = i + 1 /\ pc' = pc
    BY <2>2, <1>2, <1>3 DEF Verify
  <2>4. Load(p[0]) = At(0, order[0][Succ(i)])
    BY <2>1, <1>2, LoadFollows
  <2>5. Succ(i) \in Node /\ order[0][Succ(i)] \in Node
    BY <2>1, <1>2, Positions DEF TypeOK
  <2>6. Load(p[0]) \in Nat
    BY <2>4, <2>5, <1>2, StoredLoads
  <2>7. p' \in [AllChain -> Nat] /\ p'[0] = At(0, order[0][Succ(i)])
    BY <2>3, <2>4, <2>6, <1>2 DEF TypeOK
  <2>8. Succ(i) = IF i' = N THEN 0 ELSE i'
    BY <2>1, <2>3, <1>2 DEF Succ, Node
  <2>9. i' \in 0 .. N /\ i' \in Nat
    BY <2>3, <1>2, <1>3
  <2>10. TypeOK' /\ Injective' /\ Surjective' /\ Progress'
    BY <2>3, <2>7, <2>9, <1>1, WalkKeeps DEF TypeOK
  <2>11. VerifyFollows'
    BY <2>7, <2>8, <2>9, <1>1, <1>2 DEF VerifyFollows, At
  <2> QED
    BY <2>3, <2>10, <2>11, <1>1 DEF ChainNeverBroken, WalksStayInChain, Walking
<1>4. CASE i = N
  <2>1. pc' = "warm" /\ i' = 0 /\ p' = p
    BY <1>2, <1>4 DEF Verify
  <2>2. TypeOK' /\ Injective' /\ Surjective' /\ Progress'
    BY <2>1, <1>1, WalkKeeps DEF TypeOK
  <2>3. Chain' = Chain /\ Chain = {0}
    BY <1>1, <1>2 DEF Chain
  <2>4. order[0][0] \in Node
    BY <1>2, Positions DEF TypeOK
  <2>5. WalksStayInChain'
    BY <2>1, <2>3, <2>4, <1>1, <1>2, <1>4 DEF WalksStayInChain, At
  <2> QED
    BY <2>1, <2>2, <2>5 DEF VerifyFollows, ChainNeverBroken
<1> QED
  BY <1>2, <1>3, <1>4

(* A round of the warm-up moves every walk to a node of its chain. *)
LEMMA WarmStep == ASSUME ChainInv, Warm PROVE ChainInv'
<1> USE DEF ChainInv
<1>1. /\ pc = "warm" /\ pc' = pc /\ strategy' = strategy /\ chain' = chain
      /\ order' = order /\ mem' = mem /\ selector' = selector /\ seen' = seen
      /\ i' = i + 1
      /\ p' = [c \in AllChain |-> IF c \in Chain THEN Load(p[c]) ELSE p[c]]
  BY DEF Warm
<1>2. ASSUME NEW c \in Chain
      PROVE  \E l \in Node : p'[c] = At(c, l) /\ p'[c] \in Nat
  <2>1. c \in AllChain /\ p'[c] = Load(p[c])
    BY <1>1, Positions
  <2>2. PICK k \in Node : p[c] = At(c, k)
    BY <1>1 DEF WalksStayInChain, Walking
  <2>3. PICK l \in Node : Load(p[c]) = At(c, l)
    BY <2>2, <1>1, WalkStep
  <2> QED
    BY <2>1, <2>3, StoredLoads
<1>3. p' \in [AllChain -> Nat]
  BY <1>1, <1>2 DEF TypeOK
<1>4. TypeOK' /\ Injective' /\ Surjective' /\ Progress'
  BY <1>1, <1>3, WalkKeeps DEF TypeOK
<1>5. Chain' = Chain
  BY <1>1 DEF Chain
<1> QED
  BY <1>1, <1>2, <1>4, <1>5
  DEF VerifyFollows, ChainNeverBroken, WalksStayInChain, At

(* The measured loop starts where the warm-up stopped. *)
LEMMA EndWarmStep == ASSUME ChainInv, EndWarm PROVE ChainInv'
<1> USE DEF ChainInv
<1>1. /\ pc = "warm" /\ pc' = "chase" /\ i' = 0 /\ strategy' = strategy
      /\ chain' = chain /\ order' = order /\ mem' = mem /\ p' = p
      /\ selector' = selector /\ seen' = seen
  BY DEF EndWarm
<1>2. TypeOK' /\ Injective' /\ Surjective' /\ Progress'
  BY <1>1, WalkKeeps DEF TypeOK
<1>3. Chain' = Chain
  BY <1>1 DEF Chain
<1> QED
  BY <1>1, <1>2, <1>3
  DEF VerifyFollows, ChainNeverBroken, WalksStayInChain, Walking, At

(* A measured load moves the selected walk along its ring. *)
LEMMA ChaseStep == ASSUME ChainInv, Chase PROVE ChainInv'
<1> USE DEF ChainInv
<1> DEFINE c == IF Chain = {0} THEN 0 ELSE selector % NumChains
<1>1. /\ pc = "chase" /\ pc' = pc /\ strategy' = strategy /\ chain' = chain
      /\ order' = order /\ mem' = mem /\ i' = i + 1
      /\ p' = [p EXCEPT ![c] = Load(p[c])]
      /\ selector' = Load(p[c])
      /\ seen' = [seen EXCEPT ![c] = @ \cup {p[c]}]
  BY DEF Chase
<1>2. c \in Chain /\ c \in AllChain
  <2>1. CASE Chain = {0}
    BY <2>1, Positions
  <2>2. CASE Chain # {0}
    <3>1. Chain = AllChain
      BY <2>2 DEF Chain
    <3>2. selector % NumChains \in AllChain
      BY ChainAssumption DEF AllChain, TypeOK
    <3> QED
      BY <3>1, <3>2, <2>2
  <2> QED
    BY <2>1, <2>2
<1> HIDE DEF c
<1>3. PICK k \in Node : p[c] = At(c, k)
  BY <1>1, <1>2 DEF WalksStayInChain, Walking
<1>4. PICK l \in Node : Load(p[c]) = At(c, l)
  BY <1>1, <1>2, <1>3, WalkStep
<1>5. Load(p[c]) \in Nat /\ p[c] \in Lines(strategy)
  BY <1>2, <1>3, <1>4, StoredLoads
<1>6. /\ p' \in [AllChain -> Nat] /\ selector' \in Nat
      /\ seen' \in [AllChain -> SUBSET Lines(strategy)]
  BY <1>1, <1>2, <1>5 DEF TypeOK
<1>7. TypeOK' /\ Injective' /\ Surjective' /\ Progress'
  BY <1>1, <1>6, WalkKeeps DEF TypeOK
<1>8. Chain' = Chain
  BY <1>1 DEF Chain
<1>9. WalksStayInChain'
  <2>1. ASSUME NEW d \in Chain PROVE \E m \in Node : p'[d] = At(d, m)
    <3>1. d \in AllChain
      BY Positions
    <3>2. CASE d = c
      BY <3>2, <1>1, <1>2, <1>4 DEF TypeOK
    <3>3. CASE d # c
      BY <3>1, <3>3, <1>1 DEF WalksStayInChain, Walking, TypeOK
    <3> QED
      BY <3>2, <3>3
  <2> QED
    BY <2>1, <1>1, <1>8 DEF WalksStayInChain, At
<1> QED
  BY <1>1, <1>7, <1>9 DEF VerifyFollows, ChainNeverBroken

(* Every step keeps the invariant. *)
LEMMA ChainInvStep == ChainInv /\ [Next]_vars => ChainInv'
<1> SUFFICES ASSUME ChainInv, [Next]_vars PROVE ChainInv'
  OBVIOUS
<1>1. CASE UNCHANGED vars
  <2>1. Chain' = Chain /\ Lines(strategy)' = Lines(strategy)
    BY <1>1 DEF vars, Chain
  <2>2. \A c, n : Linked(c, n) => Linked(c, n)'
    BY <1>1 DEF vars, Linked, Points, At, Stored, Ciphered
  <2> QED
    BY <1>1, <2>1, <2>2
    DEF vars, ChainInv, TypeOK, Injective, Surjective, Progress, VerifyFollows,
        ChainNeverBroken, WalksStayInChain, Walking, At, Linked, Points, Stored, Ciphered
<1> QED
  BY <1>1, ShuffleStep, EndShuffleStep, LinkStep, EndLinkStep, VerifyStep,
     WarmStep, EndWarmStep, ChaseStep DEF Next

(* Linked in the order of a permutation, the nodes form one ring. *)
LEMMA ChainInvRing == ChainInv => OneRing
<1> SUFFICES ASSUME ChainInv, Walking, NEW c \in Chain
             PROVE  \E f \in [Node -> Node] :
                      /\ \A k \in Node : \E l \in Node : f[l] = k
                      /\ \A k \in Node : Load(At(c, f[k])) = At(c, f[Succ(k)])
  BY DEF OneRing
<1>1. TypeOK /\ c \in AllChain /\ Linked(c, N)
  BY Positions DEF ChainInv, Progress, Walking
<1>2. order[c] \in [Node -> Node]
  BY <1>1 DEF TypeOK
<1>3. \A k \in Node : \E l \in Node : order[c][l] = k
  BY <1>1 DEF ChainInv, Surjective
<1>4. \A k \in Node : Load(At(c, order[c][k])) = At(c, order[c][Succ(k)])
  BY <1>1, LoadFollows
<1> QED
  BY <1>2, <1>3, <1>4

-----------------------------------------------------------------------------
(* The invariant holds of every behaviour. *)
LEMMA ChainInvAlways == Spec => []ChainInv
BY ChainInvInit, ChainInvStep, PTL DEF Spec

(* Every variable of the pointer-chasing programs stays in its type.       *)
THEOREM ChainTypeOK == Spec => []TypeOK
<1>1. ChainInv => TypeOK
  BY DEF ChainInv
<1> QED
  BY <1>1, ChainInvAlways, PTL

(* Whatever rand returns, shuffle and the linking loop produce one ring    *)
(* through all N nodes of every chain.                                     *)
THEOREM ChainsAreRings == Spec => []OneRing
BY ChainInvRing, ChainInvAlways, PTL

(* No walk leaves the chain it belongs to, whichever strategy, so none     *)
(* dereferences an encrypted or an empty word.                             *)
THEOREM WalksAreSafe == Spec => []WalksStayInChain
<1>1. ChainInv => WalksStayInChain
  BY DEF ChainInv
<1> QED
  BY <1>1, ChainInvAlways, PTL

(* The three ways in which build_tlb_chain can reject the chain it built   *)
(* never occur.                                                            *)
THEOREM ChainsVerify == Spec => []ChainNeverBroken
<1>1. ChainInv => ChainNeverBroken
  BY DEF ChainInv
<1> QED
  BY <1>1, ChainInvAlways, PTL
-----------------------------------------------------------------------------
(* The working set.  The k-th load of a walk that starts at position a of  *)
(* the ring of chain 0 is from this line:                                  *)
Position(a, k) == IF a + k < N THEN a + k ELSE a + k - N
Visited(a, k)  == At(0, order[0][Position(a, k)])

Made == IF i < N THEN i ELSE N

(* The measured loop has loaded from the lines after the one it started    *)
(* from, each of them once until it has been through all of them.          *)
LoadsFrom(a) ==
  /\ seen[0] = {Visited(a, k) : k \in 0 .. Made - 1}
  /\ IsFiniteSet(seen[0]) /\ Cardinality(seen[0]) = Made
  /\ i < N => p[0] = Visited(a, i)

LoadsInv ==
  /\ pc # "chase" => seen[0] = {}
  /\ pc = "chase" /\ Chain = {0} => \E a \in Node : LoadsFrom(a)

(* From any position, N loads are from N different lines, and from all.    *)
LEMMA VisitedOnce ==
  ASSUME ChainInv, NEW a \in Node
  PROVE  /\ \A k \in Node : Position(a, k) \in Node
         /\ \A k, l \in Node : Visited(a, k) = Visited(a, l) => k = l
         /\ \A m \in Node : \E k \in Node : At(0, m) = Visited(a, k)
<1>0. /\ TypeOK /\ Injective /\ Surjective /\ N \in Nat /\ Node = 0 .. N - 1
      /\ 0 \in AllChain
  BY Positions, ChainAssumption DEF ChainInv, Node
<1>1. \A k \in Node : Position(a, k) \in Node
  BY <1>0 DEF Position
<1>2. ASSUME NEW k \in Node, NEW l \in Node, Visited(a, k) = Visited(a, l)
      PROVE  k = l
  <2>1. order[0][Position(a, k)] \in Node /\ order[0][Position(a, l)] \in Node
    <3>1. order[0] \in [Node -> Node]
      BY <1>0 DEF TypeOK
    <3> QED
      BY <1>1, <3>1
  <2>2. order[0][Position(a, k)] = order[0][Position(a, l)]
    BY <1>0, <1>2, <2>1, AtInjective DEF Visited
  <2>3. Position(a, k) = Position(a, l)
    BY <1>0, <1>1, <2>2 DEF Injective
  <2> QED
    BY <1>0, <2>3 DEF Position
<1>3. ASSUME NEW m \in Node
      PROVE  \E k \in Node : At(0, m) = Visited(a, k)
  <2>1. PICK l \in Node : order[0][l] = m
    BY <1>0 DEF Surjective
  <2> DEFINE k == IF l < a THEN l + N - a ELSE l - a
  <2>2. k \in Node /\ Position(a, k) = l
    BY <1>0 DEF Position
  <2> QED
    BY <2>1, <2>2 DEF Visited
<1> QED
  BY <1>1, <1>2, <1>3

(* A measured load of a single chain is from a line not loaded from yet,   *)
(* until there is none left.                                               *)
LEMMA LoadsChase == ASSUME ChainInv, LoadsInv, Chase PROVE LoadsInv'
<1>1. /\ pc = "chase" /\ pc' = pc /\ strategy' = strategy
      /\ order' = order /\ i' = i + 1 /\ Chain' = Chain
  BY DEF Chase, Chain
<1>v. \A a, k : Visited(a, k)' = Visited(a, k)
  BY <1>1 DEF Visited, At
<1> SUFFICES ASSUME Chain = {0}
             PROVE  \E a \in Node : LoadsFrom(a)'
  BY <1>1 DEF LoadsInv
<1>2. /\ p'[0] = Load(p[0]) /\ seen'[0] = seen[0] \cup {p[0]}
      /\ N \in Nat /\ N >= 2 /\ i \in Nat /\ Node = 0 .. N - 1
  BY Positions, ChainAssumption DEF Chase, ChainInv, TypeOK, Node
<1>3. PICK a \in Node : LoadsFrom(a)
  BY <1>1 DEF LoadsInv
<1>a. seen[0] = {Visited(a, k) : k \in 0 .. Made - 1}
  BY <1>3 DEF LoadsFrom
<1>b. IsFiniteSet(seen[0]) /\ Cardinality(seen[0]) = Made
  BY <1>3 DEF LoadsFrom
<1>c. i < N => p[0] = Visited(a, i)
  BY <1>3 DEF LoadsFrom
<1> SUFFICES /\ seen'[0] = {Visited(a, k) : k \in 0 .. Made' - 1}
             /\ IsFiniteSet(seen'[0]) /\ Cardinality(seen'[0]) = Made'
             /\ i' < N => p'[0] = Visited(a, i')
  BY <1>v DEF LoadsFrom
<1>4. CASE i < N
  <2>0. i \in Node /\ Made = i /\ Made' = i + 1
    BY <1>1, <1>2, <1>4 DEF Made
  <2>1. i \in Node /\ Made = i /\ Made' = i + 1 /\ p[0] = Visited(a, i)
    BY <1>4, <1>c, <2>0
  <2>2. p[0] \notin seen[0]
    <3>1. \A k \in 0 .. i - 1 : k \in Node /\ k # i
      BY <1>2, <2>1
    <3> QED
      BY <1>a, <2>1, <3>1, VisitedOnce
  <2>3. IsFiniteSet(seen'[0]) /\ Cardinality(seen'[0]) = Made'
    <3>1. /\ IsFiniteSet(seen[0] \cup {p[0]})
          /\ Cardinality(seen[0] \cup {p[0]}) = Cardinality(seen[0]) + 1
      BY <1>b, <2>2, FS_AddElement
    <3> QED
      BY <1>2, <1>b, <2>1, <3>1
  <2>4. seen'[0] = {Visited(a, k) : k \in 0 .. Made' - 1}
    <3>1. 0 .. Made' - 1 = (0 .. Made - 1) \cup {i}
      BY <1>2, <2>1
    <3> QED
      BY <1>2, <1>a, <2>1, <3>1
  <2>5. i' < N => p'[0] = Visited(a, i')
    <3>1. Linked(0, N) /\ TypeOK /\ 0 \in AllChain
      BY <1>1, Positions DEF ChainInv, Progress
    <3>2. Position(a, i) \in Node
      BY <2>1, VisitedOnce
    <3>3. Load(p[0]) = At(0, order[0][Succ(Position(a, i))])
      BY <2>1, <3>1, <3>2, LoadFollows DEF Visited
    <3>4. i' < N => Succ(Position(a, i)) = Position(a, i')
      BY <1>1, <1>2, <2>1 DEF Succ, Position
    <3> QED
      BY <1>2, <3>3, <3>4 DEF Visited
  <2> QED
    BY <2>3, <2>4, <2>5
<1>5. CASE i >= N
  <2>1. Made = N /\ Made' = N /\ ~(i' < N)
    BY <1>1, <1>2, <1>5 DEF Made
  <2>2. PICK m \in Node : p[0] = At(0, m)
    BY <1>1 DEF ChainInv, WalksStayInChain, Walking
  <2>3. p[0] \in seen[0]
    <3>1. PICK k \in Node : p[0] = Visited(a, k)
      BY <2>2, VisitedOnce
    <3>2. k \in 0 .. Made - 1
      BY <1>2, <2>1
    <3> QED
      BY <1>a, <3>1, <3>2
  <2>4. seen'[0] = seen[0]
    BY <1>2, <2>3
  <2>5. seen'[0] = {Visited(a, k) : k \in 0 .. Made' - 1}
    BY <1>a, <2>1, <2>4
  <2> QED
    BY <1>b, <2>1, <2>4, <2>5
<1>6. i < N \/ i >= N
  BY <1>2
<1> QED
  BY <1>4, <1>5, <1>6

(* Nothing is loaded from before the loop starts, where the warm-up is.    *)
LEMMA LoadsStep == ChainInv /\ LoadsInv /\ [Next]_vars => LoadsInv'
<1> SUFFICES ASSUME ChainInv, LoadsInv, [Next]_vars PROVE LoadsInv'
  OBVIOUS
<1>1. CASE EndWarm
  <2>1. /\ pc = "warm" /\ pc' = "chase" /\ i' = 0 /\ strategy' = strategy
        /\ order' = order /\ p' = p /\ seen' = seen /\ seen[0] = {}
    BY <1>1 DEF EndWarm, LoadsInv
  <2>2. ASSUME Chain = {0}
        PROVE  \E a \in Node : LoadsFrom(a)'
    <3>1. N \in Nat /\ N >= 2 /\ Node = 0 .. N - 1
      BY ChainAssumption DEF Node
    <3>2. Made' = 0 /\ 0 .. Made' - 1 = {}
      BY <2>1, <3>1 DEF Made
    <3>3. PICK m \in Node : p[0] = At(0, m)
      BY <2>1, <2>2 DEF ChainInv, WalksStayInChain, Walking
    <3>4. PICK a \in Node : order[0][a] = m
      BY Positions DEF ChainInv, Surjective
    <3>5. Position(a, 0) = a
      BY <3>1 DEF Position
    <3>6. p'[0] = Visited(a, 0)'
      BY <2>1, <3>3, <3>4, <3>5 DEF Visited, At
    <3>7. seen'[0] = {} /\ Made' = 0 /\ IsFiniteSet({}) /\ Cardinality({}) = 0
      BY <2>1, <3>2, FS_EmptySet
    <3>8. {Visited(a, k)' : k \in 0 .. Made' - 1} = {}
      BY <3>2
    <3>9. LoadsFrom(a)'
      BY <2>1, <3>6, <3>7, <3>8 DEF LoadsFrom
    <3> QED
      BY <3>9
  <2> QED
    BY <2>1, <2>2 DEF LoadsInv, Chain
<1>2. CASE Chase
  BY <1>2, LoadsChase
<1>3. CASE Shuffle \/ EndShuffle \/ Link \/ EndLink \/ Verify \/ Warm
  BY <1>3 DEF Shuffle, EndShuffle, Link, EndLink, Verify, Warm, LoadsInv
<1>4. CASE UNCHANGED vars
  BY <1>4 DEF vars, LoadsInv, LoadsFrom, Chain, Visited, At, Made
<1> QED
  BY <1>1, <1>2, <1>3, <1>4 DEF Next

(* As many lines are loaded from as loads are made, until the N lines of   *)
(* the chain have been: the latency is that of a working set of N lines.   *)
THEOREM LoadsCoverTheChain == Spec => []WorkingSetIsChain
<1>1. Init => LoadsInv
  BY Positions DEF Init, LoadsInv
<1>2. LoadsInv => WorkingSetIsChain
  BY DEF LoadsInv, LoadsFrom, WorkingSetIsChain, Made
<1> QED
  BY <1>1, <1>2, LoadsStep, ChainInvAlways, PTL DEF Spec
=============================================================================
