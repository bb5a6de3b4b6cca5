---------------------------- MODULE PointerChain -----------------------------
(***************************************************************************)
(* Pointer chasing, the method behind cache_size/main.c, tlb_size/main.c   *)
(* and dependency/load_use_l2: nodes, one cache line each, are linked in a *)
(* random order to rings, and a loop of dependent loads walks them.  The   *)
(* latency such a loop measures is that of a working set of N lines only   *)
(* if the walk really visits N lines before it repeats one.                *)
(*                                                                         *)
(* Allocation succeeds here; tlb_size and load_use_l2 give up otherwise.   *)
(***************************************************************************)
EXTENDS Integers, FiniteSets

CONSTANTS
  Strategies,   (* the strategies considered                               *)
  N,            (* nodes of a chain                                        *)
  NumChains,    (* NUM_CHAINS                                              *)
  Line,         (* CACHELINE                                               *)
  Page,         (* PAGE_SIZE, also the alignment of every buffer           *)
  OffsetMod,    (* OFFSET_MOD: different offsets of a node within its page *)
  Buffer,       (* Buffer[c]: what posix_memalign returned for chain c     *)
  Mask(_),      (* exclusive or with XOR_KEY                               *)
  MaxWarm,      (* bound: rounds of the warm-up loop                       *)
  MaxLoads      (* bound: loads of the measured loop                       *)

VARIABLES
  strategy,  (* which of the loops                                         *)
  pc,
  chain,     (* the chain that is being built                              *)
  i,         (* the counter of the loop at pc                              *)
  order,     (* order[c]: the nodes of chain c in the order of the ring    *)
  mem,       (* mem[a]: the word at the start of the line at address a     *)
  p,         (* p[c]: the address the walk of chain c has reached          *)
  selector,  (* the address loaded last                                    *)
  seen       (* seen[c]: the lines the measured loop loaded from; no word  *)
             (* of the program, only the properties read it                *)

vars == <<strategy, pc, chain, i, order, mem, p, selector, seen>>

-----------------------------------------------------------------------------
Node     == 0 .. N - 1
AllChain == 0 .. NumChains - 1
Succ(k)  == IF k = N - 1 THEN 0 ELSE k + 1
Chain    == IF strategy \in {"multi", "xor_multi"} THEN AllChain ELSE {0}

Slot(s, k) == IF s = "tlb" THEN k * Page + (k % OffsetMod) * Line   (* NODE_PTR *)
                           ELSE k * Line
Addr(s, c, k) == Buffer[c] + Slot(s, k)
At(c, k)      == Addr(strategy, c, k)

Lines(s) == {Addr(s, c, k) : c \in AllChain, k \in Node}

ASSUME ChainAssumption ==
  /\ Strategies \subseteq {"basic", "xor", "multi", "xor_multi", "tlb"}
  /\ N \in Nat /\ N >= 2
  /\ NumChains \in Nat \ {0} /\ Line \in Nat \ {0} /\ Page \in Nat \ {0}
  /\ OffsetMod \in Nat \ {0} /\ OffsetMod * Line <= Page
  /\ Line % NumChains = 0 /\ Page % Line = 0
  /\ Buffer \in [AllChain -> {a \in Nat : a % Page = 0}]
  /\ \A s \in Strategies : \A c, d \in AllChain : \A k, l \in Node :
       Addr(s, c, k) = Addr(s, d, l) => c = d /\ k = l
  /\ \A s \in Strategies : \A a \in Lines(s) : Mask(a) \in Nat /\ Mask(Mask(a)) = a
  /\ MaxWarm \in Nat /\ MaxLoads \in Nat

(* Strategies 1 and 3 store the address XOR key. *)
Ciphered      == strategy \in {"xor", "xor_multi"}
Stored(a)     == IF Ciphered THEN Mask(a) ELSE a
Load(a)       == Stored(mem[a])

Init ==
  /\ strategy \in Strategies
  /\ pc = "shuffle" /\ chain = 0 /\ i = N - 1
  /\ order = [c \in AllChain |-> [k \in Node |-> k]]
  /\ mem = [a \in Lines(strategy) |-> 0]
  /\ p = [c \in AllChain |-> 0]
  /\ selector = 0
  /\ seen = [c \in AllChain |-> {}]

-----------------------------------------------------------------------------
(* Defect: the exchange without t. *)
Shuffle_NoTemp ==
  /\ pc = "shuffle" /\ i > 0
  /\ \E j \in 0 .. i : order' = [order EXCEPT ![chain][i] = order[chain][j]]
  /\ i' = i - 1
  /\ UNCHANGED <<strategy, pc, chain, mem, p, selector, seen>>

(* rand() % (i + 1) *)
Shuffle ==
  /\ pc = "shuffle" /\ i > 0
  /\ \E j \in 0 .. i :
       order' = [order EXCEPT ![chain][i] = order[chain][j],
                              ![chain][j] = order[chain][i]]
  /\ i' = i - 1
  /\ UNCHANGED <<strategy, pc, chain, mem, p, selector, seen>>

EndShuffle ==
  /\ pc = "shuffle" /\ i = 0
  /\ pc' = "link"
  /\ UNCHANGED <<strategy, chain, i, order, mem, p, selector, seen>>

(* Defect: the last node is linked like the others, to a node of its own. *)
Link_NoWrap ==
  /\ pc = "link" /\ i < N
  /\ LET here == order[chain][i]
         next == order[chain][IF i < N - 1 THEN i + 1 ELSE i]
     IN  mem' = [mem EXCEPT ![At(chain, here)] = Stored(At(chain, next))]
  /\ i' = i + 1
  /\ UNCHANGED <<strategy, pc, chain, order, p, selector, seen>>

Link ==
  /\ pc = "link" /\ i < N
  /\ LET here == order[chain][i]
         next == order[chain][Succ(i)]
     IN  mem' = [mem EXCEPT ![At(chain, here)] = Stored(At(chain, next))]
  /\ i' = i + 1
  /\ UNCHANGED <<strategy, pc, chain, order, p, selector, seen>>

(* Defect: NUM_CHAINS chains are built for every strategy. *)
EndLink_AllChains ==
  /\ pc = "link" /\ i = N
  /\ IF chain + 1 \in AllChain
     THEN /\ chain' = chain + 1
          /\ pc' = "shuffle" /\ i' = N - 1
          /\ UNCHANGED p
     ELSE /\ pc' = "warm" /\ i' = 0
          /\ p' = [c \in AllChain |-> IF c \in Chain THEN At(c, 0) ELSE 0]
          /\ UNCHANGED chain
  /\ UNCHANGED <<strategy, order, mem, selector, seen>>

(* The next chain, or the walks: from the first node of the buffer, in     *)
(* tlb_size from the first of the ring, and there with a check first.      *)
EndLink ==
  /\ pc = "link" /\ i = N
  /\ IF chain + 1 \in Chain
     THEN /\ chain' = chain + 1
          /\ pc' = "shuffle" /\ i' = N - 1
          /\ UNCHANGED p
     ELSE /\ pc' = IF strategy = "tlb" THEN "verify" ELSE "warm"
          /\ i' = 0
          /\ p' = [c \in AllChain |->
                     IF c \notin Chain THEN 0
                     ELSE IF strategy = "tlb" THEN At(c, order[c][0])
                     ELSE At(c, 0)]
          /\ UNCHANGED chain
  /\ UNCHANGED <<strategy, order, mem, selector, seen>>

(* build_tlb_chain walks npages steps, inside the buffer and back to head. *)
Verify ==
  /\ pc = "verify"
  /\ \/ /\ i < N
        /\ IF p[0] \in Buffer[0] .. Buffer[0] + N * Page - 1
           THEN p' = [p EXCEPT ![0] = Load(p[0])] /\ i' = i + 1 /\ UNCHANGED pc
           ELSE pc' = "error" /\ UNCHANGED <<p, i>>
     \/ /\ i = N
        /\ IF p[0] = At(0, order[0][0])
           THEN pc' = "warm" /\ i' = 0
           ELSE pc' = "error" /\ UNCHANGED i
        /\ UNCHANGED p
  /\ UNCHANGED <<strategy, chain, order, mem, selector, seen>>

(* A round of the warm-up walks every chain one step. *)
Warm ==
  /\ pc = "warm" /\ i < MaxWarm
  /\ p' = [c \in AllChain |-> IF c \in Chain THEN Load(p[c]) ELSE p[c]]
  /\ i' = i + 1
  /\ UNCHANGED <<strategy, pc, chain, order, mem, selector, seen>>

EndWarm ==
  /\ pc = "warm"
  /\ pc' = "chase" /\ i' = 0
  /\ UNCHANGED <<strategy, chain, order, mem, p, selector, seen>>

(* Defect: the pointer is decrypted again after it was selected from. *)
Chase_DecryptTwice ==
  /\ pc = "chase" /\ i < MaxLoads
  /\ LET c == IF Chain = {0} THEN 0 ELSE selector % NumChains
     IN  /\ p' = [p EXCEPT ![c] = Stored(Load(p[c]))]
         /\ selector' = Load(p[c])
         /\ seen' = [seen EXCEPT ![c] = @ \cup {p[c]}]
  /\ i' = i + 1
  /\ UNCHANGED <<strategy, pc, chain, order, mem>>

(* One load of the measured loop; with several chains the address loaded   *)
(* last selects the chain of the next load.                                *)
Chase ==
  /\ pc = "chase" /\ i < MaxLoads
  /\ LET c == IF Chain = {0} THEN 0 ELSE selector % NumChains
     IN  /\ p' = [p EXCEPT ![c] = Load(p[c])]
         /\ selector' = Load(p[c])
         /\ seen' = [seen EXCEPT ![c] = @ \cup {p[c]}]
  /\ i' = i + 1
  /\ UNCHANGED <<strategy, pc, chain, order, mem>>

Next == \/ Shuffle \/ EndShuffle \/ Link \/ EndLink \/ Verify
        \/ Warm \/ EndWarm \/ Chase

Spec == Init /\ [][Next]_vars

-----------------------------------------------------------------------------
Walking == pc \in {"warm", "chase"}

(* Every variable holds a value of its type, and only chains the strategy  *)
(* has are built.                                                          *)
TypeOK ==
  /\ strategy \in Strategies
  /\ pc \in {"shuffle", "link", "verify", "warm", "chase", "error"}
  /\ chain \in Chain
  /\ i \in Nat
  /\ order \in [AllChain -> [Node -> Node]]
  /\ mem \in [Lines(strategy) -> Nat]
  /\ p \in [AllChain -> Nat]
  /\ selector \in Nat
  /\ seen \in [AllChain -> SUBSET Lines(strategy)]

(* No load leaves the lines of the chain it walks: the chains are          *)
(* independent, and no strategy follows an encrypted or an empty word.     *)
WalksStayInChain ==
  Walking => \A c \in Chain : \E k \in Node : p[c] = At(c, k)

(* Every chain is ONE ring through all its nodes: some numbering of the    *)
(* nodes by 0 .. N - 1 is advanced by every load.                          *)
OneRing ==
  Walking =>
    \A c \in Chain : \E f \in [Node -> Node] :
      /\ \A k \in Node : \E l \in Node : f[l] = k
      /\ \A k \in Node : Load(At(c, f[k])) = At(c, f[Succ(k)])

(* The measured loop loads from as many different lines as it makes loads, *)
(* until it has loaded from all lines of the chain: the working set is N   *)
(* lines, whatever the warm-up left behind.                                *)
WorkingSetIsChain ==
  (pc = "chase" /\ Chain = {0}) =>
    Cardinality(seen[0]) = IF i < N THEN i ELSE N

(* The check of build_tlb_chain never finds a broken chain. *)
ChainNeverBroken == pc # "error"

(* cache_size/main.c: "each step chooses, by the low bits of the last      *)
(* load, which chain to jump to", so that streams are mixed: a measured    *)
(* loop of more than N loads uses a chain besides the first.               *)
StreamsAreMixed ==
  (pc = "chase" /\ Chain = AllChain /\ i > N) => \E c \in AllChain \ {0} : seen[c] # {}
=============================================================================
