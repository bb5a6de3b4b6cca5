------------------------------- MODULE Tables -------------------------------
(***************************************************************************)
(* The dynamic-programming workloads of src/workload/algo: knapsack, lcs   *)
(* and edit_distance.  Each repetition of test_x(nloop) fills a table on   *)
(* the stack, cell by cell, from cells filled before.  Nothing reads the   *)
(* result; a wrong cell only shows in what the repetition costs.           *)
(***************************************************************************)
EXTENDS Integers, Sequences, FiniteSets, FiniteSetsExt

CONSTANTS
  Inputs,     (* the programs with their data                              *)
  TableReps,  (* bound: repetitions (nloop)                                *)
  Garbage     (* what the stack may hold before it is written              *)

ASSUME TablesAssumption ==
  \A in \in Inputs :
    IF in.prog = "knapsack"
    THEN /\ in.capacity \in Nat /\ in.weight \in Seq(Nat) /\ in.value \in Seq(Nat)
         /\ Len(in.weight) = Len(in.value)
    ELSE Len(in.s) \in Nat /\ Len(in.t) \in Nat

VARIABLES
  tIn,     (* the program and its data                                     *)
  tPc,     (* start (of a repetition), fill, done                          *)
  tReps,   (* repetitions left                                             *)
  tI, tJ,  (* the indices of the next cell                                 *)
  tTable,  (* the words of the table, by word index                        *)
  tStored, (* the words stored to and loaded from in this repetition; only *)
  tLoaded  (* the properties read them                                     *)

tVars == <<tIn, tPc, tReps, tI, tJ, tTable, tStored, tLoaded>>

M == Len(tIn.s)
N == Len(tIn.t)

KsCells == 0 .. tIn.capacity

(* (m+1) * (n+1) words *)
TableWords == 0 .. (M + 1) * (N + 1) - 1

(* A word below the table belongs to nobody. *)
TInit ==
  /\ tIn \in Inputs
  /\ tPc = "start" /\ tReps \in 0 .. TableReps
  /\ tI = 0 /\ tJ = 0
  /\ \E g \in Garbage :
       tTable = IF tIn.prog = "knapsack" THEN [w \in KsCells |-> g]
                ELSE [k \in TableWords \cup {-1} |-> g]
  /\ tStored = {} /\ tLoaded = {}

Runs(prog) == tIn.prog = prog
Begin(prog) == Runs(prog) /\ tPc = "start" /\ tReps > 0 /\ tPc' = "fill"
Fill(prog) == Runs(prog) /\ tPc = "fill" /\ UNCHANGED <<tIn, tPc, tReps>>
Repeated ==
  /\ tPc' = "start" /\ tReps' = tReps - 1
  /\ UNCHANGED <<tIn, tI, tJ, tTable, tStored, tLoaded>>

TReturn ==
  /\ tPc = "start" /\ tReps = 0
  /\ tPc' = "done"
  /\ UNCHANGED <<tIn, tReps, tI, tJ, tTable, tStored, tLoaded>>

-----------------------------------------------------------------------------
(* Items are numbered from 1, as sequences are. *)
KsBegin ==
  /\ Begin("knapsack")
  /\ tTable' = [w \in KsCells |-> 0]
  /\ tI' = 1 /\ tJ' = tIn.capacity
  /\ UNCHANGED <<tIn, tReps, tStored, tLoaded>>

(* Defect: the weights ascend, and an item is taken more than once. *)
KsCell_Ascending ==
  /\ Fill("knapsack")
  /\ tI <= Len(tIn.weight) /\ tJ >= tIn.weight[tI]
  /\ LET w    == tIn.capacity - tJ + tIn.weight[tI]
         with == tTable[w - tIn.weight[tI]] + tIn.value[tI]
     IN  tTable' = IF tTable[w] < with THEN [tTable EXCEPT ![w] = with] ELSE tTable
  /\ tJ' = tJ - 1
  /\ UNCHANGED <<tI, tStored, tLoaded>>

(* dp[w] becomes dp[w - weights[i]] + values[i] if that is more. *)
KsCell ==
  /\ Fill("knapsack")
  /\ tI <= Len(tIn.weight) /\ tJ >= tIn.weight[tI]
  /\ LET with == tTable[tJ - tIn.weight[tI]] + tIn.value[tI]
     IN  tTable' = IF tTable[tJ] < with THEN [tTable EXCEPT ![tJ] = with] ELSE tTable
  /\ tJ' = tJ - 1
  /\ UNCHANGED <<tI, tStored, tLoaded>>

KsNextItem ==
  /\ Fill("knapsack")
  /\ tI <= Len(tIn.weight) /\ tJ < tIn.weight[tI]
  /\ tI' = tI + 1 /\ tJ' = tIn.capacity
  /\ UNCHANGED <<tTable, tStored, tLoaded>>

KsEnd == Runs("knapsack") /\ tPc = "fill" /\ tI > Len(tIn.weight) /\ Repeated

-----------------------------------------------------------------------------
(* Defect: rows of n words. *)
LcsWord_Narrow(i, j) == i * N + j

LcsWord(i, j) == i * (N + 1) + j

LcsBegin ==
  /\ Begin("lcs")
  /\ tTable' = [k \in DOMAIN tTable |-> IF k \in TableWords THEN 0 ELSE tTable[k]]
  /\ tI' = 1 /\ tJ' = 1
  /\ UNCHANGED <<tIn, tReps, tStored, tLoaded>>

LcsCell ==
  /\ Fill("lcs") /\ tI <= M /\ tJ <= N
  /\ LET up   == tTable[LcsWord(tI - 1, tJ)]
         left == tTable[LcsWord(tI, tJ - 1)]
         diag == tTable[LcsWord(tI - 1, tJ - 1)]
         cell == IF tIn.s[tI] = tIn.t[tJ] THEN diag + 1
                 ELSE IF up > left THEN up ELSE left
     IN  tTable' = [tTable EXCEPT ![LcsWord(tI, tJ)] = cell]
  /\ tJ' = tJ + 1
  /\ UNCHANGED <<tI, tStored, tLoaded>>

LcsNextRow ==
  /\ Fill("lcs") /\ tI <= M /\ tJ > N
  /\ tI' = tI + 1 /\ tJ' = 1
  /\ UNCHANGED <<tTable, tStored, tLoaded>>

LcsEnd == Runs("lcs") /\ tPc = "fill" /\ tI > M /\ Repeated

-----------------------------------------------------------------------------
(* Defect: the product of the lengths, with no row and column for 0. *)
EdWord_FromOne(i, j) == (i + 1) * (j + 1)

(* The row stride is missing: the word of cell i, j is i * j. *)
EdWord(i, j) == i * j

(* dp[0][j] = j and dp[i][0] = i are all stored to word 0.  The table is   *)
(* not cleared, and the same stack is used by the next repetition.         *)
EdBegin ==
  /\ Begin("edit_distance")
  /\ tTable' = [tTable EXCEPT ![0] = IF M > 0 THEN M ELSE N]
  /\ tStored' = {EdWord(0, j) : j \in 0 .. N} \cup {EdWord(i, 0) : i \in 1 .. M}
  /\ tLoaded' = {}
  /\ tI' = 1 /\ tJ' = 1
  /\ UNCHANGED <<tIn, tReps>>

(* The neighbours in the row before and the column before are one word     *)
(* below what their index expressions leave out.                           *)
EdCell ==
  /\ Fill("edit_distance") /\ tI <= M /\ tJ <= N
  /\ LET up    == EdWord(tI - 1, tJ)
         left  == EdWord(tI, tJ) - 1
         diag  == EdWord(tI - 1, tJ) - 1
         same  == tIn.s[tI] = tIn.t[tJ]
         loads == IF same THEN {diag} ELSE {up, left, diag}
         cell  == IF same THEN tTable[diag]
                  ELSE 1 + Min({tTable[k] : k \in {up, left, diag}})
     IN  /\ tTable' = [tTable EXCEPT ![EdWord(tI, tJ)] = cell]
         /\ tStored' = tStored \cup {EdWord(tI, tJ)}
         /\ tLoaded' = tLoaded \cup loads
  /\ tJ' = tJ + 1
  /\ UNCHANGED tI

EdNextRow ==
  /\ Fill("edit_distance") /\ tI <= M /\ tJ > N
  /\ tI' = tI + 1 /\ tJ' = 1
  /\ UNCHANGED <<tTable, tStored, tLoaded>>

(* dp[m][n] is loaded, and dropped. *)
EdEnd ==
  /\ Runs("edit_distance") /\ tPc = "fill" /\ tI > M
  /\ tPc' = "start" /\ tReps' = tReps - 1
  /\ tLoaded' = tLoaded \cup {EdWord(M, N)}
  /\ UNCHANGED <<tIn, tI, tJ, tTable, tStored>>

TNext == \/ KsBegin \/ KsCell \/ KsNextItem \/ KsEnd
         \/ LcsBegin \/ LcsCell \/ LcsNextRow \/ LcsEnd
         \/ EdBegin \/ EdCell \/ EdNextRow \/ EdEnd \/ TReturn

TSpec == TInit /\ [][TNext]_tVars

-----------------------------------------------------------------------------
(* The sum of f over these items. *)
Total(f, items) ==
  LET sum[k \in Nat] ==
        IF k = 0 THEN 0 ELSE sum[k - 1] + (IF k \in items THEN f[k] ELSE 0)
  IN  sum[Len(f)]

(* The greatest value of some of the first i items that weigh at most w.   *)
BestValue(i, w) ==
  Max({Total(tIn.value, items) :
         items \in {it \in SUBSET (1 .. i) : Total(tIn.weight, it) <= w}})

(* Every word of knapsack's table is the best value for its weight, among  *)
(* the items done so far, the present one included above tJ only: no item  *)
(* is taken twice, in the first repetition and the next ones.              *)
KnapsackBest ==
  (Runs("knapsack") /\ tPc = "fill") =>
    \A w \in KsCells : tTable[w] =
      BestValue(IF tI > Len(tIn.weight) \/ w <= tJ THEN tI - 1 ELSE tI, w)

(* The common subsequences of the first i letters of one word and the      *)
(* first j of the other, as the pairs of places that their letters have.    *)
Common(i, j) ==
  {P \in SUBSET {p \in (1 .. i) \X (1 .. j) : tIn.s[p[1]] = tIn.t[p[2]]} :
     \A p, q \in P : p[1] < q[1] <=> p[2] < q[2]}
Longest(i, j) == Max({Cardinality(P) : P \in Common(i, j)})

(* The cell lcs has just filled, in whichever repetition, is the length of *)
(* the longest common subsequence of the two prefixes.                     *)
LcsLongest ==
  (Runs("lcs") /\ tPc = "fill" /\ tI <= M /\ tJ > 1) =>
    tTable[LcsWord(tI, tJ - 1)] = Longest(tI, tJ - 1)

(* edit_distance stores inside its table although its cells overlap, and   *)
(* loads no further than one word below it; words it loads and nothing has *)
(* stored are garbage, but never words of the frame above the table.       *)
EditStaysInTable ==
  Runs("edit_distance") =>
    /\ tStored \subseteq TableWords
    /\ tLoaded \subseteq TableWords \cup {-1}
=============================================================================
