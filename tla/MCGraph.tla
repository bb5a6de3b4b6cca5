------------------------------ MODULE MCGraph -------------------------------
(* The workloads one after the other, in the order in which `uarch run`     *)
(* without a config starts them (find | sort).  Every digraph on three      *)
(* vertices, every one of them without loops with weights 1 and 3, and the  *)
(* five-vertex matrices of the sources; small knapsacks and pairs of words, *)
(* and those of the sources.                                                *)
EXTENDS Bfs, Dfs, Dijkstra, Tables

MCSmall == 0 .. 2
MCMatrix ==
  {<<0, 1>>, <<0, 2>>, <<1, 0>>, <<1, 2>>, <<1, 3>>, <<2, 0>>, <<2, 1>>,
   <<2, 4>>, <<3, 1>>, <<3, 4>>, <<4, 2>>, <<4, 3>>}
MCGraphs == SUBSET (MCSmall \X MCSmall) \cup {MCMatrix}

MCRow == << <<0, 7, 9, 0, 0>>, <<7, 0, 10, 15, 0>>, <<9, 10, 0, 11, 2>>,
            <<0, 15, 11, 0, 6>>, <<0, 0, 2, 6, 0>> >>
MCWeight == [e \in Vertex \X Vertex |-> MCRow[e[1] + 1][e[2] + 1]]
MCLoopless == {e \in MCSmall \X MCSmall : e[1] # e[2]}
MCWeights ==
  {[e \in Vertex \X Vertex |-> IF e \in MCLoopless THEN w[e] ELSE 0] :
     w \in [MCLoopless -> {0, 1, 3}]} \cup {MCWeight}

(* dijkstra has a matrix of its own; small graphs go with small weights. *)
Support(w) == {e \in Vertex \X Vertex : w[e] # 0}
Matching == IF jWeight = MCWeight THEN graph = MCMatrix
                                  ELSE Support(jWeight) \in {graph, {}}

(* The data of knapsack.S, lcs.S and edit_distance.S, and smaller ones. *)
MCKnapsack == [prog |-> "knapsack", weight |-> <<2, 3, 4>>, value |-> <<3, 4, 5>>,
               capacity |-> 5]
MCKnapsacks ==
  {[prog |-> "knapsack", weight |-> w, value |-> v, capacity |-> 4] :
     w \in [1 .. 2 -> 1 .. 3], v \in [1 .. 2 -> 1 .. 2]}
MCLcs  == [prog |-> "lcs", s |-> <<"A", "B", "C", "B", "D", "A">>,
                           t |-> <<"A", "B", "D", "C", "A">>]
MCEdit == [prog |-> "edit_distance", s |-> <<"k", "i", "t", "t", "e">>,
                                     t |-> <<"s", "i", "t", "t", "i", "n">>]
MCWords == UNION {[1 .. n -> {"a", "b"}] : n \in 0 .. 3}
MCPairs == {[prog |-> p, s |-> s, t |-> t] :
              p \in {"lcs", "edit_distance"}, s \in MCWords, t \in MCWords}
MCInputs == {MCKnapsack, MCLcs, MCEdit} \cup MCKnapsacks \cup MCPairs

(* The programs are built with one nloop; its conjunct comes first only to  *)
(* spare TLC the combinations that do not match; the tables go with the     *)
(* graph without edges, and the other graphs with no repetition of knapsack.*)
Init == /\ jWeight \in Weights /\ graph \in Graphs /\ Matching
        /\ bReps \in 0 .. MaxReps /\ dReps = bReps /\ jReps = bReps
        /\ BfsInit /\ DfsInit /\ DjInit
        /\ IF graph = {} THEN tIn \in Inputs /\ tReps = bReps
                         ELSE tIn = MCKnapsack /\ tReps = 0
        /\ TInit

Next == \/ TNext /\ UNCHANGED <<graph, bVars, dVars, jVars>>
        \/ tPc = "done" /\ BfsNext /\ UNCHANGED <<tVars, dVars, jVars>>
        \/ bPc = "done" /\ DfsNext /\ UNCHANGED <<tVars, bVars, jVars>>
        \/ dPc = "done" /\ DjNext /\ UNCHANGED <<tVars, graph, bVars, dVars>>

Spec == Init /\ [][Next]_<<graph, bVars, dVars, jVars, tVars>>
=============================================================================
