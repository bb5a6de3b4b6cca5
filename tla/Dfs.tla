-------------------------------- MODULE Dfs ---------------------------------
(***************************************************************************)
(* The dfs workload, src/workload/graph/dfs/dfs.S: depth-first search from *)
(* vertex 0 with an explicit stack of ten entries for five vertices        *)
(* (.zero 80).  When a new neighbour is found the current vertex is pushed *)
(* back below it, and its scan starts again when it is popped.             *)
(***************************************************************************)
EXTENDS GraphData

VARIABLES
  dPc,      (* "loop", "main", "neigh" or "done": the labels               *)
  dReps,    (* s2: repetitions left                                        *)
  dVisited, (* .L_dfs_visited: vertices whose byte is 1                    *)
  dStack,   (* .L_dfs_stack: 2 V entries                                   *)
  dTop,     (* .L_dfs_sptr, in entries                                     *)
  dCur,     (* s0: the vertex popped last                                  *)
  dNext     (* s1: the column to look at                                   *)

dVars == <<dPc, dReps, dVisited, dStack, dTop, dCur, dNext>>

DfsInit ==
  /\ graph \in Graphs
  /\ dPc = "loop"
  /\ dReps \in 0 .. MaxReps
  /\ dVisited = {}
  /\ dStack = [k \in 0 .. 2 * V - 1 |-> 0]
  /\ dTop = 0
  /\ dCur = 0 /\ dNext = 0

DfsReset ==
  /\ dPc = "loop" /\ dReps # 0
  /\ dVisited' = {0}
  /\ dStack' = [dStack EXCEPT ![0] = 0]
  /\ dTop' = 1
  /\ dPc' = "main"
  /\ UNCHANGED <<graph, dReps, dCur, dNext>>

DfsReturn ==
  /\ dPc = "loop" /\ dReps = 0
  /\ dPc' = "done"
  /\ UNCHANGED <<graph, dReps, dVisited, dStack, dTop, dCur, dNext>>

(* Defect: the stack pointer is not written back. *)
DfsPop_KeepTop ==
  /\ dPc = "main" /\ dTop # 0
  /\ dCur' = dStack[dTop - 1]
  /\ dNext' = 0
  /\ dPc' = "neigh"
  /\ UNCHANGED <<graph, dReps, dVisited, dStack, dTop>>

DfsPop ==
  /\ dPc = "main" /\ dTop # 0
  /\ dTop' = dTop - 1
  /\ dCur' = dStack[dTop - 1]
  /\ dNext' = 0
  /\ dPc' = "neigh"
  /\ UNCHANGED <<graph, dReps, dVisited, dStack>>

DfsComplete ==
  /\ dPc = "main" /\ dTop = 0
  /\ dReps' = dReps - 1
  /\ dPc' = "loop"
  /\ UNCHANGED <<graph, dVisited, dStack, dTop, dCur, dNext>>

DfsFresh(v) == Edge(dCur, v) /\ v \notin dVisited

(* Defect: the current vertex is not pushed back. *)
DfsVisit_NoPushBack ==
  /\ dPc = "neigh" /\ dNext # V /\ DfsFresh(dNext)
  /\ dVisited' = dVisited \cup {dNext}
  /\ dStack' = [dStack EXCEPT ![dTop] = dNext]
  /\ dTop' = dTop + 1
  /\ dPc' = "main"
  /\ UNCHANGED <<graph, dReps, dCur, dNext>>

(* A new neighbour: mark it, push the current vertex back, push it. *)
DfsVisit ==
  /\ dPc = "neigh" /\ dNext # V /\ DfsFresh(dNext)
  /\ dVisited' = dVisited \cup {dNext}
  /\ dStack' = [dStack EXCEPT ![dTop] = dCur, ![dTop + 1] = dNext]
  /\ dTop' = dTop + 2
  /\ dPc' = "main"
  /\ UNCHANGED <<graph, dReps, dCur, dNext>>

DfsSkip ==
  /\ dPc = "neigh" /\ dNext # V /\ ~DfsFresh(dNext)
  /\ dNext' = dNext + 1
  /\ UNCHANGED <<graph, dPc, dReps, dVisited, dStack, dTop, dCur>>

DfsEndScan ==
  /\ dPc = "neigh" /\ dNext = V
  /\ dPc' = "main"
  /\ UNCHANGED <<graph, dReps, dVisited, dStack, dTop, dCur, dNext>>

DfsNext == \/ DfsReset \/ DfsReturn \/ DfsPop \/ DfsComplete
           \/ DfsVisit \/ DfsSkip \/ DfsEndScan

DfsSpec == DfsInit /\ [][DfsNext]_<<graph, dVars>>

-----------------------------------------------------------------------------
(* Every variable of dfs.S holds a value of its type. *)
DfsTypeOK ==
  /\ graph \in Graphs
  /\ dPc \in {"loop", "main", "neigh", "done"}
  /\ dReps \in 0 .. MaxReps
  /\ dVisited \subseteq Vertex
  /\ dStack \in [0 .. 2 * V - 1 -> Vertex]
  /\ dTop \in 0 .. 2 * V
  /\ dCur \in Vertex
  /\ dNext \in 0 .. V

(* While it scans, the vertices on the stack and the current one are a     *)
(* path of the graph from vertex 0: each entry has an edge to the one      *)
(* above it, and no vertex occurs twice.                                   *)
DfsPath == [k \in 0 .. dTop |-> IF k = dTop THEN dCur ELSE dStack[k]]

DfsStackIsPath ==
  dPc = "neigh" =>
    /\ DfsPath[0] = 0
    /\ \A k \in 0 .. dTop - 1 : Edge(DfsPath[k], DfsPath[k + 1])
    /\ \A j, k \in 0 .. dTop : DfsPath[j] = DfsPath[k] => j = k

(* Half of the ten entries would do: V entries are never exceeded, so the  *)
(* push of two entries never writes over sptr behind the stack.            *)
DfsStackFits ==
  /\ dTop <= V
  /\ dPc = "neigh" /\ dNext # V /\ DfsFresh(dNext) => dTop + 2 <= V

DfsSearch == INSTANCE GraphSearch
  WITH marked <- dVisited, searching <- dPc \in {"main", "neigh"}

(* Every repetition marks exactly the vertices reachable from vertex 0:    *)
(* the stack loop implements GraphSearch.                                  *)
DfsImplementsSearch == DfsSearch!Spec
=============================================================================
