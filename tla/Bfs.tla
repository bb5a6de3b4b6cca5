-------------------------------- MODULE Bfs ---------------------------------
(***************************************************************************)
(* The bfs workload, src/workload/graph/bfs/bfs.S: breadth-first search    *)
(* from vertex 0 with a queue that is never wrapped around, one entry per  *)
(* vertex (.zero 40 for five).  Offsets are counted in 8-byte entries.     *)
(***************************************************************************)
EXTENDS GraphData

VARIABLES
  bPc,      (* "loop", "main", "neigh" or "done": the labels               *)
  bReps,    (* s2: repetitions left                                        *)
  bVisited, (* .L_bfs_visited: vertices whose byte is 1                    *)
  bQueue,   (* .L_bfs_queue: V entries                                     *)
  bStart,   (* .L_bfs_qstart                                               *)
  bEnd,     (* .L_bfs_qend                                                 *)
  bCur,     (* s0: the vertex dequeued last                                *)
  bNext     (* s1: the column to look at                                   *)

bVars == <<bPc, bReps, bVisited, bQueue, bStart, bEnd, bCur, bNext>>

BfsInit ==
  /\ graph \in Graphs
  /\ bPc = "loop"
  /\ bReps \in 0 .. MaxReps
  /\ bVisited = {}
  /\ bQueue = [k \in Vertex |-> 0]
  /\ bStart = 0 /\ bEnd = 0
  /\ bCur = 0 /\ bNext = 0

(* Clear visited, enqueue vertex 0 and mark it. *)
BfsReset ==
  /\ bPc = "loop" /\ bReps # 0
  /\ bVisited' = {0}
  /\ bQueue' = [bQueue EXCEPT ![0] = 0]
  /\ bStart' = 0 /\ bEnd' = 1
  /\ bPc' = "main"
  /\ UNCHANGED <<graph, bReps, bCur, bNext>>

BfsReturn ==
  /\ bPc = "loop" /\ bReps = 0
  /\ bPc' = "done"
  /\ UNCHANGED <<graph, bReps, bVisited, bQueue, bStart, bEnd, bCur, bNext>>

(* Defect: the entry enqueued last is taken, as in a stack. *)
BfsDequeue_Last ==
  /\ bPc = "main" /\ bStart # bEnd
  /\ bCur' = bQueue[bEnd - 1]
  /\ bQueue' = [bQueue EXCEPT ![bEnd - 1] = bQueue[bStart], ![bStart] = bQueue[bEnd - 1]]
  /\ bStart' = bStart + 1
  /\ bNext' = 0
  /\ bPc' = "neigh"
  /\ UNCHANGED <<graph, bReps, bVisited, bEnd>>

BfsDequeue ==
  /\ bPc = "main" /\ bStart # bEnd
  /\ bCur' = bQueue[bStart]
  /\ bStart' = bStart + 1
  /\ bNext' = 0
  /\ bPc' = "neigh"
  /\ UNCHANGED <<graph, bReps, bVisited, bQueue, bEnd>>

BfsComplete ==
  /\ bPc = "main" /\ bStart = bEnd
  /\ bReps' = bReps - 1
  /\ bPc' = "loop"
  /\ UNCHANGED <<graph, bVisited, bQueue, bStart, bEnd, bCur, bNext>>

BfsFresh(v) == Edge(bCur, v) /\ v \notin bVisited

(* Defect: a vertex is marked when it is dequeued, not when it is found. *)
BfsVisit_MarkLate ==
  /\ bPc = "neigh" /\ bNext # V /\ BfsFresh(bNext)
  /\ bVisited' = bVisited \cup {bCur}
  /\ bQueue' = [bQueue EXCEPT ![bEnd] = bNext]
  /\ bEnd' = bEnd + 1
  /\ bNext' = bNext + 1
  /\ UNCHANGED <<graph, bPc, bReps, bStart, bCur>>

(* Defect: the neighbour scan stops at the first new vertex. *)
BfsVisit_OnlyFirst ==
  /\ bPc = "neigh" /\ bNext # V /\ BfsFresh(bNext)
  /\ bVisited' = bVisited \cup {bNext}
  /\ bQueue' = [bQueue EXCEPT ![bEnd] = bNext]
  /\ bEnd' = bEnd + 1
  /\ bNext' = V
  /\ UNCHANGED <<graph, bPc, bReps, bStart, bCur>>

(* A neighbour seen for the first time is marked and enqueued. *)
BfsVisit ==
  /\ bPc = "neigh" /\ bNext # V /\ BfsFresh(bNext)
  /\ bVisited' = bVisited \cup {bNext}
  /\ bQueue' = [bQueue EXCEPT ![bEnd] = bNext]
  /\ bEnd' = bEnd + 1
  /\ bNext' = bNext + 1
  /\ UNCHANGED <<graph, bPc, bReps, bStart, bCur>>

BfsSkip ==
  /\ bPc = "neigh" /\ bNext # V /\ ~BfsFresh(bNext)
  /\ bNext' = bNext + 1
  /\ UNCHANGED <<graph, bPc, bReps, bVisited, bQueue, bStart, bEnd, bCur>>

BfsEndScan ==
  /\ bPc = "neigh" /\ bNext = V
  /\ bPc' = "main"
  /\ UNCHANGED <<graph, bReps, bVisited, bQueue, bStart, bEnd, bCur, bNext>>

BfsNext == \/ BfsReset \/ BfsReturn \/ BfsDequeue \/ BfsComplete
           \/ BfsVisit \/ BfsSkip \/ BfsEndScan

BfsSpec == BfsInit /\ [][BfsNext]_<<graph, bVars>>

-----------------------------------------------------------------------------
(* Every variable of bfs.S holds a value of its type: the queue indices     *)
(* stay within the queue, its entries are vertices.                        *)
BfsTypeOK ==
  /\ graph \in Graphs
  /\ bPc \in {"loop", "main", "neigh", "done"}
  /\ bReps \in 0 .. MaxReps
  /\ bVisited \subseteq Vertex
  /\ bQueue \in [Vertex -> Vertex]
  /\ bStart \in Nat /\ bEnd \in 0 .. V
  /\ bCur \in Vertex
  /\ bNext \in 0 .. V

(* The queue is never written past its V entries, which would overwrite    *)
(* qstart and qend behind it: as many entries are in use as vertices are   *)
(* marked, so a slot is left whenever a new vertex turns up.               *)
BfsQueueFits ==
  /\ bStart <= bEnd
  /\ bEnd = Cardinality(bVisited)
  /\ bPc = "neigh" /\ bNext # V /\ BfsFresh(bNext) => bEnd < V

(* The search is breadth-first: the queue holds the vertices in the order  *)
(* of their distance from vertex 0.                                        *)
BfsInLayers ==
  \A i, j \in 0 .. bEnd - 1 : i < j => Level(bQueue[i]) <= Level(bQueue[j])

(* Every repetition marks exactly the vertices reachable from vertex 0:    *)
(* the queue loop implements GraphSearch.                                  *)
BfsSearch == INSTANCE GraphSearch
  WITH marked <- bVisited, searching <- bPc \in {"main", "neigh"}

BfsImplementsSearch == BfsSearch!Spec
=============================================================================
