---------------------------- MODULE GraphProofs -----------------------------
(***************************************************************************)
(* Theorems about the graph workloads, for every matrix and every number   *)
(* of vertices: the searches stay inside their queue and stack, go by      *)
(* level or along a path, and find exactly what can be reached; dijkstra   *)
(* finds the true distances.  Every repetition ends: the measures at the   *)
(* end of the module fall with every step.                                 *)
(***************************************************************************)
EXTENDS Bfs, Dfs, Dijkstra, InductionLemmas, TLAPS, FiniteSetTheorems

(* There are V vertices. *)
LEMMA VertexFinite ==
  /\ IsFiniteSet(Vertex)
  /\ Cardinality(Vertex) = V
  /\ V \in Nat /\ V >= 1
<1>1. V \in 1 .. 8
  BY GraphAssumption
<1>2. IsFiniteSet(0 .. V - 1) /\ Cardinality(0 .. V - 1) = V
  BY <1>1, FS_Interval
<1> QED
  BY <1>1, <1>2 DEF Vertex

(* A set of vertices that leaves one out has fewer than V elements. *)
LEMMA RoomForOneMore ==
  ASSUME NEW S \in SUBSET Vertex, NEW v \in Vertex \ S
  PROVE  /\ IsFiniteSet(S)
         /\ Cardinality(S \cup {v}) = Cardinality(S) + 1
         /\ Cardinality(S) \in Nat
         /\ Cardinality(S) < V
<1>1. IsFiniteSet(S)
  BY VertexFinite, FS_Subset
<1>2. Cardinality(S \cup {v}) = Cardinality(S) + 1
  BY <1>1, FS_AddElement
<1>3. Cardinality(S \cup {v}) <= V
  <2>1. S \cup {v} \in SUBSET Vertex
    OBVIOUS
  <2> QED
    BY <2>1, VertexFinite, FS_Subset
<1>4. Cardinality(S) \in Nat
  BY <1>1, FS_CardinalityType
<1> QED
  BY <1>1, <1>2, <1>3, <1>4, VertexFinite

-----------------------------------------------------------------------------
(* bfs *)

BfsScanned(u) == \A v \in Vertex : Edge(u, v) => v \in bVisited

(* Every marked vertex has been scanned, or waits in the queue, or is the  *)
(* one being scanned, and then its columns below bNext have been.          *)
BfsFrontier ==
  \A u \in bVisited :
    \/ BfsScanned(u)
    \/ \E k \in bStart .. bEnd - 1 : bQueue[k] = u
    \/ /\ bPc = "neigh" /\ u = bCur
       /\ \A v \in 0 .. bNext - 1 : Edge(u, v) => v \in bVisited

(* As many queue entries are in use as vertices are marked. *)
BfsInv ==
  /\ BfsTypeOK
  /\ BfsQueueFits
  /\ \A k \in 0 .. bEnd - 1 : bQueue[k] \in bVisited
  /\ bPc \in {"main", "neigh"} => /\ bReps # 0
                                  /\ 0 \in bVisited
                                  /\ BfsFrontier
  /\ bPc = "neigh" => bCur \in bVisited

(* BfsInv holds initially. *)
LEMMA BfsInvInit == BfsInit => BfsInv
<1> SUFFICES ASSUME BfsInit PROVE BfsInv
  OBVIOUS
<1>1. 0 \in Vertex
  BY VertexFinite DEF Vertex
<1> QED
  BY <1>1, VertexFinite, GraphAssumption, FS_EmptySet
  DEF BfsInit, BfsInv, BfsTypeOK, BfsQueueFits

(* Every instruction sequence of bfs.S preserves BfsInv. *)
LEMMA BfsInvStep == BfsInv /\ [BfsNext]_<<graph, bVars>> => BfsInv'
<1> SUFFICES ASSUME BfsInv, [BfsNext]_<<graph, bVars>> PROVE BfsInv'
  OBVIOUS
<1> USE DEF BfsInv
<1>0. 0 \in Vertex /\ V \in Nat /\ V >= 1 /\ Vertex = 0 .. V - 1 /\ MaxReps \in Nat
  BY VertexFinite, GraphAssumption DEF Vertex
<1>1. CASE BfsReset
  <2>1. bEnd' = 1 /\ bStart' = 0 /\ bVisited' = {0} /\ bQueue'[0] = 0
    BY <1>0, <1>1 DEF BfsReset, BfsTypeOK
  <2>2. Cardinality(bVisited') = 1
    BY <2>1, FS_Singleton
  <2>3. BfsTypeOK'
    BY <1>0, <1>1 DEF BfsReset, BfsTypeOK
  <2>4. BfsQueueFits'
    BY <1>1, <2>1, <2>2 DEF BfsReset, BfsQueueFits
  <2>5. BfsFrontier'
    BY <2>1 DEF BfsFrontier
  <2> QED
    BY <1>1, <2>1, <2>3, <2>4, <2>5 DEF BfsReset
<1>2. CASE BfsReturn
  BY <1>2 DEF BfsReturn, BfsTypeOK, BfsQueueFits
<1>3. CASE BfsDequeue
  <2>1. bStart \in 0 .. bEnd - 1 /\ bStart \in Vertex
    BY <1>0, <1>3 DEF BfsDequeue, BfsTypeOK, BfsQueueFits
  <2>2. bCur' = bQueue[bStart] /\ bCur' \in Vertex /\ bCur' \in bVisited
    BY <1>3, <2>1 DEF BfsDequeue, BfsTypeOK
  <2>3. BfsTypeOK'
    BY <1>0, <1>3, <2>1, <2>2 DEF BfsDequeue, BfsTypeOK
  <2>4. BfsQueueFits'
    <3>1. ASSUME BfsFresh(0)' PROVE bEnd < V
      <4>1. 0 \in Vertex \ bVisited
        BY <1>0, <1>3, <3>1 DEF BfsDequeue, BfsFresh
      <4> QED
        BY <4>1, RoomForOneMore DEF BfsTypeOK, BfsQueueFits
    <3> QED
      BY <1>3, <2>1, <3>1 DEF BfsDequeue, BfsQueueFits, BfsTypeOK
  <2>5. BfsFrontier'
    <3> SUFFICES ASSUME NEW u \in bVisited
                 PROVE  \/ BfsScanned(u)
                        \/ \E k \in bStart + 1 .. bEnd - 1 : bQueue[k] = u
                        \/ u = bQueue[bStart]
      BY <1>3, <2>2 DEF BfsDequeue, BfsFrontier, BfsScanned, Edge
    <3> QED
      BY <1>3, <2>1 DEF BfsDequeue, BfsFrontier, BfsTypeOK
  <2> QED
    BY <1>3, <2>2, <2>3, <2>4, <2>5 DEF BfsDequeue
<1>4. CASE BfsComplete
  BY <1>0, <1>4 DEF BfsComplete, BfsTypeOK, BfsQueueFits
<1>5. CASE BfsVisit
  <2>1. bNext \in Vertex \ bVisited /\ bVisited \in SUBSET Vertex
    BY <1>0, <1>5 DEF BfsVisit, BfsFresh, BfsTypeOK
  <2>2. /\ bEnd < V /\ bEnd = Cardinality(bVisited)
        /\ Cardinality(bVisited \cup {bNext}) = bEnd + 1
    BY <2>1, RoomForOneMore DEF BfsQueueFits
  <2>3. bEnd \in Vertex /\ bStart <= bEnd
    BY <1>0, <2>2 DEF BfsTypeOK, BfsQueueFits
  <2>h. /\ bVisited' = bVisited \cup {bNext}
        /\ bQueue' = [bQueue EXCEPT ![bEnd] = bNext]
        /\ bEnd' = bEnd + 1 /\ bNext' = bNext + 1
        /\ UNCHANGED <<graph, bPc, bReps, bStart, bCur>>
    BY <1>5 DEF BfsVisit
  <2>4. BfsTypeOK'
    <3>1. bQueue' \in [Vertex -> Vertex]
      BY <2>h, <2>1 DEF BfsTypeOK
    <3>2. bEnd' \in 0 .. V /\ bNext' \in 0 .. V
      BY <1>0, <2>h, <2>1, <2>3
    <3> QED
      BY <3>1, <3>2, <2>h, <2>1 DEF BfsTypeOK
  <2>5. BfsQueueFits'
    <3>1. ASSUME bNext' # V, BfsFresh(bNext)' PROVE bEnd' < V
      <4>1. bNext' \in Vertex \ bVisited' /\ bVisited' \in SUBSET Vertex
        BY <1>0, <2>4, <3>1 DEF BfsTypeOK, BfsFresh
      <4> QED
        BY <4>1, RoomForOneMore, <2>2, <1>5 DEF BfsVisit
    <3> QED
      BY <1>5, <2>2, <2>3, <3>1 DEF BfsVisit, BfsQueueFits, BfsTypeOK
  <2>6. \A k \in 0 .. bEnd' - 1 : bQueue'[k] \in bVisited'
    <3>1. bQueue'[bEnd] = bNext
      BY <2>h, <2>3 DEF BfsTypeOK
    <3>2. ASSUME NEW k \in 0 .. bEnd - 1 PROVE bQueue'[k] = bQueue[k]
      <4>1. k \in Vertex /\ k # bEnd
        BY <1>0, <2>3
      <4> QED
        BY <4>1, <2>h DEF BfsTypeOK
    <3>3. \A k \in 0 .. bEnd' - 1 : k = bEnd \/ k \in 0 .. bEnd - 1
      BY <1>0, <2>h, <2>3
    <3> QED
      BY <3>1, <3>2, <3>3, <2>h
  <2>7. BfsFrontier'
    <3>0. /\ bStart' = bStart /\ bEnd' - 1 = bEnd /\ bNext' - 1 = bNext
          /\ bPc' = "neigh" /\ bCur' = bCur
          /\ bStart \in Nat
      BY <1>0, <1>5, <2>h, <2>1, <2>3 DEF BfsVisit, BfsTypeOK
    <3> SUFFICES ASSUME NEW u \in bVisited'
                 PROVE  \/ BfsScanned(u)'
                        \/ \E k \in bStart' .. bEnd' - 1 : bQueue'[k] = u
                        \/ /\ bPc' = "neigh" /\ u = bCur'
                           /\ \A v \in 0 .. bNext' - 1 : Edge(u, v)' => v \in bVisited'
      BY DEF BfsFrontier
    <3>1. CASE u = bNext
      <4>1. bEnd \in bStart .. bEnd /\ bQueue'[bEnd] = bNext
        BY <3>0, <2>3, <2>h DEF BfsTypeOK
      <4> QED
        BY <4>1, <3>0, <3>1
    <3>2. CASE u \in bVisited /\ BfsScanned(u)
      BY <2>h, <3>2 DEF BfsScanned, Edge
    <3>3. CASE \E k \in bStart .. bEnd - 1 : bQueue[k] = u
      <4>1. PICK k \in bStart .. bEnd - 1 : bQueue[k] = u
        BY <3>3
      <4>2. k \in Vertex /\ k # bEnd /\ k \in bStart .. bEnd
        BY <1>0, <3>0, <2>3
      <4> QED
        BY <3>0, <4>1, <4>2, <2>h DEF BfsTypeOK
    <3>4. CASE /\ u = bCur
               /\ \A v \in 0 .. bNext - 1 : Edge(u, v) => v \in bVisited
      <4>1. \A v \in 0 .. bNext : v = bNext \/ v \in 0 .. bNext - 1
        BY <1>0, <2>1
      <4> QED
        BY <2>h, <3>0, <3>4, <4>1 DEF Edge
    <3> QED
      BY <1>5, <2>h, <3>1, <3>2, <3>3, <3>4 DEF BfsVisit, BfsFrontier
  <2> QED
    BY <1>5, <2>4, <2>5, <2>6, <2>7 DEF BfsVisit
<1>6. CASE BfsSkip
  <2>1. bNext \in Vertex
    BY <1>0, <1>6 DEF BfsSkip, BfsTypeOK
  <2>2. BfsTypeOK'
    BY <1>0, <1>6, <2>1, SMTT(30) DEF BfsSkip, BfsTypeOK
  <2>3. BfsQueueFits'
    <3>1. ASSUME bNext' # V, BfsFresh(bNext)' PROVE bEnd < V
      <4>1. bNext' \in Vertex \ bVisited /\ bVisited \in SUBSET Vertex
        BY <1>0, <1>6, <2>2, <3>1 DEF BfsTypeOK, BfsFresh, BfsSkip
      <4> QED
        BY <4>1, RoomForOneMore DEF BfsQueueFits
    <3> QED
      BY <1>6, <3>1 DEF BfsSkip, BfsQueueFits
  <2>4. BfsFrontier'
    <3>1. \A v \in 0 .. bNext' - 1 : v = bNext \/ v \in 0 .. bNext - 1
      BY <1>0, <1>6, <2>1 DEF BfsSkip
    <3>2. Edge(bCur, bNext) => bNext \in bVisited
      BY <1>6 DEF BfsSkip, BfsFresh
    <3>3. BfsFrontier
      BY <1>6 DEF BfsSkip
    <3> QED
      BY <1>6, <3>1, <3>2, <3>3 DEF BfsSkip, BfsFrontier, BfsScanned, Edge
  <2> QED
    BY <1>6, <2>2, <2>3, <2>4 DEF BfsSkip
<1>7. CASE BfsEndScan
  <2>1. BfsFrontier'
    BY <1>0, <1>7 DEF BfsEndScan, BfsFrontier, BfsScanned, Edge
  <2> QED
    BY <1>7, <2>1 DEF BfsEndScan, BfsTypeOK, BfsQueueFits
<1>8. CASE UNCHANGED <<graph, bVars>>
  BY <1>8 DEF bVars, BfsTypeOK, BfsQueueFits, BfsFrontier, BfsScanned, BfsFresh, Edge
<1> QED
  BY <1>1, <1>2, <1>3, <1>4, <1>5, <1>6, <1>7, <1>8 DEF BfsNext

(* Every variable of bfs.S keeps its type: no index leaves the queue.      *)
THEOREM BfsTypeCorrect == BfsSpec => []BfsTypeOK
<1>1. BfsInv => BfsTypeOK
  BY DEF BfsInv
<1> QED
  BY <1>1, BfsInvInit, BfsInvStep, PTL DEF BfsSpec

(* The queue of V entries is never overrun (BfsQueueFits), for every graph.*)
THEOREM BfsStaysInQueue == BfsSpec => []BfsQueueFits
<1>1. BfsInv => BfsQueueFits
  BY DEF BfsInv
<1> QED
  BY <1>1, BfsInvInit, BfsInvStep, PTL DEF BfsSpec

(* A repetition of bfs.S ends only with every successor of a marked vertex *)
(* marked: the queue loop implements the search without a queue.           *)
THEOREM BfsIsSearch == BfsSpec => BfsImplementsSearch
<1> USE DEF BfsSearch!Edge, BfsSearch!Vertex, Vertex, Edge
<1>1. BfsInit => BfsSearch!Init
  BY DEF BfsInit, BfsSearch!Init
<1>2. ASSUME BfsInv, [BfsNext]_<<graph, bVars>>
      PROVE  [BfsSearch!Next]_BfsSearch!vars
  <2> USE <1>2 DEF BfsSearch!vars
  <2>1. CASE BfsReset
    <3>1. BfsSearch!Begin
      BY <2>1 DEF BfsReset, BfsSearch!Begin
    <3> QED
      BY <3>1 DEF BfsSearch!Next
  <2>2. CASE BfsComplete
    <3>1. bStart .. bEnd - 1 = {}
      BY <2>2 DEF BfsComplete, BfsInv, BfsTypeOK
    <3>2. BfsSearch!Closed(bVisited)
      BY <2>2, <3>1 DEF BfsComplete, BfsInv, BfsFrontier, BfsScanned, BfsSearch!Closed
    <3>3. BfsSearch!Finish
      BY <2>2, <3>2 DEF BfsComplete, BfsSearch!Finish
    <3> QED
      BY <3>3 DEF BfsSearch!Next
  <2>3. CASE BfsVisit
    <3>1. bCur \in bVisited /\ bNext \in Vertex \ bVisited
      BY <2>3, VertexFinite DEF BfsVisit, BfsFresh, BfsInv, BfsTypeOK
    <3>2. BfsSearch!Grow
      BY <2>3, <3>1 DEF BfsVisit, BfsFresh, BfsSearch!Grow
    <3> QED
      BY <3>2 DEF BfsSearch!Next
  <2>4. CASE BfsReturn \/ BfsDequeue \/ BfsSkip \/ BfsEndScan \/ UNCHANGED <<graph, bVars>>
    <3>1. UNCHANGED <<graph, bVisited, bPc \in {"main", "neigh"}>>
      BY <2>4 DEF BfsReturn, BfsDequeue, BfsSkip, BfsEndScan, bVars
    <3> QED
      BY <3>1
  <2> QED
    BY <2>1, <2>2, <2>3, <2>4 DEF BfsNext
<1> QED
  BY <1>1, <1>2, BfsInvInit, BfsInvStep, PTL DEF BfsSpec, BfsImplementsSearch, BfsSearch!Spec

-----------------------------------------------------------------------------
(* bfs takes the vertices in the order of their distance                   *)

(* A set of vertices and their successors.                                 *)
WithSuccessors(C) == C \cup {v \in Vertex : \E u \in C : Edge(u, v)}

(* Ball is well defined: it iterates a step along the edges.               *)
LEMMA BallIs ==
  /\ Ball[0] = {0}
  /\ \A n \in Nat : Ball[n] \in SUBSET Vertex
  /\ \A n \in Nat, v \in Vertex :
       v \in Ball[n + 1] <=> v \in Ball[n] \/ \E u \in Ball[n] : Edge(u, v)
<1> DEFINE G == [C \in SUBSET Vertex |-> WithSuccessors(C)]
<1>1. {0} \in SUBSET Vertex
  BY VertexFinite DEF Vertex
<1>2. G \in [SUBSET Vertex -> SUBSET Vertex]
  BY DEF WithSuccessors
<1>g. \A C \in SUBSET Vertex : G[C] = WithSuccessors(C)
  OBVIOUS
<1> HIDE DEF G
<1>3. PICK f \in [Nat -> SUBSET Vertex] : f = [n \in Nat |-> IF n = 0 THEN {0} ELSE G[f[n - 1]]]
  <2> DEFINE S == SUBSET Vertex
  <2>1. {0} \in S /\ G \in [S -> S]
    BY <1>1, <1>2
  <2> HIDE DEF S
  <2>2. \E f \in [Nat -> S] : f = [n \in Nat |-> IF n = 0 THEN {0} ELSE G[f[n - 1]]]
    BY <2>1, Iteration
  <2> QED
    BY <2>2 DEF S
<1>4. \A n \in Nat : n # 0 => G[f[n - 1]] = WithSuccessors(f[n - 1])
  <2> SUFFICES ASSUME NEW n \in Nat, n # 0 PROVE G[f[n - 1]] = WithSuccessors(f[n - 1])
    OBVIOUS
  <2>1. n - 1 \in Nat
    OBVIOUS
  <2>2. f[n - 1] \in SUBSET Vertex
    BY <2>1
  <2> QED
    BY <1>g, <2>2
<1>5. f = [n \in Nat |-> IF n = 0 THEN {0} ELSE WithSuccessors(f[n - 1])]
  BY <1>3, <1>4
<1>6. f = [n \in Nat |->
             IF n = 0 THEN {0}
             ELSE f[n - 1] \cup {v \in Vertex : \E u \in f[n - 1] : Edge(u, v)}]
  BY <1>5, Zenon DEF WithSuccessors
<1>7. Ball = [n \in Nat |->
             IF n = 0 THEN {0}
             ELSE Ball[n - 1] \cup {v \in Vertex : \E u \in Ball[n - 1] : Edge(u, v)}]
  BY <1>6, Zenon DEF Ball
<1>8. Ball[0] = {0} /\ \A n \in Nat : Ball[n + 1] = WithSuccessors(Ball[n])
  <2>1. ASSUME NEW n \in Nat PROVE Ball[n + 1] = WithSuccessors(Ball[n])
    <3>1. n + 1 \in Nat /\ n + 1 # 0 /\ (n + 1) - 1 = n
      OBVIOUS
    <3>2. Ball[n + 1] = IF n + 1 = 0 THEN {0} ELSE WithSuccessors(Ball[(n + 1) - 1])
      BY <1>7, <3>1, Zenon DEF WithSuccessors
    <3> QED
      BY <3>1, <3>2, Zenon
  <2>2. 0 \in Nat
    OBVIOUS
  <2>3. Ball[0] = IF 0 = 0 THEN {0} ELSE WithSuccessors(Ball[0 - 1])
    BY <1>7, <2>2, Zenon DEF WithSuccessors
  <2> QED
    BY <2>1, <2>3
<1>9. \A n \in Nat : Ball[n] \in SUBSET Vertex
  <2> DEFINE T == {n \in Nat : Ball[n] \in SUBSET Vertex}
  <2>1. 0 \in T
    BY <1>1, <1>8
  <2>2. ASSUME NEW n \in Nat, n \in T PROVE n + 1 \in T
    BY <1>8, <2>2 DEF WithSuccessors
  <2> HIDE DEF T
  <2>3. Nat \subseteq T
    BY <2>1, <2>2, Induction
  <2> QED
    BY <2>3 DEF T
<1> QED
  BY <1>8, <1>9 DEF WithSuccessors

(* The balls depend on the matrix alone.                                   *)
LEMMA BallIsKept ==
  ASSUME graph' = graph
  PROVE  Ball' = Ball
  BY DEF Ball, Edge

(* The level of a vertex, by what the balls are.                           *)
AtLevel(B, v, n) == v \in B[n] /\ \A m \in 0 .. n - 1 : v \notin B[m]
LevelIn(B, v) == CHOOSE n \in Vertex : AtLevel(B, v, n)

(* A vertex has one level at most.                                         *)
LEMMA LevelIs ==
  ASSUME NEW B, NEW v, NEW n \in Vertex, AtLevel(B, v, n)
  PROVE  LevelIn(B, v) = n
<1>1. \A m \in Vertex : AtLevel(B, v, m) => m = n
  BY VertexFinite DEF AtLevel, Vertex
<1> QED
  BY <1>1 DEF LevelIn

(* Level, with the balls it speaks of as a parameter.                      *)
LEMMA LevelDef == \A v : Level(v) = LevelIn(Ball, v)
  BY Zenon DEF Level, LevelIn, AtLevel

(* The entry of the queue that is being scanned or comes next.             *)
BfsFront == IF bPc = "neigh" THEN bStart - 1 ELSE bStart

(* The queue is sorted by level, and entry k has at most level k, which is *)
(* what keeps the levels below V.                                          *)
BfsLevelsOK ==
  /\ \A k \in 0 .. bEnd - 1 :
       LevelIn(Ball, bQueue[k]) \in 0 .. k /\ AtLevel(Ball, bQueue[k], LevelIn(Ball, bQueue[k]))
  /\ \A i, j \in 0 .. bEnd - 1 :
       i < j => LevelIn(Ball, bQueue[i]) <= LevelIn(Ball, bQueue[j])

(* The queue spans two levels, and every vertex of the levels before the    *)
(* second has been enqueued.                                               *)
BfsTwoLevels ==
  BfsFront < bEnd =>
    /\ \A j \in 0 .. bEnd - 1 :
         LevelIn(Ball, bQueue[j]) <= LevelIn(Ball, bQueue[BfsFront]) + 1
    /\ \A n \in 0 .. LevelIn(Ball, bQueue[BfsFront]) : Ball[n] \subseteq bVisited

(* The queue holds the marked vertices; those before BfsFront are scanned. *)
BfsQueued ==
  /\ \A v \in bVisited : \E k \in 0 .. bEnd - 1 : bQueue[k] = v
  /\ \A k \in 0 .. BfsFront - 1, v \in Vertex : Edge(bQueue[k], v) => v \in bVisited
  /\ bPc = "neigh" => /\ bStart >= 1 /\ bCur = bQueue[bStart - 1]
                      /\ \A v \in 0 .. bNext - 1 : Edge(bCur, v) => v \in bVisited

(* What BfsInLayers rests on.                                              *)
BfsLayerInv ==
  /\ BfsLevelsOK
  /\ bPc \in {"main", "neigh"} => BfsTwoLevels /\ BfsQueued

(* Every instruction sequence of bfs.S preserves BfsLayerInv: a new vertex *)
(* is one level below the vertex scanned, and when the front moves to the  *)
(* next level, all vertices of the level before have been scanned.         *)
LEMMA BfsLayerStep ==
  BfsInv /\ BfsLayerInv /\ [BfsNext]_<<graph, bVars>> => BfsLayerInv'
<1> SUFFICES ASSUME BfsInv, BfsLayerInv, [BfsNext]_<<graph, bVars>> PROVE BfsLayerInv'
  OBVIOUS
<1>0. /\ 0 \in Vertex /\ V \in Nat /\ V >= 1 /\ Vertex = 0 .. V - 1
      /\ bQueue \in [Vertex -> Vertex] /\ bStart \in Nat /\ bEnd \in 0 .. V
      /\ bStart <= bEnd /\ bVisited \in SUBSET Vertex /\ bNext \in 0 .. V
  BY VertexFinite, SMTT(30) DEF Vertex, BfsInv, BfsTypeOK, BfsQueueFits
<1>b. Ball' = Ball /\ graph' = graph
  <2>1. graph' = graph
    BY DEF BfsNext, BfsReset, BfsReturn, BfsDequeue, BfsComplete, BfsVisit, BfsSkip, BfsEndScan
  <2> QED
    BY <2>1, BallIsKept
<1>1. CASE BfsReset
  <2>1. bQueue'[0] = 0 /\ bEnd' = 1 /\ bStart' = 0 /\ bVisited' = {0} /\ bPc' = "main"
    BY <1>0, <1>1 DEF BfsReset
  <2>2. AtLevel(Ball, 0, 0) /\ LevelIn(Ball, 0) = 0
    <3>1. AtLevel(Ball, 0, 0)
      BY BallIs DEF AtLevel
    <3> QED
      BY <3>1, <1>0, LevelIs
  <2>3. 0 .. bEnd' - 1 = {0} /\ 0 .. 0 = {0} /\ BfsFront' = 0
    BY <2>1 DEF BfsFront
  <2>4. BfsLevelsOK'
    BY <1>b, <2>1, <2>2, <2>3 DEF BfsLevelsOK
  <2>5. BfsTwoLevels'
    BY <1>b, <2>1, <2>2, <2>3, BallIs DEF BfsTwoLevels
  <2>6. BfsQueued'
    BY <2>1, <2>3 DEF BfsQueued
  <2> QED
    BY <2>4, <2>5, <2>6 DEF BfsLayerInv
<1>2. CASE BfsReturn \/ BfsComplete
  BY <1>b, <1>2 DEF BfsReturn, BfsComplete, BfsLayerInv, BfsLevelsOK
<1>3. CASE BfsDequeue
  <2>1. /\ bPc = "main" /\ bPc' = "neigh" /\ bCur' = bQueue[bStart] /\ bStart' = bStart + 1
        /\ bNext' = 0 /\ UNCHANGED <<bVisited, bQueue, bEnd>>
    BY <1>3 DEF BfsDequeue
  <2>2. BfsFront' = BfsFront /\ BfsFront = bStart /\ bStart' - 1 = bStart
    BY <1>0, <2>1 DEF BfsFront
  <2>3. BfsLevelsOK'
    BY <1>b, <2>1 DEF BfsLevelsOK, BfsLayerInv
  <2>4. BfsTwoLevels'
    BY <1>b, <2>1, <2>2 DEF BfsTwoLevels, BfsLayerInv
  <2>5. BfsQueued'
    <3>1. BfsQueued
      BY <1>b, <2>1 DEF BfsLayerInv
    <3>2. \A v \in bVisited' : \E k \in 0 .. bEnd' - 1 : bQueue'[k] = v
      BY <2>1, <3>1 DEF BfsQueued
    <3>3. \A k \in 0 .. BfsFront' - 1, v \in Vertex :
             Edge(bQueue[k], v)' => v \in bVisited'
      BY <1>b, <2>1, <2>2, <3>1 DEF BfsQueued, Edge
    <3>4. bStart' >= 1 /\ bCur' = bQueue'[bStart' - 1] /\ 0 .. bNext' - 1 = {}
      BY <1>0, <2>1, <2>2
    <3>5. \A v \in 0 .. bNext' - 1 : Edge(bCur, v)' => v \in bVisited'
      BY <3>4
    <3> QED
      BY <3>2, <3>3, <3>4, <3>5 DEF BfsQueued
  <2> QED
    BY <2>3, <2>4, <2>5 DEF BfsLayerInv
<1>4. CASE BfsVisit
  <2>h. /\ bPc = "neigh" /\ bPc' = "neigh"
        /\ bVisited' = bVisited \cup {bNext}
        /\ bQueue' = [bQueue EXCEPT ![bEnd] = bNext]
        /\ bEnd' = bEnd + 1 /\ bNext' = bNext + 1
        /\ UNCHANGED <<bStart, bCur>>
        /\ Edge(bCur, bNext) /\ bNext \notin bVisited
    BY <1>4 DEF BfsVisit, BfsFresh
  <2>1. BfsLevelsOK /\ BfsTwoLevels /\ BfsQueued
    BY <2>h DEF BfsLayerInv
  <2>2. /\ bNext \in Vertex /\ bEnd \in Vertex
    BY <1>0, <1>4 DEF BfsVisit, BfsInv, BfsQueueFits
  <2>3. /\ bQueue'[bEnd] = bNext
        /\ \A k \in 0 .. bEnd - 1 : bQueue'[k] = bQueue[k]
        /\ \A k \in 0 .. bEnd' - 1 : k \in 0 .. bEnd - 1 \/ k = bEnd
    BY <1>0, <2>h, <2>2, SMTT(30)
  <2>4. /\ BfsFront' = BfsFront /\ BfsFront = bStart - 1 /\ BfsFront \in 0 .. bEnd - 1
        /\ bCur = bQueue[BfsFront]
    BY <1>0, <2>h, <2>1 DEF BfsFront, BfsQueued
  <2> DEFINE L == LevelIn(Ball, bQueue[BfsFront])
  <2>5. /\ L \in 0 .. bEnd - 1 /\ bCur \in Ball[L]
        /\ \A j \in 0 .. bEnd - 1 : LevelIn(Ball, bQueue[j]) <= L + 1
        /\ \A n \in 0 .. L : Ball[n] \subseteq bVisited
    <3>1. L \in 0 .. BfsFront /\ bCur \in Ball[L]
      BY <2>1, <2>4 DEF BfsLevelsOK, AtLevel
    <3>2. BfsFront < bEnd
      BY <1>0, <2>4
    <3>3. /\ \A j \in 0 .. bEnd - 1 : LevelIn(Ball, bQueue[j]) <= L + 1
          /\ \A n \in 0 .. L : Ball[n] \subseteq bVisited
      BY <2>1, <3>2 DEF BfsTwoLevels
    <3> HIDE DEF L
    <3>4. L \in 0 .. bEnd - 1
      BY <1>0, <2>4, <3>1
    <3> QED
      BY <3>1, <3>3, <3>4
  <2> HIDE DEF L
  <2>6. LevelIn(Ball, bNext) = L + 1 /\ AtLevel(Ball, bNext, L + 1) /\ L + 1 \in 0 .. bEnd
    <3>1. bNext \in Ball[L + 1]
      BY <2>2, <2>5, <2>h, BallIs
    <3>2. \A n \in 0 .. (L + 1) - 1 : bNext \notin Ball[n]
      BY <2>5, <2>h
    <3>3. L + 1 \in Vertex /\ L + 1 \in 0 .. bEnd
      <4>1. L \in 0 .. bEnd - 1
        BY <2>5
      <4>2. V \in Nat /\ bEnd \in 0 .. V - 1 /\ Vertex = 0 .. V - 1
        BY <1>0, <2>2
      <4> QED
        BY ONLY <4>1, <4>2
    <3> QED
      BY <3>1, <3>2, <3>3, LevelIs DEF AtLevel
  <2>7. BfsLevelsOK'
    <3>1. ASSUME NEW k \in 0 .. bEnd' - 1
          PROVE  LevelIn(Ball, bQueue'[k]) \in 0 .. k /\ AtLevel(Ball, bQueue'[k], LevelIn(Ball, bQueue'[k]))
      BY <2>1, <2>3, <2>6 DEF BfsLevelsOK
    <3>2. ASSUME NEW i \in 0 .. bEnd' - 1, NEW j \in 0 .. bEnd' - 1, i < j
          PROVE  LevelIn(Ball, bQueue'[i]) <= LevelIn(Ball, bQueue'[j])
      <4>1. i \in 0 .. bEnd - 1
        BY <1>0, <2>h, <3>2
      <4>2. CASE j = bEnd
        BY <2>3, <2>5, <2>6, <4>1, <4>2
      <4>3. CASE j \in 0 .. bEnd - 1
        BY <2>1, <2>3, <3>2, <4>1, <4>3 DEF BfsLevelsOK
      <4> QED
        BY <2>3, <4>2, <4>3
    <3> QED
      BY <1>b, <3>1, <3>2 DEF BfsLevelsOK
  <2>8. BfsTwoLevels'
    <3>0. bQueue'[BfsFront] = bQueue[BfsFront] /\ LevelIn(Ball, bQueue'[BfsFront']) = L
      BY <2>3, <2>4 DEF L
    <3>1. ASSUME NEW j \in 0 .. bEnd' - 1 PROVE LevelIn(Ball, bQueue'[j]) <= L + 1
      BY <2>3, <2>5, <2>6
    <3>2. \A n \in 0 .. L : Ball[n] \subseteq bVisited'
      BY <2>5, <2>h
    <3> QED
      BY <1>b, <3>0, <3>1, <3>2 DEF BfsTwoLevels
  <2>9. BfsQueued'
    <3>1. ASSUME NEW v \in bVisited' PROVE \E k \in 0 .. bEnd' - 1 : bQueue'[k] = v
      <4>1. CASE v = bNext
        <5>1. bEnd \in 0 .. bEnd' - 1
          BY <1>0, <2>h
        <5> QED
          BY <2>3, <4>1, <5>1
      <4>2. CASE v \in bVisited
        <5>1. PICK k \in 0 .. bEnd - 1 : bQueue[k] = v
          BY <2>1, <4>2 DEF BfsQueued
        <5>2. k \in 0 .. bEnd' - 1 /\ bQueue'[k] = v
          BY <1>0, <2>h, <2>3, <5>1
        <5> QED
          BY <5>2
      <4> QED
        BY <2>h, <4>1, <4>2
    <3>2. ASSUME NEW k \in 0 .. BfsFront' - 1, NEW v \in Vertex, Edge(bQueue'[k], v)
          PROVE  v \in bVisited'
      <4>1. k \in 0 .. bEnd - 1 /\ k \in 0 .. BfsFront - 1
        BY <1>0, <2>4
      <4> QED
        BY <2>1, <2>3, <2>h, <3>2, <4>1 DEF BfsQueued
    <3>3. ASSUME NEW v \in 0 .. bNext' - 1, Edge(bCur, v) PROVE v \in bVisited'
      <4>1. v = bNext \/ v \in 0 .. bNext - 1
        BY <1>0, <2>h
      <4> QED
        BY <2>1, <2>h, <3>3, <4>1 DEF BfsQueued
    <3>4. bStart' >= 1 /\ bCur' = bQueue'[bStart' - 1]
      BY <2>1, <2>3, <2>4, <2>h DEF BfsQueued
    <3> QED
      BY <1>b, <2>h, <3>1, <3>2, <3>3, <3>4 DEF BfsQueued, Edge
  <2> QED
    BY <2>7, <2>8, <2>9 DEF BfsLayerInv
<1>5. CASE BfsSkip
  <2>1. /\ bPc = "neigh" /\ bNext' = bNext + 1 /\ (Edge(bCur, bNext) => bNext \in bVisited)
        /\ UNCHANGED <<bPc, bVisited, bQueue, bStart, bEnd, bCur>> /\ bNext # V
    BY <1>5 DEF BfsSkip, BfsFresh
  <2>2. BfsFront' = BfsFront
    BY <2>1 DEF BfsFront
  <2>3. BfsLevelsOK' /\ BfsTwoLevels'
    BY <1>b, <2>1, <2>2 DEF BfsLevelsOK, BfsTwoLevels, BfsLayerInv
  <2>4. \A v \in 0 .. bNext' - 1 : v = bNext \/ v \in 0 .. bNext - 1
    BY <1>0, <2>1
  <2>5. BfsQueued
    BY <2>1 DEF BfsLayerInv
  <2>6. BfsQueued'
    BY <1>b, <2>1, <2>2, <2>4, <2>5 DEF BfsQueued, Edge
  <2> QED
    BY <2>3, <2>6 DEF BfsLayerInv
<1>6. CASE BfsEndScan
  <2>h. /\ bPc = "neigh" /\ bPc' = "main" /\ bNext = V
        /\ UNCHANGED <<bVisited, bQueue, bStart, bEnd, bCur>>
    BY <1>6 DEF BfsEndScan
  <2>1. BfsLevelsOK /\ BfsTwoLevels /\ BfsQueued
    BY <2>h DEF BfsLayerInv
  <2>2. /\ BfsFront' = bStart /\ BfsFront = bStart - 1 /\ BfsFront \in 0 .. bEnd - 1
        /\ bCur = bQueue[BfsFront] /\ bStart >= 1
    BY <1>0, <2>h, <2>1 DEF BfsFront, BfsQueued
  <2>3. \A k \in 0 .. bStart - 1, v \in Vertex : Edge(bQueue[k], v) => v \in bVisited
    <3> SUFFICES ASSUME NEW k \in 0 .. bStart - 1, NEW v \in Vertex, Edge(bQueue[k], v)
                 PROVE  v \in bVisited
      OBVIOUS
    <3>1. k = BfsFront \/ k \in 0 .. BfsFront - 1
      BY <1>0, <2>2
    <3>2. v \in 0 .. bNext - 1
      BY <1>0, <2>h
    <3> QED
      BY <2>h, <2>1, <2>2, <3>1, <3>2 DEF BfsQueued
  <2>4. BfsQueued'
    BY <1>b, <2>h, <2>1, <2>2, <2>3 DEF BfsQueued, Edge
  <2>5. BfsLevelsOK'
    BY <1>b, <2>h, <2>1 DEF BfsLevelsOK
  <2>6. ASSUME bStart < bEnd
        PROVE  /\ \A j \in 0 .. bEnd - 1 : LevelIn(Ball, bQueue[j]) <= LevelIn(Ball, bQueue[bStart]) + 1
               /\ \A n \in 0 .. LevelIn(Ball, bQueue[bStart]) : Ball[n] \subseteq bVisited
    <3> DEFINE L == LevelIn(Ball, bQueue[BfsFront])
               K == LevelIn(Ball, bQueue[bStart])
    <3>1. bStart \in 0 .. bEnd - 1 /\ BfsFront < bStart /\ BfsFront < bEnd
      BY <1>0, <2>2, <2>6
    <3>2. /\ L \in Nat /\ K \in Nat /\ L <= K
      BY <2>1, <2>2, <3>1 DEF BfsLevelsOK
    <3>3. /\ \A j \in 0 .. bEnd - 1 : LevelIn(Ball, bQueue[j]) <= L + 1
          /\ \A n \in 0 .. L : Ball[n] \subseteq bVisited
      BY <2>1, <3>1 DEF BfsTwoLevels
    <3>4. \A j \in 0 .. bEnd - 1 : LevelIn(Ball, bQueue[j]) \in Nat
      BY <2>1 DEF BfsLevelsOK
    <3>5. \A j \in 0 .. bEnd - 1 : j >= bStart => K <= LevelIn(Ball, bQueue[j])
      <4> SUFFICES ASSUME NEW j \in 0 .. bEnd - 1, j >= bStart
                   PROVE  K <= LevelIn(Ball, bQueue[j])
        OBVIOUS
      <4>1. CASE j = bStart
        BY <3>2, <4>1
      <4>2. CASE j > bStart
        BY <2>1, <3>1, <4>2 DEF BfsLevelsOK
      <4> QED
        BY <1>0, <4>1, <4>2
    <3>6. ASSUME K = L + 1, NEW v \in Ball[L + 1] PROVE v \in bVisited
      <4>1. v \in Vertex
        BY <3>2, BallIs
      <4>2. CASE v \in Ball[L]
        BY <3>2, <3>3, <4>2
      <4>3. ASSUME NEW u \in Ball[L], Edge(u, v) PROVE v \in bVisited
        <5>1. u \in bVisited
          BY <3>2, <3>3
        <5>2. PICK k \in 0 .. bEnd - 1 : bQueue[k] = u
          BY <2>1, <5>1 DEF BfsQueued
        <5>3. ~(L \in 0 .. LevelIn(Ball, bQueue[k]) - 1)
          BY <2>1, <5>2 DEF BfsLevelsOK, AtLevel
        <5>4. LevelIn(Ball, bQueue[k]) <= L
          BY <3>2, <3>4, <5>3
        <5>5. k \in 0 .. bStart - 1
          BY <1>0, <3>2, <3>4, <3>5, <3>6, <5>4
        <5> QED
          BY <2>3, <4>1, <4>3, <5>2, <5>5
      <4> QED
        BY <3>2, <3>6, <4>1, <4>2, <4>3, BallIs
    <3> HIDE DEF L, K
    <3>7. \A j \in 0 .. bEnd - 1 : LevelIn(Ball, bQueue[j]) <= K + 1
      BY <3>2, <3>3, <3>4
    <3>8. K <= L + 1
      BY <3>1, <3>3 DEF K
    <3>9. \A n \in 0 .. K : Ball[n] \subseteq bVisited
      <4> SUFFICES ASSUME NEW n \in 0 .. K PROVE Ball[n] \subseteq bVisited
        OBVIOUS
      <4>1. n \in 0 .. L \/ (K = L + 1 /\ n = L + 1)
        BY <3>2, <3>8
      <4> QED
        BY <3>3, <3>6, <4>1
    <3> QED
      BY <3>7, <3>9 DEF K
  <2>7. BfsTwoLevels'
    BY <1>b, <2>h, <2>2, <2>6 DEF BfsTwoLevels
  <2> QED
    BY <2>4, <2>5, <2>7 DEF BfsLayerInv
<1>7. CASE UNCHANGED <<graph, bVars>>
  <2>1. BfsFront' = BfsFront
    BY <1>7 DEF BfsFront, bVars
  <2>2. BfsLevelsOK' = BfsLevelsOK
    BY <1>b, <1>7 DEF BfsLevelsOK, bVars
  <2>3. BfsTwoLevels' = BfsTwoLevels
    BY <1>b, <1>7, <2>1 DEF BfsTwoLevels, bVars
  <2>4. BfsQueued' = BfsQueued
    BY <1>7, <2>1 DEF BfsQueued, bVars, Edge
  <2> QED
    BY <1>7, <2>2, <2>3, <2>4 DEF BfsLayerInv, bVars
<1> QED
  BY <1>1, <1>2, <1>3, <1>4, <1>5, <1>6, <1>7 DEF BfsNext

(* The queue of bfs.S holds the vertices in the order of their distance    *)
(* from vertex 0 (BfsInLayers), for every graph.                           *)
THEOREM BfsGoesByLayers == BfsSpec => []BfsInLayers
<1>1. BfsInit => BfsLayerInv
  BY DEF BfsInit, BfsLayerInv, BfsLevelsOK
<1>2. BfsLayerInv => BfsInLayers
  BY LevelDef DEF BfsLayerInv, BfsLevelsOK, BfsInLayers
<1> QED
  BY <1>1, <1>2, BfsInvInit, BfsInvStep, BfsLayerStep, PTL DEF BfsSpec

-----------------------------------------------------------------------------
(* dfs *)

DfsScanned(u) == \A v \in Vertex : Edge(u, v) => v \in dVisited

(* As in bfs: a marked vertex has been scanned, waits on the stack, or is  *)
(* being scanned.                                                          *)
DfsFrontier ==
  \A u \in dVisited :
    \/ DfsScanned(u)
    \/ \E k \in 0 .. dTop - 1 : dStack[k] = u
    \/ /\ dPc = "neigh" /\ u = dCur
       /\ \A v \in 0 .. dNext - 1 : Edge(u, v) => v \in dVisited

(* Each marked vertex accounts for at most one entry of the stack or for   *)
(* the vertex being scanned.                                               *)
DfsInv ==
  /\ DfsTypeOK
  /\ dTop <= Cardinality(dVisited)
  /\ dPc \in {"main", "neigh"} => /\ dReps # 0
                                  /\ 0 \in dVisited
                                  /\ DfsFrontier
  /\ dPc = "neigh" => /\ dCur \in dVisited
                      /\ dTop + 1 <= Cardinality(dVisited)
  /\ \A k \in 0 .. dTop - 1 : dStack[k] \in dVisited

(* A set of vertices has at most V elements. *)
LEMMA AtMostV ==
  ASSUME NEW S \in SUBSET Vertex
  PROVE  Cardinality(S) \in Nat /\ Cardinality(S) <= V
BY VertexFinite, FS_Subset, FS_CardinalityType

(* DfsInv holds initially. *)
LEMMA DfsInvInit == DfsInit => DfsInv
<1> SUFFICES ASSUME DfsInit PROVE DfsInv
  OBVIOUS
<1>1. 0 \in Vertex
  BY VertexFinite DEF Vertex
<1> QED
  BY <1>1, VertexFinite, GraphAssumption, FS_EmptySet
  DEF DfsInit, DfsInv, DfsTypeOK

(* Every instruction sequence of dfs.S preserves DfsInv. *)
LEMMA DfsInvStep == DfsInv /\ [DfsNext]_<<graph, dVars>> => DfsInv'
<1> SUFFICES ASSUME DfsInv, [DfsNext]_<<graph, dVars>> PROVE DfsInv'
  OBVIOUS
<1> USE DEF DfsInv
<1>0. /\ 0 \in Vertex /\ V \in Nat /\ V >= 1 /\ Vertex = 0 .. V - 1 /\ MaxReps \in Nat
      /\ Cardinality(dVisited) \in Nat /\ Cardinality(dVisited) <= V
  BY VertexFinite, GraphAssumption, AtMostV DEF Vertex, DfsTypeOK
<1>1. CASE DfsReset
  <2>1. dTop' = 1 /\ dVisited' = {0} /\ dStack'[0] = 0
    BY <1>0, <1>1 DEF DfsReset, DfsTypeOK
  <2>2. Cardinality(dVisited') = 1
    BY <2>1, FS_Singleton
  <2>3. DfsTypeOK'
    BY <1>0, <1>1 DEF DfsReset, DfsTypeOK
  <2>4. DfsFrontier'
    BY <2>1 DEF DfsFrontier
  <2> QED
    BY <1>1, <2>1, <2>2, <2>3, <2>4 DEF DfsReset
<1>2. CASE DfsReturn
  BY <1>2 DEF DfsReturn, DfsTypeOK
<1>3. CASE DfsPop
  <2>1. /\ dTop \in Nat /\ dTop >= 1 /\ dTop' = dTop - 1
        /\ dTop - 1 \in 0 .. 2 * V - 1
    BY <1>0, <1>3 DEF DfsPop, DfsTypeOK
  <2>2. dCur' = dStack[dTop - 1] /\ dCur' \in Vertex /\ dCur' \in dVisited
    BY <1>3, <2>1 DEF DfsPop, DfsTypeOK
  <2>3. DfsTypeOK'
    BY <1>0, <1>3, <2>1, <2>2 DEF DfsPop, DfsTypeOK
  <2>4. DfsFrontier'
    <3> SUFFICES ASSUME NEW u \in dVisited
                 PROVE  \/ DfsScanned(u)
                        \/ \E k \in 0 .. dTop - 2 : dStack[k] = u
                        \/ u = dStack[dTop - 1]
      BY <1>3, <2>1, <2>2 DEF DfsPop, DfsFrontier, DfsScanned, Edge
    <3>1. \A k \in 0 .. dTop - 1 : k = dTop - 1 \/ k \in 0 .. dTop - 2
      BY <2>1
    <3> QED
      BY <1>3, <3>1 DEF DfsPop, DfsFrontier
  <2> QED
    BY <1>0, <1>3, <2>1, <2>2, <2>3, <2>4 DEF DfsPop
<1>4. CASE DfsComplete
  BY <1>0, <1>4 DEF DfsComplete, DfsTypeOK
<1>5. CASE DfsVisit
  <2>h. /\ dVisited' = dVisited \cup {dNext}
        /\ dStack' = [dStack EXCEPT ![dTop] = dCur, ![dTop + 1] = dNext]
        /\ dTop' = dTop + 2 /\ dPc' = "main"
        /\ UNCHANGED <<graph, dReps, dCur, dNext>>
    BY <1>5 DEF DfsVisit
  <2>1. dNext \in Vertex \ dVisited /\ dVisited \in SUBSET Vertex
    BY <1>0, <1>5 DEF DfsVisit, DfsFresh, DfsTypeOK
  <2>2. /\ Cardinality(dVisited') = Cardinality(dVisited) + 1
        /\ Cardinality(dVisited) + 1 <= V
    BY <1>0, <2>h, <2>1, RoomForOneMore
  <2>3. /\ dTop \in Nat /\ dTop + 2 <= V /\ dTop + 2 <= Cardinality(dVisited')
        /\ dTop \in 0 .. 2 * V - 1 /\ dTop + 1 \in 0 .. 2 * V - 1
    BY <1>0, <1>5, <2>2 DEF DfsVisit, DfsTypeOK
  <2>4. DfsTypeOK'
    <3>1. dStack' \in [0 .. 2 * V - 1 -> Vertex]
      BY <2>h, <2>1 DEF DfsTypeOK
    <3>2. dTop' \in 0 .. 2 * V
      BY <1>0, <2>h, <2>3
    <3> QED
      BY <3>1, <3>2, <2>h, <2>1 DEF DfsTypeOK
  <2>5. dStack'[dTop] = dCur /\ dStack'[dTop + 1] = dNext
    BY <2>h, <2>3 DEF DfsTypeOK
  <2>6. ASSUME NEW k \in 0 .. dTop - 1 PROVE dStack'[k] = dStack[k]
    <3>1. k \in 0 .. 2 * V - 1 /\ k # dTop /\ k # dTop + 1
      BY <1>0, <2>3
    <3> QED
      BY <3>1, <2>h DEF DfsTypeOK
  <2>7. \A k \in 0 .. dTop' - 1 : dStack'[k] \in dVisited'
    <3>1. \A k \in 0 .. dTop' - 1 : k = dTop \/ k = dTop + 1 \/ k \in 0 .. dTop - 1
      BY <2>h, <2>3
    <3> QED
      BY <1>5, <3>1, <2>5, <2>6, <2>h DEF DfsVisit
  <2>8. DfsFrontier'
    <3>0. /\ dTop \in 0 .. dTop' - 1 /\ dTop + 1 \in 0 .. dTop' - 1
          /\ 0 .. dTop - 1 \subseteq 0 .. dTop' - 1
      BY <2>h, <2>3
    <3> SUFFICES ASSUME NEW u \in dVisited'
                 PROVE  \/ DfsScanned(u)'
                        \/ \E k \in 0 .. dTop' - 1 : dStack'[k] = u
      BY DEF DfsFrontier
    <3>1. CASE u = dNext
      BY <3>0, <3>1, <2>5
    <3>2. CASE u \in dVisited /\ DfsScanned(u)
      BY <2>h, <3>2 DEF DfsScanned, Edge
    <3>3. CASE \E k \in 0 .. dTop - 1 : dStack[k] = u
      BY <3>0, <3>3, <2>6
    <3>4. CASE u = dCur
      BY <3>0, <3>4, <2>5
    <3> QED
      BY <1>5, <2>h, <3>1, <3>2, <3>3, <3>4 DEF DfsVisit, DfsFrontier
  <2> QED
    BY <1>5, <2>h, <2>3, <2>4, <2>7, <2>8 DEF DfsVisit
<1>6. CASE DfsSkip
  <2>1. dNext \in Vertex
    BY <1>0, <1>6 DEF DfsSkip, DfsTypeOK
  <2>2. DfsTypeOK'
    BY <1>0, <1>6, <2>1 DEF DfsSkip, DfsTypeOK
  <2>3. DfsFrontier'
    <3>1. \A v \in 0 .. dNext' - 1 : v = dNext \/ v \in 0 .. dNext - 1
      BY <1>0, <1>6, <2>1 DEF DfsSkip
    <3>2. Edge(dCur, dNext) => dNext \in dVisited
      BY <1>6 DEF DfsSkip, DfsFresh
    <3>3. DfsFrontier
      BY <1>6 DEF DfsSkip
    <3> QED
      BY <1>6, <3>1, <3>2, <3>3 DEF DfsSkip, DfsFrontier, DfsScanned, Edge
  <2> QED
    BY <1>6, <2>2, <2>3 DEF DfsSkip
<1>7. CASE DfsEndScan
  <2>1. DfsFrontier'
    BY <1>0, <1>7 DEF DfsEndScan, DfsFrontier, DfsScanned, Edge
  <2> QED
    BY <1>7, <2>1 DEF DfsEndScan, DfsTypeOK
<1>8. CASE UNCHANGED <<graph, dVars>>
  BY <1>8 DEF dVars, DfsTypeOK, DfsFrontier, DfsScanned, Edge
<1> QED
  BY <1>1, <1>2, <1>3, <1>4, <1>5, <1>6, <1>7, <1>8 DEF DfsNext

(* The stack of dfs.S never holds more than V entries, half of what is     *)
(* reserved for it (DfsStackFits), for every graph.                        *)
THEOREM DfsStaysInStack == DfsSpec => [](DfsTypeOK /\ DfsStackFits)
<1>1. DfsInv => DfsTypeOK /\ DfsStackFits
  <2> SUFFICES ASSUME DfsInv PROVE DfsStackFits
    BY DEF DfsInv
  <2>1. Cardinality(dVisited) \in Nat /\ Cardinality(dVisited) <= V
    BY AtMostV DEF DfsInv, DfsTypeOK
  <2>2. dTop <= V
    BY <2>1, VertexFinite DEF DfsInv, DfsTypeOK
  <2>3. ASSUME dPc = "neigh", dNext # V, DfsFresh(dNext) PROVE dTop + 2 <= V
    <3>1. dNext \in Vertex \ dVisited /\ dVisited \in SUBSET Vertex
      BY <2>3, VertexFinite DEF DfsInv, DfsTypeOK, DfsFresh, Vertex
    <3>2. Cardinality(dVisited) < V
      BY <3>1, RoomForOneMore
    <3> QED
      BY <2>1, <2>3, <3>2, VertexFinite DEF DfsInv, DfsTypeOK
  <2> QED
    BY <2>2, <2>3 DEF DfsStackFits
<1> QED
  BY <1>1, DfsInvInit, DfsInvStep, PTL DEF DfsSpec

(* What DfsStackIsPath says while a vertex is scanned, and what is left of *)
(* it between a scan and the next pop: the entries alone are a path.       *)
DfsPathInv ==
  /\ dPc \in {"main", "neigh"} =>
       /\ dTop > 0 => dStack[0] = 0
       /\ \A k \in 0 .. dTop - 2 : Edge(dStack[k], dStack[k + 1])
       /\ \A j, k \in 0 .. dTop - 1 : dStack[j] = dStack[k] => j = k
  /\ dPc = "neigh" =>
       /\ dTop = 0 => dCur = 0
       /\ dTop > 0 => Edge(dStack[dTop - 1], dCur)
       /\ \A k \in 0 .. dTop - 1 : dStack[k] # dCur

(* Every instruction sequence of dfs.S leaves a path: what is pushed is a  *)
(* neighbour of the vertex pushed back below it, and has not been marked.  *)
LEMMA DfsPathStep ==
  DfsInv /\ DfsPathInv /\ [DfsNext]_<<graph, dVars>> => DfsPathInv'
<1> SUFFICES ASSUME DfsInv, DfsPathInv, [DfsNext]_<<graph, dVars>>
             PROVE  DfsPathInv'
  OBVIOUS
<1>0. /\ V \in Nat /\ V >= 1 /\ dTop \in Nat /\ dTop <= 2 * V
      /\ dStack \in [0 .. 2 * V - 1 -> Vertex]
  BY VertexFinite DEF DfsInv, DfsTypeOK
<1>1. CASE DfsReset
  BY <1>0, <1>1 DEF DfsReset, DfsPathInv
<1>2. CASE DfsReturn \/ DfsComplete
  BY <1>2 DEF DfsReturn, DfsComplete, DfsPathInv
<1>3. CASE DfsPop
  BY <1>0, <1>3 DEF DfsPop, DfsPathInv, Edge
<1>4. CASE DfsVisit
  <2>1. /\ dTop' = dTop + 2 /\ dPc' = "main" /\ graph' = graph /\ dPc = "neigh"
        /\ dStack' = [dStack EXCEPT ![dTop] = dCur, ![dTop + 1] = dNext]
        /\ Edge(dCur, dNext) /\ dNext \notin dVisited
    BY <1>4 DEF DfsVisit, DfsFresh
  <2>2. dCur \in dVisited /\ \A k \in 0 .. dTop - 1 : dStack[k] \in dVisited
    BY <2>1 DEF DfsInv
  <2>3. dTop + 2 <= 2 * V
    <3>1. dVisited \in SUBSET Vertex /\ dTop + 1 <= Cardinality(dVisited)
      BY <2>1 DEF DfsInv, DfsTypeOK
    <3>2. dNext \in Vertex
      BY <1>0, <1>4 DEF DfsVisit, DfsInv, DfsTypeOK, Vertex
    <3>3. Cardinality(dVisited) \in Nat /\ Cardinality(dVisited) < V
      BY <2>1, <3>1, <3>2, RoomForOneMore
    <3> QED
      BY <1>0, <3>1, <3>3
  <2>4. /\ dStack'[dTop] = dCur /\ dStack'[dTop + 1] = dNext
        /\ \A k \in 0 .. dTop - 1 : dStack'[k] = dStack[k]
    BY <1>0, <2>1, <2>3
  <2>5. \A k \in 0 .. dTop' - 1 : k \in 0 .. dTop - 1 \/ k = dTop \/ k = dTop + 1
    BY <1>0, <2>1
  <2>6. dStack'[0] = 0
    BY <1>0, <2>1, <2>4 DEF DfsPathInv
  <2>7. ASSUME NEW k \in 0 .. dTop' - 2
        PROVE  <<dStack'[k], dStack'[k + 1]>> \in graph'
    <3>1. CASE k \in 0 .. dTop - 2
      BY <1>0, <2>1, <2>4, <3>1 DEF DfsPathInv, Edge
    <3>2. CASE k = dTop
      BY <1>0, <2>1, <2>4, <3>2 DEF Edge
    <3>3. CASE k = dTop - 1 /\ dTop > 0
      <4>1. k + 1 = dTop /\ k \in 0 .. dTop - 1
        BY <1>0, <3>3
      <4>2. dStack'[k] = dStack[dTop - 1] /\ dStack'[k + 1] = dCur
        BY <2>4, <3>3, <4>1
      <4>3. Edge(dStack[dTop - 1], dCur)
        BY <2>1, <3>3 DEF DfsPathInv
      <4> QED
        BY <2>1, <4>2, <4>3 DEF Edge
    <3>4. k \in 0 .. dTop - 2 \/ k = dTop \/ (k = dTop - 1 /\ dTop > 0)
      BY <1>0, <2>1, <2>7
    <3> QED
      BY <3>1, <3>2, <3>3, <3>4
  <2>8. ASSUME NEW j \in 0 .. dTop' - 1, NEW k \in 0 .. dTop' - 1,
               dStack'[j] = dStack'[k]
        PROVE  j = k
    BY <2>1, <2>2, <2>4, <2>5, <2>8 DEF DfsPathInv
  <2> QED
    BY <2>1, <2>6, <2>7, <2>8 DEF DfsPathInv, Edge
<1>5. CASE DfsSkip \/ DfsEndScan
  BY <1>5 DEF DfsSkip, DfsEndScan, DfsPathInv, Edge
<1>6. CASE UNCHANGED <<graph, dVars>>
  BY <1>6 DEF dVars, DfsPathInv, Edge
<1> QED
  BY <1>1, <1>2, <1>3, <1>4, <1>5, <1>6 DEF DfsNext

(* While a vertex is scanned, the stack and that vertex are a path from    *)
(* vertex 0 on which no vertex occurs twice, for every graph.              *)
THEOREM DfsWalksAPath == DfsSpec => []DfsStackIsPath
<1>1. DfsInit => DfsPathInv
  BY DEF DfsInit, DfsPathInv
<1>2. DfsInv /\ DfsPathInv => DfsStackIsPath
  <2> SUFFICES ASSUME DfsInv, DfsPathInv, dPc = "neigh"
               PROVE  /\ DfsPath[0] = 0
                      /\ \A k \in 0 .. dTop - 1 : Edge(DfsPath[k], DfsPath[k + 1])
                      /\ \A j, k \in 0 .. dTop : DfsPath[j] = DfsPath[k] => j = k
    BY DEF DfsStackIsPath
  <2>1. dTop \in Nat
    BY DEF DfsInv, DfsTypeOK
  <2>2. /\ DfsPath[dTop] = dCur
        /\ \A k \in 0 .. dTop - 1 : DfsPath[k] = dStack[k]
    BY <2>1 DEF DfsPath
  <2>3. DfsPath[0] = 0
    BY <2>1, <2>2 DEF DfsPathInv
  <2>4. ASSUME NEW k \in 0 .. dTop - 1
        PROVE  Edge(DfsPath[k], DfsPath[k + 1])
    BY <2>1, <2>2 DEF DfsPathInv
  <2>5. ASSUME NEW j \in 0 .. dTop, NEW k \in 0 .. dTop, DfsPath[j] = DfsPath[k]
        PROVE  j = k
    <3>1. \A l \in 0 .. dTop : l = dTop \/ l \in 0 .. dTop - 1
      BY <2>1
    <3> QED
      BY <2>2, <2>5, <3>1 DEF DfsPathInv
  <2> QED
    BY <2>3, <2>4, <2>5
<1> QED
  BY <1>1, <1>2, DfsInvInit, DfsInvStep, DfsPathStep, PTL DEF DfsSpec

(* A repetition of dfs.S ends only with every successor of a marked vertex *)
(* marked: the stack loop implements the search without a stack.           *)
THEOREM DfsIsSearch == DfsSpec => DfsImplementsSearch
<1> USE DEF DfsSearch!Edge, DfsSearch!Vertex, Vertex, Edge
<1>1. DfsInit => DfsSearch!Init
  BY DEF DfsInit, DfsSearch!Init
<1>2. ASSUME DfsInv, [DfsNext]_<<graph, dVars>>
      PROVE  [DfsSearch!Next]_DfsSearch!vars
  <2> USE <1>2 DEF DfsSearch!vars
  <2>1. CASE DfsReset
    <3>1. DfsSearch!Begin
      BY <2>1 DEF DfsReset, DfsSearch!Begin
    <3> QED
      BY <3>1 DEF DfsSearch!Next
  <2>2. CASE DfsComplete
    <3>1. 0 .. dTop - 1 = {}
      BY <2>2 DEF DfsComplete, DfsInv, DfsTypeOK
    <3>2. DfsSearch!Closed(dVisited)
      BY <2>2, <3>1 DEF DfsComplete, DfsInv, DfsFrontier, DfsScanned, DfsSearch!Closed
    <3>3. DfsSearch!Finish
      BY <2>2, <3>2 DEF DfsComplete, DfsSearch!Finish
    <3> QED
      BY <3>3 DEF DfsSearch!Next
  <2>3. CASE DfsVisit
    <3>1. dCur \in dVisited /\ dNext \in Vertex \ dVisited
      BY <2>3, VertexFinite DEF DfsVisit, DfsFresh, DfsInv, DfsTypeOK
    <3>2. DfsSearch!Grow
      BY <2>3, <3>1 DEF DfsVisit, DfsFresh, DfsSearch!Grow
    <3> QED
      BY <3>2 DEF DfsSearch!Next
  <2>4. CASE DfsReturn \/ DfsPop \/ DfsSkip \/ DfsEndScan \/ UNCHANGED <<graph, dVars>>
    <3>1. UNCHANGED <<graph, dVisited, dPc \in {"main", "neigh"}>>
      BY <2>4 DEF DfsReturn, DfsPop, DfsSkip, DfsEndScan, dVars
    <3> QED
      BY <3>1
  <2> QED
    BY <2>1, <2>2, <2>3, <2>4 DEF DfsNext
<1> QED
  BY <1>1, <1>2, DfsInvInit, DfsInvStep, PTL DEF DfsSpec, DfsImplementsSearch, DfsSearch!Spec

(* Together with SearchFindsAll: whenever neither search is inside a       *)
(* repetition, .visited holds what the last repetition should have left.   *)
THEOREM SearchesFindAll ==
  /\ BfsSpec => []BfsSearch!FoundAll
  /\ DfsSpec => []DfsSearch!FoundAll
<1>1. BfsSearch!GraphAssumption
  BY GraphAssumption DEF BfsSearch!GraphAssumption, BfsSearch!Vertex, Vertex
<1>2. DfsSearch!GraphAssumption
  BY GraphAssumption DEF DfsSearch!GraphAssumption, DfsSearch!Vertex, Vertex
<1>3. BfsSearch!Spec => []BfsSearch!FoundAll
  BY <1>1, BfsSearch!SearchFindsAll
<1>4. DfsSearch!Spec => []DfsSearch!FoundAll
  BY <1>2, DfsSearch!SearchFindsAll
<1> QED
  BY <1>3, <1>4, BfsIsSearch, DfsIsSearch DEF BfsImplementsSearch, DfsImplementsSearch

-----------------------------------------------------------------------------
(* dijkstra                                                                *)

(* The least of a set of numbers, as Best chooses it.                      *)
Least(L) == CHOOSE x \in L : \A y \in L : x <= y

(* The vertices with an edge to v and a path of their own.                 *)
Feeds(B, v) == {x \in Vertex : jWeight[<<x, v>>] # 0 /\ B[x] < Inf}

Lengths(B, v) == {B[v]} \cup {B[u] + jWeight[<<u, v>>] : u \in Feeds(B, v)}

(* What Best[n] can be.                                                  *)
Distances == [Vertex -> 0 .. Inf]

(* A set of numbers has a least element.                                   *)
LEMMA LeastIs ==
  ASSUME NEW L \in SUBSET Nat, L # {}
  PROVE  Least(L) \in L /\ \A y \in L : Least(L) <= y
  BY LeastNat DEF Least

(* The weights are numbers.                                                *)
LEMMA WeightIs ==
  ASSUME jWeight \in Weights
  PROVE  \A u, v \in Vertex : jWeight[<<u, v>>] \in Nat
<1>1. jWeight \in [Vertex \X Vertex -> Nat]
  BY DijkstraAssumption
<1> QED
  BY <1>1

(* The lengths to choose from are numbers, the length so far is among them.*)
LEMMA LengthsAre ==
  ASSUME jWeight \in Weights, NEW B \in Distances, NEW v \in Vertex
  PROVE  /\ B[v] \in Lengths(B, v)
         /\ Least(Lengths(B, v)) \in Lengths(B, v)
         /\ \A l \in Lengths(B, v) : Least(Lengths(B, v)) <= l
         /\ Least(Lengths(B, v)) \in 0 .. Inf
<1>1. Inf \in Nat /\ \A u \in Vertex : B[u] \in 0 .. Inf
  BY DijkstraAssumption DEF Distances
<1>2. \A u \in Vertex : B[u] + jWeight[<<u, v>>] \in Nat
  <2> SUFFICES ASSUME NEW u \in Vertex PROVE B[u] + jWeight[<<u, v>>] \in Nat
    OBVIOUS
  <2>1. B[u] \in Nat
    BY <1>1
  <2>2. jWeight[<<u, v>>] \in Nat
    BY WeightIs
  <2> QED
    BY <2>1, <2>2
<1>3. Lengths(B, v) \in SUBSET Nat
  <2>1. B[v] \in Nat
    BY <1>1
  <2>2. Feeds(B, v) \subseteq Vertex
    BY DEF Feeds
  <2> QED
    BY <1>2, <2>1, <2>2 DEF Lengths
<1>4. B[v] \in Lengths(B, v)
  BY DEF Lengths
<1>5. /\ Least(Lengths(B, v)) \in Lengths(B, v)
      /\ \A l \in Lengths(B, v) : Least(Lengths(B, v)) <= l
  BY <1>3, <1>4, LeastIs
<1>6. Least(Lengths(B, v)) \in Nat /\ Least(Lengths(B, v)) <= B[v]
  BY <1>3, <1>4, <1>5
<1>7. Least(Lengths(B, v)) \in 0 .. Inf
  BY <1>1, <1>6
<1> QED
  BY <1>4, <1>5, <1>7

(* Best is well defined: it iterates the step of Bellman and Ford.         *)
LEMMA BestIs ==
  ASSUME jWeight \in Weights
  PROVE  /\ \A n \in Nat : Best[n] \in Distances
         /\ \A v \in Vertex : Best[0][v] = IF v = 0 THEN 0 ELSE Inf
         /\ \A n \in Nat, v \in Vertex : Best[n + 1][v] = Least(Lengths(Best[n], v))
<1> DEFINE B0 == [v \in Vertex |-> IF v = 0 THEN 0 ELSE Inf]
           F(B) == [v \in Vertex |-> Least(Lengths(B, v))]
           G  == [B \in Distances |-> F(B)]
<1>1. B0 \in Distances
  BY DijkstraAssumption DEF Distances
<1>2. G \in [Distances -> Distances]
  <2> SUFFICES ASSUME NEW B \in Distances PROVE F(B) \in Distances
    OBVIOUS
  <2> QED
    BY LengthsAre DEF Distances
<1>g. \A B \in Distances : G[B] = F(B)
  OBVIOUS
<1> HIDE DEF G
<1>3. PICK f \in [Nat -> Distances] : f = [n \in Nat |-> IF n = 0 THEN B0 ELSE G[f[n - 1]]]
  BY <1>1, <1>2, Iteration, SMTT(30)
<1>4. \A n \in Nat : n # 0 => G[f[n - 1]] = F(f[n - 1])
  <2> SUFFICES ASSUME NEW n \in Nat, n # 0 PROVE G[f[n - 1]] = F(f[n - 1])
    OBVIOUS
  <2>1. n - 1 \in Nat
    OBVIOUS
  <2>2. f[n - 1] \in Distances
    BY <2>1
  <2> QED
    BY <1>g, <2>2
<1> HIDE DEF F, B0
<1>5. f = [n \in Nat |-> IF n = 0 THEN B0 ELSE F(f[n - 1])]
  BY <1>3, <1>4
<1>6. f = [n \in Nat |->
             IF n = 0 THEN [v \in Vertex |-> IF v = 0 THEN 0 ELSE Inf]
             ELSE [v \in Vertex |->
               LET L == {f[n - 1][v]} \cup
                        {f[n - 1][u] + jWeight[<<u, v>>] :
                           u \in {x \in Vertex : jWeight[<<x, v>>] # 0 /\ f[n - 1][x] < Inf}}
               IN  CHOOSE x \in L : \A y \in L : x <= y]]
  BY <1>5, Zenon DEF B0, F, Least, Lengths, Feeds
<1>7. Best = [n \in Nat |->
             IF n = 0 THEN [v \in Vertex |-> IF v = 0 THEN 0 ELSE Inf]
             ELSE [v \in Vertex |->
               LET L == {Best[n - 1][v]} \cup
                        {Best[n - 1][u] + jWeight[<<u, v>>] :
                           u \in {x \in Vertex : jWeight[<<x, v>>] # 0 /\ Best[n - 1][x] < Inf}}
               IN  CHOOSE x \in L : \A y \in L : x <= y]]
  BY <1>6, Zenon DEF Best
<1>8. Best = [n \in Nat |-> IF n = 0 THEN B0 ELSE F(Best[n - 1])]
  BY <1>7, Zenon DEF B0, F, Least, Lengths, Feeds
<1>9. Best[0] = B0 /\ \A n \in Nat : Best[n + 1] = F(Best[n])
  <2>1. ASSUME NEW n \in Nat PROVE Best[n + 1] = F(Best[n])
    <3>1. n + 1 \in Nat /\ n + 1 # 0 /\ (n + 1) - 1 = n
      OBVIOUS
    <3>2. Best[n + 1] = IF n + 1 = 0 THEN B0 ELSE F(Best[(n + 1) - 1])
      BY <1>8, <3>1, Zenon
    <3> QED
      BY <3>1, <3>2, Zenon
  <2>2. 0 \in Nat
    OBVIOUS
  <2>3. Best[0] = IF 0 = 0 THEN B0 ELSE F(Best[0 - 1])
    BY <1>8, <2>2, Zenon
  <2> QED
    BY <2>1, <2>3
<1>10. \A n \in Nat : Best[n] \in Distances
  <2> DEFINE T == {n \in Nat : Best[n] \in Distances}
  <2>1. 0 \in T
    BY <1>1, <1>9
  <2>2. ASSUME NEW n \in Nat, n \in T PROVE n + 1 \in T
    <3>1. G[Best[n]] \in Distances
      BY <1>2, <2>2
    <3> QED
      BY <1>9, <1>g, <2>2, <3>1
  <2> HIDE DEF T
  <2>3. Nat \subseteq T
    BY <2>1, <2>2, Induction
  <2> QED
    BY <2>3 DEF T
<1>11. \A v \in Vertex : Best[0][v] = IF v = 0 THEN 0 ELSE Inf
  BY <1>9 DEF B0
<1>12. \A n \in Nat, v \in Vertex : Best[n + 1][v] = Least(Lengths(Best[n], v))
  BY <1>9 DEF F
<1> QED
  BY <1>10, <1>11, <1>12

(* One more edge never makes a path longer than it was.                    *)
LEMMA BestStep ==
  ASSUME jWeight \in Weights, NEW n \in Nat, NEW v \in Vertex
  PROVE  /\ Best[n][v] \in 0 .. Inf
         /\ Best[n + 1][v] \in 0 .. Inf
         /\ Best[n + 1][v] <= Best[n][v]
         /\ \A u \in Feeds(Best[n], v) : Best[n + 1][v] <= Best[n][u] + jWeight[<<u, v>>]
         /\ \/ Best[n + 1][v] = Best[n][v]
            \/ \E u \in Feeds(Best[n], v) : Best[n + 1][v] = Best[n][u] + jWeight[<<u, v>>]
<1> DEFINE L == Lengths(Best[n], v)
<1>1. Best[n] \in Distances /\ Best[n + 1] \in Distances
  BY BestIs
<1>2. Best[n + 1][v] = Least(L)
  BY BestIs
<1>3. Best[n][v] \in L /\ Least(L) \in L /\ \A l \in L : Least(L) <= l
  BY <1>1, LengthsAre
<1>4. \A l : l \in L <=> l = Best[n][v] \/ \E u \in Feeds(Best[n], v) : l = Best[n][u] + jWeight[<<u, v>>]
  BY DEF Lengths
<1>5. Best[n][v] \in 0 .. Inf /\ Best[n + 1][v] \in 0 .. Inf
  BY <1>1 DEF Distances
<1> HIDE DEF L
<1> QED
  BY <1>2, <1>3, <1>4, <1>5

(* Nor do more edges.                                                      *)
LEMMA BestFalls ==
  ASSUME jWeight \in Weights, NEW n \in Nat, NEW m \in Nat, n <= m, NEW v \in Vertex
  PROVE  Best[m][v] <= Best[n][v]
<1> DEFINE T == {k \in Nat : Best[n + k][v] <= Best[n][v]}
<1>1. 0 \in T
  <2>1. n + 0 = n
    OBVIOUS
  <2> QED
    BY <2>1, BestStep, DijkstraAssumption
<1>2. ASSUME NEW k \in Nat, k \in T PROVE k + 1 \in T
  <2>1. n + k \in Nat /\ n + (k + 1) = (n + k) + 1
    OBVIOUS
  <2>2. /\ Best[n + k][v] \in 0 .. Inf /\ Best[(n + k) + 1][v] \in 0 .. Inf
        /\ Best[n][v] \in 0 .. Inf
        /\ Best[(n + k) + 1][v] <= Best[n + k][v]
    BY <2>1, BestStep
  <2>3. Best[n + k][v] <= Best[n][v]
    BY <1>2
  <2>4. Best[n + (k + 1)][v] <= Best[n][v]
    BY <2>1, <2>2, <2>3, DijkstraAssumption
  <2> QED
    BY <2>4
<1>3. Nat \subseteq T
  <2> HIDE DEF T
  <2> QED
    BY <1>1, <1>2, Induction
<1>4. m - n \in Nat /\ n + (m - n) = m
  OBVIOUS
<1> QED
  BY <1>3, <1>4

(* The least lengths depend on the weights alone.                          *)
LEMMA BestIsKept ==
  ASSUME jWeight' = jWeight
  PROVE  Best' = Best
  BY DEF Best
(* The types of dijkstra.S's variables; a repetition is counted at its end.*)
DjTypeOK ==
  /\ jWeight \in Weights
  /\ jPc \in {"loop", "find", "update", "done"}
  /\ jReps \in 0 .. MaxReps
  /\ jPc \in {"find", "update"} => jReps # 0
  /\ jDist \in Distances
  /\ jVis \in SUBSET Vertex
  /\ jRound \in 0 .. V
  /\ jCur \in Vertex

(* One vertex is settled in a round.                                       *)
DjRounds ==
  /\ jPc = "find" => Cardinality(jVis) = jRound
  /\ jPc = "update" => Cardinality(jVis) = jRound + 1 /\ jCur \in jVis

(* The settled vertices whose edges have been relaxed.                     *)
DjRelaxed == IF jPc = "update" THEN jVis \ {jCur} ELSE jVis

(* Every distance is the length of a path, of as many edges as rounds.     *)
DjLengths ==
  /\ jPc \in {"find", "update"} => jDist[0] = 0
  /\ jPc \in {"find", "update"} => \A v \in Vertex : Best[jRound][v] <= jDist[v]
  /\ \A v \in jVis : Best[V - 1][v] <= jDist[v]

(* No path to a settled vertex is shorter, whatever its number of edges.   *)
DjShortest == \A v \in jVis, n \in Nat : jDist[v] <= Best[n][v]

(* Settled vertices are nearer than the others, the last one is farthest.  *)
DjNearer ==
  /\ \A v \in jVis, u \in Vertex \ jVis : jDist[v] <= jDist[u]
  /\ jPc = "update" => \A v \in jVis : jDist[v] <= jDist[jCur]

(* No relaxed edge into an unsettled vertex would shorten its distance.    *)
DjEdges ==
  jPc \in {"find", "update"} =>
    \A v \in DjRelaxed, u \in Vertex \ jVis :
      jWeight[<<v, u>>] # 0 => jDist[u] <= jDist[v] + jWeight[<<v, u>>]

(* What a repetition leaves behind.                                        *)
DjFinished ==
  jPc \in {"loop", "done"} /\ jVis # {} => \A v \in Vertex : jDist[v] = Best[V - 1][v]

(* The invariant DjSettled rests on.                                       *)
DjInv == /\ DjTypeOK /\ DjRounds /\ DjLengths /\ DjShortest /\ DjNearer
         /\ DjEdges /\ DjFinished

(* What the types say of the numbers that are compared.                    *)
LEMMA DjPlain ==
  ASSUME DjTypeOK
  PROVE  /\ Inf \in Nat /\ 0 \in Vertex
         /\ \A v \in Vertex : jDist[v] \in 0 .. Inf
         /\ \A u, v \in Vertex : jWeight[<<u, v>>] \in Nat
         /\ \A v \in Vertex, n \in Nat : Best[n][v] \in 0 .. Inf
<1>1. \A v \in Vertex : jDist[v] \in 0 .. Inf
  BY DEF DjTypeOK, Distances
<1>2. \A v \in Vertex, n \in Nat : Best[n][v] \in 0 .. Inf
  BY BestStep DEF DjTypeOK
<1>3. 0 \in Vertex
  BY GraphAssumption DEF Vertex
<1> QED
  BY <1>1, <1>2, <1>3, WeightIs, DijkstraAssumption DEF DjTypeOK

(* Once the edges of the settled vertices are relaxed, no path to an        *)
(* unsettled vertex is shorter than the least distance left.               *)
LEMMA DjLowerBound ==
  ASSUME DjInv, jPc = "find", NEW d \in 0 .. Inf,
         \A u \in Vertex \ jVis : d <= jDist[u]
  PROVE  \A n \in Nat, u \in Vertex \ jVis : d <= Best[n][u]
<1> DEFINE T == {n \in Nat : \A u \in Vertex \ jVis : d <= Best[n][u]}
<1> USE DEF DjInv
<1>p. /\ Inf \in Nat /\ 0 \in Vertex
      /\ \A v \in Vertex : jDist[v] \in 0 .. Inf
      /\ \A u, v \in Vertex : jWeight[<<u, v>>] \in Nat
      /\ \A v \in Vertex, n \in Nat : Best[n][v] \in 0 .. Inf
  BY DjPlain
<1>t. jWeight \in Weights /\ jVis \in SUBSET Vertex
  BY DEF DjTypeOK
<1>1. 0 \in T
  <2> SUFFICES ASSUME NEW u \in Vertex \ jVis PROVE d <= Best[0][u]
    OBVIOUS
  <2>1. Best[0][u] = IF u = 0 THEN 0 ELSE Inf
    BY <1>t, BestIs
  <2>2. u = 0 => d <= 0
    BY <1>p DEF DjLengths
  <2> QED
    BY <1>p, <2>1, <2>2
<1>2. ASSUME NEW n \in Nat, n \in T PROVE n + 1 \in T
  <2> SUFFICES ASSUME NEW u \in Vertex \ jVis PROVE d <= Best[n + 1][u]
    OBVIOUS
  <2>1. CASE Best[n + 1][u] = Best[n][u]
    BY <1>2, <2>1
  <2>2. ASSUME NEW x \in Feeds(Best[n], u), Best[n + 1][u] = Best[n][x] + jWeight[<<x, u>>]
        PROVE  d <= Best[n + 1][u]
    <3>1. x \in Vertex /\ jWeight[<<x, u>>] # 0
      BY DEF Feeds
    <3>2. CASE x \in jVis
      <4>1. jDist[u] <= jDist[x] + jWeight[<<x, u>>]
        BY <3>1, <3>2 DEF DjEdges, DjRelaxed
      <4>2. jDist[x] <= Best[n][x]
        BY <3>2 DEF DjShortest
      <4>3. d <= jDist[u] /\ jDist[u] \in Nat /\ jDist[x] \in Nat /\ Best[n][x] \in Nat
            /\ jWeight[<<x, u>>] \in Nat
        BY <1>p, <3>1
      <4> QED
        BY <2>2, <4>1, <4>2, <4>3
    <3>3. CASE x \notin jVis
      <4>1. d <= Best[n][x] /\ Best[n][x] \in Nat /\ jWeight[<<x, u>>] \in Nat
        BY <1>2, <1>p, <3>1, <3>3
      <4> QED
        BY <2>2, <4>1
    <3> QED
      BY <3>2, <3>3
  <2> QED
    BY <1>t, <2>1, <2>2, BestStep
<1>3. Nat \subseteq T
  <2> HIDE DEF T
  <2> QED
    BY <1>1, <1>2, Induction
<1> QED
  BY <1>3

(* DjInv holds initially.                                                  *)
LEMMA DjInitInv == DjInit => DjInv
<1> SUFFICES ASSUME DjInit PROVE DjInv
  OBVIOUS
<1>1. DjTypeOK
  BY DijkstraAssumption, VertexFinite DEF DjInit, DjTypeOK, Distances, Vertex
<1> QED
  BY <1>1 DEF DjInit, DjInv, DjRounds, DjLengths, DjShortest, DjNearer, DjEdges,
     DjFinished, DjRelaxed

(* After .L_dj_init no vertex is settled.                                  *)
LEMMA DjResetStep ==
  ASSUME DjInv, DjReset
  PROVE  DjInv'
<1>p. jWeight \in Weights /\ Inf \in Nat /\ 0 \in Vertex /\ jCur \in Vertex
  BY DjPlain DEF DjInv, DjTypeOK
<1>b. Best' = Best
  BY BestIsKept DEF DjReset
<1>1. DjTypeOK'
  BY <1>p, VertexFinite DEF DjInv, DjTypeOK, DjReset, Distances
<1>2. DjRounds'
  BY FS_EmptySet DEF DjReset, DjRounds
<1>3. DjLengths'
  <2>1. \A v \in Vertex : Best[0][v] <= jDist'[v]
    <3> SUFFICES ASSUME NEW v \in Vertex PROVE Best[0][v] <= jDist'[v]
      OBVIOUS
    <3>1. Best[0][v] = IF v = 0 THEN 0 ELSE Inf
      BY <1>p, BestIs
    <3>2. jDist'[v] = IF v = 0 THEN 0 ELSE Inf
      BY DEF DjReset
    <3> QED
      BY <1>p, <3>1, <3>2
  <2> QED
    BY <1>b, <1>p, <2>1 DEF DjReset, DjLengths
<1>4. DjShortest' /\ DjNearer' /\ DjEdges' /\ DjFinished'
  BY DEF DjReset, DjShortest, DjNearer, DjEdges, DjFinished, DjRelaxed
<1> QED
  BY <1>1, <1>2, <1>3, <1>4 DEF DjInv

(* The nearest vertex is settled: no path to it can be shorter.            *)
LEMMA DjSelectStep ==
  ASSUME DjInv, DjSelect
  PROVE  DjInv'
<1> USE DEF DjInv
<1>p. /\ Inf \in Nat /\ 0 \in Vertex
      /\ \A v \in Vertex : jDist[v] \in 0 .. Inf
      /\ \A u, v \in Vertex : jWeight[<<u, v>>] \in Nat
      /\ \A v \in Vertex, n \in Nat : Best[n][v] \in 0 .. Inf
  BY DjPlain
<1>b. Best' = Best
  BY BestIsKept DEF DjSelect
<1>0. /\ jPc = "find" /\ jRound \in 0 .. V - 1 /\ jPc' = "update"
      /\ UNCHANGED <<jWeight, jReps, jDist, jRound>>
  BY VertexFinite DEF DjSelect, DjTypeOK
<1>1. PICK c \in Vertex : Nearest(c) /\ jCur' = c /\ jVis' = jVis \cup {c}
  BY DEF DjSelect
<1>2. /\ c \notin jVis /\ jDist[c] < Inf
      /\ \A u \in Vertex \ jVis : jDist[c] <= jDist[u]
  BY <1>1, <1>p DEF Nearest, Candidates
<1>t. jVis \in SUBSET Vertex /\ jWeight \in Weights
  BY DEF DjTypeOK
<1>3. DjTypeOK'
  BY <1>0, <1>1 DEF DjTypeOK
<1>4. DjRounds'
  <2>1. Cardinality(jVis \cup {c}) = Cardinality(jVis) + 1
    BY <1>2, <1>t, RoomForOneMore
  <2> QED
    BY <1>0, <1>1, <2>1 DEF DjRounds
<1>5. DjLengths'
  <2>1. Best[jRound][c] <= jDist[c]
    BY <1>0 DEF DjLengths
  <2>2. Best[V - 1][c] <= Best[jRound][c]
    BY <1>0, <1>t, VertexFinite, BestFalls
  <2>3. Best[V - 1][c] <= jDist[c]
    <3>1. jRound \in Nat /\ V - 1 \in Nat
      BY <1>0, VertexFinite
    <3> QED
      BY <1>p, <2>1, <2>2, <3>1
  <2> QED
    BY <1>0, <1>1, <1>b, <2>3 DEF DjLengths
<1>6. DjShortest'
  <2>1. \A n \in Nat : jDist[c] <= Best[n][c]
    BY <1>0, <1>2, <1>p, DjLowerBound
  <2> QED
    BY <1>0, <1>1, <1>b, <2>1 DEF DjShortest
<1>7. DjNearer'
  BY <1>0, <1>1, <1>2, <1>p, <1>t DEF DjNearer
<1>8. DjEdges'
  <2>1. DjRelaxed' = jVis /\ DjRelaxed = jVis
    BY <1>0, <1>1, <1>2 DEF DjRelaxed
  <2> QED
    BY <1>0, <1>1, <2>1 DEF DjEdges
<1>9. DjFinished'
  BY <1>0 DEF DjFinished
<1> QED
  BY <1>3, <1>4, <1>5, <1>6, <1>7, <1>8, <1>9

(* Relaxing the edges of the vertex settled last gives lengths of paths of *)
(* one more edge.                                                          *)
LEMMA DjRelaxStep ==
  ASSUME DjInv, DjRelax
  PROVE  DjInv'
<1> USE DEF DjInv
<1>p. /\ Inf \in Nat /\ 0 \in Vertex
      /\ \A v \in Vertex : jDist[v] \in 0 .. Inf
      /\ \A u, v \in Vertex : jWeight[<<u, v>>] \in Nat
      /\ \A v \in Vertex, n \in Nat : Best[n][v] \in 0 .. Inf
  BY DjPlain
<1>b. Best' = Best
  BY BestIsKept DEF DjRelax
<1>t. jVis \in SUBSET Vertex /\ jWeight \in Weights /\ jCur \in jVis /\ jCur \in Vertex
      /\ jRound \in Nat
  BY DEF DjTypeOK, DjRounds, DjRelax
<1>0. /\ jPc = "update" /\ jPc' = "find" /\ jRound' = jRound + 1
      /\ UNCHANGED <<jWeight, jReps, jVis, jCur>>
  BY DEF DjRelax
<1>1. ASSUME NEW v \in Vertex
      PROVE  \/ jDist'[v] = jDist[v] /\ (v \notin jVis /\ jWeight[<<jCur, v>>] # 0
                                          => jDist[v] <= jDist[jCur] + jWeight[<<jCur, v>>])
             \/ /\ v \notin jVis /\ jWeight[<<jCur, v>>] # 0
                /\ jDist'[v] = jDist[jCur] + jWeight[<<jCur, v>>]
                /\ jDist'[v] < jDist[v]
  <2>1. jDist'[v] = IF v \notin jVis /\ jWeight[<<jCur, v>>] # 0
                      /\ jDist[jCur] + jWeight[<<jCur, v>>] < jDist[v]
                   THEN jDist[jCur] + jWeight[<<jCur, v>>] ELSE jDist[v]
    BY DEF DjRelax, Through
  <2>2. /\ jDist[v] \in Nat /\ jDist[jCur] \in Nat /\ jWeight[<<jCur, v>>] \in Nat
    BY <1>p, <1>t
  <2> QED
    BY <2>1, <2>2
<1>2. \A v \in Vertex : jDist'[v] \in 0 .. Inf /\ jDist'[v] <= jDist[v]
                         /\ (v \in jVis => jDist'[v] = jDist[v])
  <2> SUFFICES ASSUME NEW v \in Vertex
               PROVE  jDist'[v] \in 0 .. Inf /\ jDist'[v] <= jDist[v]
                      /\ (v \in jVis => jDist'[v] = jDist[v])
    OBVIOUS
  <2>2. /\ jDist[v] \in 0 .. Inf /\ jDist[jCur] \in Nat /\ jWeight[<<jCur, v>>] \in Nat
        /\ Inf \in Nat
    BY <1>p, <1>t
  <2> QED
    BY <1>1, <2>2
<1>3. Cardinality(jVis) = jRound + 1 /\ jRound + 1 <= V
  <2>1. Cardinality(jVis) = jRound + 1
    BY <1>0 DEF DjRounds
  <2>2. Cardinality(jVis) <= V
    BY <1>t, VertexFinite, FS_Subset
  <2> QED
    BY <2>1, <2>2
<1>4. DjTypeOK'
  <2>1. jDist' = [v \in Vertex |-> jDist'[v]]
    BY DEF DjRelax
  <2>2. jDist' \in Distances
    BY <1>2, <2>1 DEF Distances
  <2>3. jRound' \in 0 .. V
    BY <1>0, <1>3, <1>t, VertexFinite
  <2> QED
    BY <1>0, <2>2, <2>3 DEF DjTypeOK
<1>5. DjRounds'
  BY <1>0, <1>3 DEF DjRounds
<1>6. DjLengths'
  <2>1. jDist'[0] = 0
    <3>1. jDist[0] = 0
      BY <1>0 DEF DjLengths
    <3> QED
      BY <1>2, <1>p, <3>1
  <2>2. ASSUME NEW v \in Vertex PROVE Best[jRound + 1][v] <= jDist'[v]
    <3>1. /\ Best[jRound][v] <= jDist[v] /\ Best[jRound][jCur] <= jDist[jCur]
      BY <1>0, <1>t DEF DjLengths
    <3>2. /\ Best[jRound][v] \in Nat /\ Best[jRound + 1][v] \in Nat
          /\ Best[jRound + 1][v] <= Best[jRound][v]
          /\ \A u \in Feeds(Best[jRound], v) :
                Best[jRound + 1][v] <= Best[jRound][u] + jWeight[<<u, v>>]
      BY <1>t, BestStep
    <3>3. /\ jDist[v] \in Nat /\ jDist[jCur] \in Nat /\ jWeight[<<jCur, v>>] \in Nat
          /\ jDist'[v] \in Nat /\ jDist[v] <= Inf
          /\ Best[jRound][jCur] \in Nat
      BY <1>p, <1>t, <1>2
    <3>4. CASE jDist'[v] = jDist[v]
      BY <3>1, <3>2, <3>3, <3>4
    <3>5. CASE /\ jWeight[<<jCur, v>>] # 0
               /\ jDist'[v] = jDist[jCur] + jWeight[<<jCur, v>>]
               /\ jDist'[v] < jDist[v]
      <4>1. Best[jRound][jCur] < Inf
        BY <3>1, <3>3, <3>5, <1>p
      <4>2. jCur \in Feeds(Best[jRound], v)
        BY <3>5, <4>1, <1>t DEF Feeds
      <4>3. Best[jRound + 1][v] <= Best[jRound][jCur] + jWeight[<<jCur, v>>]
        BY <3>2, <4>2
      <4> QED
        BY <3>1, <3>2, <3>3, <3>5, <4>3
    <3> QED
      BY <1>1, <3>4, <3>5
  <2>3. \A v \in jVis : Best[V - 1][v] <= jDist'[v]
    BY <1>2, <1>t DEF DjLengths
  <2> QED
    BY <1>0, <1>b, <2>1, <2>2, <2>3 DEF DjLengths
<1>7. DjShortest'
  BY <1>0, <1>2, <1>b, <1>t DEF DjShortest
<1>8. DjNearer'
  <2> SUFFICES ASSUME NEW v \in jVis, NEW u \in Vertex \ jVis
               PROVE  jDist'[v] <= jDist'[u]
    BY <1>0 DEF DjNearer
  <2>1. /\ jDist[v] <= jDist[u] /\ jDist[v] <= jDist[jCur] /\ jDist'[v] = jDist[v]
    BY <1>0, <1>2, <1>t DEF DjNearer
  <2>2. /\ jDist[v] \in Nat /\ jDist[u] \in Nat /\ jDist[jCur] \in Nat
        /\ jWeight[<<jCur, u>>] \in Nat
    BY <1>p, <1>t
  <2> QED
    BY <1>1, <2>1, <2>2
<1>9. DjEdges'
  <2> SUFFICES ASSUME NEW v \in jVis, NEW u \in Vertex \ jVis, jWeight[<<v, u>>] # 0
               PROVE  jDist'[u] <= jDist'[v] + jWeight[<<v, u>>]
    BY <1>0 DEF DjEdges, DjRelaxed
  <2>1. /\ jDist'[v] = jDist[v] /\ jDist'[u] <= jDist[u] /\ jDist'[u] \in Nat
    BY <1>2, <1>t
  <2>2. /\ jDist[v] \in Nat /\ jDist[u] \in Nat /\ jWeight[<<v, u>>] \in Nat
    BY <1>p, <1>t
  <2>3. CASE v = jCur
    BY <1>1, <2>1, <2>2, <2>3
  <2>4. CASE v # jCur
    <3>1. jDist[u] <= jDist[v] + jWeight[<<v, u>>]
      BY <1>0, <2>4 DEF DjEdges, DjRelaxed
    <3> QED
      BY <2>1, <2>2, <3>1
  <2> QED
    BY <2>3, <2>4
<1>10. DjFinished'
  BY <1>0 DEF DjFinished
<1> QED
  BY <1>4, <1>5, <1>6, <1>7, <1>8, <1>9, <1>10

(* When no candidate is left, the other vertices cannot be reached at all. *)
LEMMA DjCompleteStep ==
  ASSUME DjInv, DjComplete
  PROVE  DjInv'
<1> USE DEF DjInv
<1>p. /\ Inf \in Nat /\ 0 \in Vertex
      /\ \A v \in Vertex : jDist[v] \in 0 .. Inf
      /\ \A v \in Vertex, n \in Nat : Best[n][v] \in 0 .. Inf
  BY DjPlain
<1>b. Best' = Best
  BY BestIsKept DEF DjComplete
<1>t. jVis \in SUBSET Vertex /\ V - 1 \in Nat
  BY VertexFinite DEF DjTypeOK
<1>0. /\ jPc = "find" /\ jPc' = "loop" /\ jReps' = jReps - 1
      /\ UNCHANGED <<jWeight, jDist, jVis, jRound, jCur>>
  BY DEF DjComplete
<1>1. DjTypeOK'
  BY <1>0, GraphAssumption DEF DjTypeOK
<1>2. DjRounds' /\ DjLengths' /\ DjEdges'
  BY <1>0, <1>b DEF DjRounds, DjLengths, DjEdges
<1>3. DjShortest' /\ DjNearer'
  BY <1>0, <1>b DEF DjShortest, DjNearer
<1>4. \A v \in Vertex : jDist[v] = Best[V - 1][v]
  <2>1. \A v \in jVis : jDist[v] = Best[V - 1][v]
    <3> SUFFICES ASSUME NEW v \in jVis PROVE jDist[v] = Best[V - 1][v]
      OBVIOUS
    <3>1. jDist[v] <= Best[V - 1][v] /\ Best[V - 1][v] <= jDist[v]
      BY <1>t DEF DjShortest, DjLengths
    <3> QED
      BY <1>p, <1>t, <3>1
  <2>2. CASE jRound = V
    <3>1. Cardinality(jVis) = V
      BY <1>0, <2>2 DEF DjRounds
    <3>2. jVis = Vertex
      BY <1>t, <3>1, VertexFinite, FS_Subset
    <3> QED
      BY <2>1, <3>2
  <2>3. CASE Candidates = {}
    <3> SUFFICES ASSUME NEW v \in Vertex \ jVis PROVE jDist[v] = Best[V - 1][v]
      BY <2>1
    <3>1. \A u \in Vertex \ jVis : jDist[u] = Inf
      <4> SUFFICES ASSUME NEW u \in Vertex \ jVis PROVE jDist[u] = Inf
        OBVIOUS
      <4>1. ~(jDist[u] < Inf)
        BY <2>3 DEF Candidates
      <4>2. u \in Vertex /\ jDist[u] \in 0 .. Inf /\ Inf \in Nat
        BY <1>p
      <4> QED
        BY ONLY <4>1, <4>2
    <3>2. Inf <= Best[V - 1][v]
      <4>1. Inf \in 0 .. Inf /\ \A u \in Vertex \ jVis : Inf <= jDist[u]
        BY <1>p, <3>1
      <4>2. \A n \in Nat, u \in Vertex \ jVis : Inf <= Best[n][u]
        BY <1>0, <4>1, DjLowerBound
      <4> QED
        BY <1>t, <4>2
    <3> QED
      BY <1>p, <1>t, <3>1, <3>2
  <2> QED
    BY <2>2, <2>3 DEF DjComplete
<1>5. DjFinished'
  BY <1>0, <1>b, <1>4 DEF DjFinished
<1> QED
  BY <1>1, <1>2, <1>3, <1>5

(* Every instruction sequence of dijkstra.S preserves DjInv.               *)
LEMMA DjStep ==
  ASSUME DjInv, [DjNext]_jVars
  PROVE  DjInv'
<1>1. CASE DjReturn \/ UNCHANGED jVars
  <2>1. Best' = Best
    BY <1>1, BestIsKept DEF DjReturn, jVars
  <2> USE <1>1, <2>1 DEF DjInv, DjReturn, jVars
  <2>2. DjTypeOK'
    BY DEF DjTypeOK
  <2>3. DjRounds' /\ DjLengths'
    BY DEF DjRounds, DjLengths
  <2>4. DjShortest' /\ DjNearer'
    BY DEF DjShortest, DjNearer
  <2>5. DjEdges' /\ DjFinished'
    BY DEF DjEdges, DjFinished, DjRelaxed
  <2> QED
    BY <2>2, <2>3, <2>4, <2>5
<1> QED
  BY <1>1, DjResetStep, DjSelectStep, DjRelaxStep, DjCompleteStep DEF DjNext

(* Every settled vertex has its true distance and is nearer than the other *)
(* ones, and when a repetition ends the others cannot be reached           *)
(* (DjSettled), for every matrix of weights.                               *)
THEOREM DijkstraFindsDistances == DjSpec => []DjSettled
<1>1. DjInit => DjInv
  BY DjInitInv
<1>2. DjInv /\ [DjNext]_jVars => DjInv'
  BY DjStep
<1>3. DjInv => DjSettled
  <2> SUFFICES ASSUME DjInv PROVE DjSettled
    OBVIOUS
  <2> USE DEF DjInv
  <2>1. \A v \in jVis : jDist[v] = Best[V - 1][v]
    <3> SUFFICES ASSUME NEW v \in jVis PROVE jDist[v] = Best[V - 1][v]
      OBVIOUS
    <3>1. V - 1 \in Nat /\ v \in Vertex
      BY VertexFinite DEF DjTypeOK
    <3>2. jDist[v] <= Best[V - 1][v] /\ Best[V - 1][v] <= jDist[v]
      BY <3>1 DEF DjShortest, DjLengths
    <3>3. jDist[v] \in 0 .. Inf /\ Best[V - 1][v] \in 0 .. Inf /\ Inf \in Nat
      BY <3>1, DjPlain
    <3> QED
      BY <3>2, <3>3
  <2> QED
    BY <2>1 DEF DjNearer, DjFinished, DjSettled
<1> QED
  BY <1>1, <1>2, <1>3, PTL DEF DjSpec

-----------------------------------------------------------------------------
(* Every repetition ends.                                                  *)

(* The steps a workload may still take: reps repetitions of at most `round' *)
(* steps, `left' of the one under way, and the return.                      *)
StepsLeft(pc, reps, round, left) ==
  IF pc = "done" THEN 0
  ELSE IF pc = "loop" THEN round * reps + 1 ELSE round * (reps - 1) + 2 + left

(* A step begins a repetition, or returns, or goes on, or ends one.         *)
Outside == {"loop", "done"}
Move(round, pc, reps, left, pc2, reps2, left2) ==
  \/ pc = "loop" /\ pc2 \notin Outside /\ reps2 = reps /\ left2 <= round - 2
  \/ pc = "loop" /\ pc2 = "done"
  \/ pc \notin Outside /\ pc2 \notin Outside /\ reps2 = reps /\ left2 < left
  \/ pc \notin Outside /\ pc2 = "loop" /\ reps2 = reps - 1 /\ left >= 0

(* Each of these moves leaves fewer steps.                                 *)
LEMMA MovesFall ==
  ASSUME NEW round \in Nat, NEW reps \in Nat, NEW left \in Int, NEW left2 \in Int,
         NEW pc, NEW pc2, NEW reps2, Move(round, pc, reps, left, pc2, reps2, left2)
  PROVE  StepsLeft(pc2, reps2, round, left2) < StepsLeft(pc, reps, round, left)
<1>1. PICK all \in Nat, most \in Int : all = round * reps /\ most = round * (reps - 1)
  OBVIOUS
<1>2. most = all - round
  BY <1>1
<1>3. /\ StepsLeft("loop", reps, round, left) = all + 1
      /\ StepsLeft("loop", reps - 1, round, left2) = most + 1
      /\ StepsLeft("done", reps2, round, left2) = 0
      /\ pc \notin Outside => StepsLeft(pc, reps, round, left) = most + 2 + left
      /\ pc2 \notin Outside => StepsLeft(pc2, reps, round, left2) = most + 2 + left2
  BY <1>1 DEF StepsLeft, Outside
<1> QED
  BY <1>2, <1>3 DEF Move

(* There are no more than so many in all.                                  *)
LEMMA StepsBounded ==
  ASSUME NEW round \in Nat, NEW most \in Nat, NEW reps \in 0 .. most, NEW pc, NEW left \in Int,
         pc \notin Outside => left \in 0 .. round - 2 /\ reps # 0
  PROVE  StepsLeft(pc, reps, round, left) \in 0 .. round * most + 1
<1>1. PICK all \in Nat, some \in Nat, less \in Int :
        all = round * most /\ some = round * reps /\ less = round * (reps - 1)
  OBVIOUS
<1>2. some <= all
  <2>1. round * reps <= round * most
    OBVIOUS
  <2> QED
    BY <1>1, <2>1
<1>3. less = some - round
  BY <1>1
<1>4. pc \notin Outside => less >= 0
  <2>1. reps # 0 => round * (reps - 1) >= 0
    OBVIOUS
  <2> QED
    BY <1>1, <2>1
<1>5. StepsLeft(pc, reps, round, left) \in 0 .. all + 1
  BY <1>1, <1>2, <1>3, <1>4 DEF StepsLeft, Outside
<1> QED
  BY <1>1, <1>5

(* A vertex is dequeued at most once, and its row scanned once.            *)
BfsRound == (V + 2) * V + 2
BfsLeft  == (V + 2) * (V - bStart) + (IF bPc = "neigh" THEN V - bNext + 1 ELSE 0)
BfsToGo  == StepsLeft(bPc, bReps, BfsRound, BfsLeft)

(* Each vertex found may put one more on the stack, so a row is scanned     *)
(* once more for every vertex found from it.                               *)
DfsRound == (V + 2) * (2 * V - 1) + 2
DfsLeft  == (V + 2) * (2 * (V - Cardinality(dVisited)) + dTop)
              + (IF dPc = "neigh" THEN V - dNext + 1 ELSE 0)
DfsToGo  == StepsLeft(dPc, dReps, DfsRound, DfsLeft)

(* V rounds of two steps.                                                  *)
DjRound == 2 * V + 2
DjLeft  == IF jPc = "find" THEN 2 * (V - jRound) ELSE 2 * (V - jRound) - 1
DjToGo  == StepsLeft(jPc, jReps, DjRound, DjLeft)

BfsGoesOn == BfsToGo' < BfsToGo
BfsEndsBy == BfsToGo \in 0 .. BfsRound * MaxReps + 1
DfsGoesOn == DfsToGo' < DfsToGo
DfsEndsBy == DfsToGo \in 0 .. DfsRound * MaxReps + 1
DjGoesOn  == DjToGo' < DjToGo
DjEndsBy  == DjToGo \in 0 .. DjRound * MaxReps + 1

(* How a product with V + 2 changes.                                       *)
LEMMA Rows ==
  ASSUME NEW x \in Int
  PROVE  /\ (V + 2) * x \in Int /\ (V + 2) * (x - 1) = (V + 2) * x - (V + 2)
         /\ \A y \in Int : x <= y => (V + 2) * x <= (V + 2) * y
BY VertexFinite

(* A row is scanned once its vertex has left the queue.                    *)
BfsAhead == bPc = "neigh" => bStart >= 1

(* A scan begins by taking a vertex out of the queue.                      *)
LEMMA BfsAheadStep == BfsInv /\ BfsAhead /\ [BfsNext]_<<graph, bVars>> => BfsAhead'
<1> SUFFICES ASSUME BfsInv, BfsAhead, [BfsNext]_<<graph, bVars>> PROVE BfsAhead'
  OBVIOUS
<1> bStart \in Nat
  BY DEF BfsInv, BfsTypeOK
<1>1. CASE BfsDequeue
  BY <1>1 DEF BfsDequeue, BfsAhead
<1>2. CASE BfsVisit \/ BfsSkip \/ BfsEndScan
  BY <1>2 DEF BfsVisit, BfsSkip, BfsEndScan, BfsAhead
<1>3. CASE BfsReset \/ BfsReturn \/ BfsComplete \/ UNCHANGED <<graph, bVars>>
  BY <1>3 DEF BfsReset, BfsReturn, BfsComplete, bVars, BfsAhead
<1> QED
  BY <1>1, <1>2, <1>3 DEF BfsNext

(* What is left of a repetition is within it.                              *)
BfsCount ==
  /\ BfsRound \in Nat /\ BfsLeft \in Nat /\ bReps \in 0 .. MaxReps
  /\ bPc \notin Outside => BfsLeft \in 0 .. BfsRound - 2 /\ bReps # 0

(* The room of the queue bounds what is left.                              *)
LEMMA BfsCounted == BfsInv /\ BfsAhead => BfsCount
<1> SUFFICES ASSUME BfsInv, BfsAhead PROVE BfsCount
  OBVIOUS
<1>1. /\ V \in Nat /\ bStart \in 0 .. V /\ bNext \in 0 .. V
      /\ bPc \in {"loop", "main", "neigh", "done"} /\ bReps \in 0 .. MaxReps
  BY VertexFinite DEF BfsInv, BfsTypeOK, BfsQueueFits
<1>2. PICK rows \in Int, most \in Int : rows = (V + 2) * (V - bStart) /\ most = (V + 2) * V
  BY <1>1
<1>3. 0 <= rows /\ rows <= most
  <2>1. (V + 2) * (V - bStart) <= (V + 2) * V /\ 0 <= (V + 2) * (V - bStart)
    BY <1>1
  <2> QED
    BY <1>2, <2>1
<1>4. bPc = "neigh" => rows + (V + 2) <= most
  <2> SUFFICES ASSUME bPc = "neigh" PROVE rows + (V + 2) <= most
    OBVIOUS
  <2>1. bStart >= 1
    BY DEF BfsAhead
  <2>2. (V + 2) * (V - bStart) <= (V + 2) * (V - 1) /\ (V + 2) * (V - 1) = (V + 2) * V - (V + 2)
    BY <1>1, <2>1
  <2> QED
    BY <1>1, <1>2, <2>2
<1>5. BfsRound = most + 2 /\ BfsLeft = rows + (IF bPc = "neigh" THEN V - bNext + 1 ELSE 0)
  BY <1>2 DEF BfsRound, BfsLeft
<1>6. bPc \notin Outside => bReps # 0
  BY <1>1 DEF Outside, BfsInv
<1> QED
  BY <1>1, <1>3, <1>4, <1>5, <1>6 DEF BfsCount

(* Every instruction sequence of bfs.S leaves fewer to come.               *)
LEMMA BfsMoves ==
  ASSUME BfsInv, BfsCount, BfsCount', BfsNext
  PROVE  BfsGoesOn
<1>0. /\ BfsRound \in Nat /\ BfsLeft \in Nat /\ bReps \in 0 .. MaxReps
      /\ bPc \notin Outside => BfsLeft \in 0 .. BfsRound - 2 /\ bReps # 0
  BY DEF BfsCount
<1>1. /\ BfsLeft' \in Nat
      /\ bPc' \notin Outside => BfsLeft' \in 0 .. BfsRound - 2
  BY DEF BfsCount, BfsRound
<1>2. /\ V \in Nat /\ bStart \in 0 .. V /\ bNext \in 0 .. V /\ MaxReps \in Nat
  BY VertexFinite, GraphAssumption DEF BfsInv, BfsTypeOK, BfsQueueFits
<1>3. Move(BfsRound, bPc, bReps, BfsLeft, bPc', bReps', BfsLeft')
  <2>1. CASE BfsReset \/ BfsReturn \/ BfsComplete
    BY <1>0, <1>1, <2>1 DEF BfsReset, BfsReturn, BfsComplete, Move, Outside
  <2>2. CASE BfsDequeue
    <3>1. /\ bStart' = bStart + 1 /\ bNext' = 0 /\ bPc = "main" /\ bPc' = "neigh"
          /\ bReps' = bReps
      BY <2>2 DEF BfsDequeue
    <3>2. PICK x \in Int, y \in Int : x = (V + 2) * (V - bStart) /\ y = (V + 2) * (V - bStart')
      BY <1>2, <3>1
    <3>3. y = x - (V + 2)
      <4>1. V - bStart' = (V - bStart) - 1 /\ V - bStart \in Int
        BY <1>2, <3>1
      <4>2. (V + 2) * ((V - bStart) - 1) = (V + 2) * (V - bStart) - (V + 2)
        BY <4>1, Rows
      <4> QED
        BY <3>2, <4>1, <4>2
    <3>4. BfsLeft = x /\ BfsLeft' = y + V + 1
      BY <1>2, <3>1, <3>2 DEF BfsLeft
    <3>5. BfsLeft' < BfsLeft
      BY <1>2, <3>3, <3>4
    <3> QED
      BY <3>1, <3>5 DEF Move, Outside
  <2>3. CASE BfsVisit \/ BfsSkip
    <3>1. /\ bStart' = bStart /\ bNext' = bNext + 1 /\ bPc = "neigh" /\ bPc' = "neigh"
          /\ bReps' = bReps
      BY <2>3 DEF BfsVisit, BfsSkip
    <3>2. PICK x \in Int : x = (V + 2) * (V - bStart)
      BY <1>2
    <3>3. BfsLeft = x + (V - bNext + 1) /\ BfsLeft' = x + (V - (bNext + 1) + 1)
      BY <3>1, <3>2 DEF BfsLeft
    <3>4. BfsLeft' < BfsLeft
      BY <1>2, <3>2, <3>3
    <3> QED
      BY <3>1, <3>4 DEF Move, Outside
  <2>4. CASE BfsEndScan
    <3>1. /\ bStart' = bStart /\ bNext = V /\ bPc = "neigh" /\ bPc' = "main"
          /\ bReps' = bReps
      BY <2>4 DEF BfsEndScan
    <3>2. PICK x \in Int : x = (V + 2) * (V - bStart)
      BY <1>2
    <3>3. BfsLeft = x + (V - V + 1) /\ BfsLeft' = x + 0
      BY <3>1, <3>2 DEF BfsLeft
    <3>4. BfsLeft' < BfsLeft
      BY <1>2, <3>2, <3>3
    <3> QED
      BY <3>1, <3>4 DEF Move, Outside
  <2> QED
    BY <2>1, <2>2, <2>3, <2>4 DEF BfsNext
<1>4. StepsLeft(bPc', bReps', BfsRound, BfsLeft') < StepsLeft(bPc, bReps, BfsRound, BfsLeft)
  BY <1>0, <1>1, <1>2, <1>3, MovesFall
<1>5. BfsToGo' = StepsLeft(bPc', bReps', BfsRound, BfsLeft')
  BY DEF BfsToGo, BfsRound
<1> QED
  BY <1>4, <1>5 DEF BfsGoesOn, BfsToGo

(* Each repetition of bfs.S ends after at most (V + 2) V + 2 instruction    *)
(* sequences, for every graph: a vertex is dequeued once.                  *)
THEOREM BfsEnds == BfsSpec => []BfsEndsBy /\ [][BfsGoesOn]_<<graph, bVars>>
<1>1. BfsInit => BfsInv /\ BfsAhead
  BY BfsInvInit DEF BfsInit, BfsAhead
<1>2. BfsInv /\ BfsAhead /\ [BfsNext]_<<graph, bVars>> => (BfsInv /\ BfsAhead)'
  BY BfsInvStep, BfsAheadStep
<1>3. BfsCount => BfsEndsBy
  <2> SUFFICES ASSUME BfsCount PROVE BfsEndsBy
    OBVIOUS
  <2>1. MaxReps \in Nat
    BY GraphAssumption
  <2>2. /\ BfsRound \in Nat /\ BfsLeft \in Int /\ bReps \in 0 .. MaxReps
        /\ bPc \notin Outside => BfsLeft \in 0 .. BfsRound - 2 /\ bReps # 0
    BY DEF BfsCount
  <2>3. StepsLeft(bPc, bReps, BfsRound, BfsLeft) \in 0 .. BfsRound * MaxReps + 1
    BY <2>1, <2>2, StepsBounded
  <2> QED
    BY <2>3 DEF BfsEndsBy, BfsToGo
<1>4. BfsInv /\ BfsCount /\ BfsCount' /\ [BfsNext]_<<graph, bVars>> =>
        [BfsGoesOn]_<<graph, bVars>>
  BY BfsMoves
<1> QED
  BY <1>1, <1>2, <1>3, <1>4, BfsCounted, PTL DEF BfsSpec

(* The same for dfs: a vertex under scan is found and not on the stack.    *)
DfsCount ==
  /\ DfsRound \in Nat /\ DfsLeft \in Nat /\ dReps \in 0 .. MaxReps
  /\ dPc \notin Outside => DfsLeft \in 0 .. DfsRound - 2 /\ dReps # 0

(* The room of the stack bounds what is left.                              *)
LEMMA DfsCounted == DfsInv => DfsCount
<1> SUFFICES ASSUME DfsInv PROVE DfsCount
  OBVIOUS
<1>1. /\ V \in Nat /\ V >= 1 /\ dTop \in Nat /\ dNext \in 0 .. V
      /\ dPc \in {"loop", "main", "neigh", "done"} /\ dReps \in 0 .. MaxReps
  BY VertexFinite DEF DfsInv, DfsTypeOK
<1>2. PICK found \in Nat : found = Cardinality(dVisited) /\ found <= V
  BY AtMostV DEF DfsInv, DfsTypeOK
<1>3. /\ dTop <= found
      /\ dPc = "neigh" => dTop + 1 <= found
  BY <1>2 DEF DfsInv
<1>4. dPc \notin Outside => found >= 1 /\ dReps # 0
  <2> SUFFICES ASSUME dPc \notin Outside PROVE found >= 1 /\ dReps # 0
    OBVIOUS
  <2>1. 0 \in dVisited /\ dReps # 0
    BY <1>1 DEF DfsInv, Outside
  <2>2. found # 0
    BY <1>2, <2>1, VertexFinite, FS_Subset, FS_EmptySet DEF DfsInv, DfsTypeOK
  <2> QED
    BY <1>2, <2>1, <2>2
<1>5. PICK k \in Int : k = 2 * (V - found) + dTop
  BY <1>1, <1>2
<1>6. /\ 0 <= k
      /\ dPc \notin Outside => k <= 2 * V - 1
      /\ dPc = "neigh" => k <= 2 * V - 2
  BY <1>1, <1>2, <1>3, <1>4, <1>5 DEF Outside
<1>7. PICK rows \in Int, most \in Int : rows = (V + 2) * k /\ most = (V + 2) * (2 * V - 1)
  BY <1>1
<1>8. /\ 0 <= rows
      /\ dPc \notin Outside => rows <= most
      /\ dPc = "neigh" => rows + (V + 2) <= most
  <2>1. (V + 2) * 0 <= (V + 2) * k /\ (V + 2) * 0 = 0
    BY <1>1, <1>6, Rows
  <2>2. dPc \notin Outside => (V + 2) * k <= (V + 2) * (2 * V - 1)
    BY <1>1, <1>6, Rows
  <2>3. dPc = "neigh" => (V + 2) * k <= (V + 2) * ((2 * V - 1) - 1)
    <3>1. 2 * V - 2 = (2 * V - 1) - 1 /\ (2 * V - 1) - 1 \in Int
      BY <1>1
    <3> QED
      BY <1>1, <1>6, <3>1, Rows
  <2>4. (V + 2) * ((2 * V - 1) - 1) = (V + 2) * (2 * V - 1) - (V + 2)
    BY <1>1, Rows
  <2> QED
    BY <1>1, <1>7, <2>1, <2>2, <2>3, <2>4
<1>9. /\ DfsRound = most + 2 /\ most \in Nat
      /\ DfsLeft = rows + (IF dPc = "neigh" THEN V - dNext + 1 ELSE 0)
  <2>1. (V + 2) * (2 * V - 1) >= 0
    BY <1>1
  <2> QED
    BY <1>2, <1>5, <1>7, <2>1 DEF DfsRound, DfsLeft
<1> QED
  BY <1>1, <1>4, <1>8, <1>9 DEF DfsCount, Outside

(* Every instruction sequence of dfs.S leaves fewer to come.               *)
LEMMA DfsMoves ==
  ASSUME DfsInv, DfsCount, DfsCount', DfsNext
  PROVE  DfsGoesOn
<1>0. /\ DfsRound \in Nat /\ DfsLeft \in Nat /\ dReps \in 0 .. MaxReps
      /\ dPc \notin Outside => DfsLeft \in 0 .. DfsRound - 2 /\ dReps # 0
  BY DEF DfsCount
<1>1. /\ DfsLeft' \in Nat
      /\ dPc' \notin Outside => DfsLeft' \in 0 .. DfsRound - 2
  BY DEF DfsCount, DfsRound
<1>2. /\ V \in Nat /\ dTop \in Nat /\ dNext \in 0 .. V /\ MaxReps \in Nat
      /\ dVisited \in SUBSET Vertex
  BY VertexFinite, GraphAssumption DEF DfsInv, DfsTypeOK
<1>3. PICK found \in Int : found = Cardinality(dVisited)
  BY <1>2, AtMostV
<1>4. PICK k \in Int : k = 2 * (V - found) + dTop
  BY <1>2, <1>3
<1>5. PICK x \in Int : x = (V + 2) * k
  BY <1>2
<1>6. Move(DfsRound, dPc, dReps, DfsLeft, dPc', dReps', DfsLeft')
  <2>1. CASE DfsReset \/ DfsReturn \/ DfsComplete
    BY <1>0, <1>1, <2>1 DEF DfsReset, DfsReturn, DfsComplete, Move, Outside
  <2>2. CASE DfsPop
    <3>1. /\ dTop' = dTop - 1 /\ dNext' = 0 /\ dPc = "main" /\ dPc' = "neigh"
          /\ dReps' = dReps /\ dVisited' = dVisited
      BY <2>2 DEF DfsPop
    <3>2. 2 * (V - Cardinality(dVisited')) + dTop' = k - 1
      BY <1>2, <1>3, <1>4, <3>1
    <3>3. (V + 2) * (k - 1) = x - (V + 2)
      BY <1>5, Rows
    <3>4. DfsLeft = x /\ DfsLeft' = (V + 2) * (k - 1) + (V - 0 + 1)
      BY <1>3, <1>4, <1>5, <3>1, <3>2 DEF DfsLeft
    <3>5. DfsLeft' < DfsLeft
      BY <1>2, <3>3, <3>4
    <3> QED
      BY <3>1, <3>5 DEF Move, Outside
  <2>3. CASE DfsVisit
    <3>1. /\ dTop' = dTop + 2 /\ dPc = "neigh" /\ dPc' = "main" /\ dReps' = dReps
          /\ dVisited' = dVisited \cup {dNext} /\ dNext \in Vertex \ dVisited
      BY <1>2, <2>3, VertexFinite DEF DfsVisit, DfsFresh, Vertex
    <3>2. 2 * (V - Cardinality(dVisited')) + dTop' = k
      <4>1. Cardinality(dVisited') = found + 1
        BY <1>2, <1>3, <3>1, RoomForOneMore
      <4> QED
        BY <1>2, <1>4, <3>1, <4>1
    <3>3. DfsLeft = x + (V - dNext + 1) /\ DfsLeft' = x + 0
      BY <1>3, <1>4, <1>5, <3>1, <3>2 DEF DfsLeft
    <3>4. DfsLeft' < DfsLeft
      BY <1>2, <3>3
    <3> QED
      BY <3>1, <3>4 DEF Move, Outside
  <2>4. CASE DfsSkip
    <3>1. /\ dTop' = dTop /\ dNext' = dNext + 1 /\ dPc = "neigh" /\ dPc' = "neigh"
          /\ dReps' = dReps /\ dVisited' = dVisited
      BY <2>4 DEF DfsSkip
    <3>2. DfsLeft = x + (V - dNext + 1) /\ DfsLeft' = x + (V - (dNext + 1) + 1)
      BY <1>3, <1>4, <1>5, <3>1 DEF DfsLeft
    <3>3. DfsLeft' < DfsLeft
      BY <1>2, <3>2
    <3> QED
      BY <3>1, <3>3 DEF Move, Outside
  <2>5. CASE DfsEndScan
    <3>1. /\ dTop' = dTop /\ dNext = V /\ dPc = "neigh" /\ dPc' = "main"
          /\ dReps' = dReps /\ dVisited' = dVisited
      BY <2>5 DEF DfsEndScan
    <3>2. DfsLeft = x + (V - V + 1) /\ DfsLeft' = x + 0
      BY <1>3, <1>4, <1>5, <3>1 DEF DfsLeft
    <3>3. DfsLeft' < DfsLeft
      BY <1>2, <3>2
    <3> QED
      BY <3>1, <3>3 DEF Move, Outside
  <2> QED
    BY <2>1, <2>2, <2>3, <2>4, <2>5 DEF DfsNext
<1>7. StepsLeft(dPc', dReps', DfsRound, DfsLeft') < StepsLeft(dPc, dReps, DfsRound, DfsLeft)
  BY <1>0, <1>1, <1>2, <1>6, MovesFall
<1>8. DfsToGo' = StepsLeft(dPc', dReps', DfsRound, DfsLeft')
  BY DEF DfsToGo, DfsRound
<1> QED
  BY <1>7, <1>8 DEF DfsGoesOn, DfsToGo

(* Each repetition of dfs.S ends, for every graph: a vertex found may be   *)
(* pushed together with the one it was found from, but each one only once. *)
THEOREM DfsEnds == DfsSpec => []DfsEndsBy /\ [][DfsGoesOn]_<<graph, dVars>>
<1>1. DfsInit => DfsInv
  BY DfsInvInit
<1>2. DfsCount => DfsEndsBy
  <2> SUFFICES ASSUME DfsCount PROVE DfsEndsBy
    OBVIOUS
  <2>1. MaxReps \in Nat
    BY GraphAssumption
  <2>2. /\ DfsRound \in Nat /\ DfsLeft \in Int /\ dReps \in 0 .. MaxReps
        /\ dPc \notin Outside => DfsLeft \in 0 .. DfsRound - 2 /\ dReps # 0
    BY DEF DfsCount
  <2>3. StepsLeft(dPc, dReps, DfsRound, DfsLeft) \in 0 .. DfsRound * MaxReps + 1
    BY <2>1, <2>2, StepsBounded
  <2> QED
    BY <2>3 DEF DfsEndsBy, DfsToGo
<1>3. DfsInv /\ DfsCount /\ DfsCount' /\ [DfsNext]_<<graph, dVars>> =>
        [DfsGoesOn]_<<graph, dVars>>
  BY DfsMoves
<1> QED
  BY <1>1, <1>2, <1>3, DfsInvStep, DfsCounted, PTL DEF DfsSpec

(* The same for dijkstra.                                                  *)
DjCount ==
  /\ DjLeft \in Int /\ jReps \in 0 .. MaxReps
  /\ jPc \notin Outside => DjLeft \in 0 .. DjRound - 2 /\ jReps # 0

(* A vertex under update was not settled before its round.                 *)
LEMMA DjCounted == DjInv => DjCount
<1> SUFFICES ASSUME DjInv PROVE DjCount
  OBVIOUS
<1>1. /\ V \in Nat /\ V >= 1 /\ jRound \in 0 .. V /\ jReps \in 0 .. MaxReps
      /\ jPc \in {"loop", "find", "update", "done"}
      /\ jPc \in {"find", "update"} => jReps # 0
  BY VertexFinite DEF DjInv, DjTypeOK
<1>2. jPc = "update" => jRound + 1 <= V
  BY <1>1, AtMostV DEF DjInv, DjTypeOK, DjRounds
<1> QED
  BY <1>1, <1>2 DEF DjCount, DjLeft, DjRound, Outside

(* Every instruction sequence of dijkstra.S leaves fewer to come.          *)
LEMMA DjMoves ==
  ASSUME DjInv, DjCount, DjCount', DjNext
  PROVE  DjGoesOn
<1>1. /\ V \in Nat /\ jRound \in 0 .. V /\ DjRound \in Nat
      /\ DjLeft \in Int /\ jReps \in 0 .. MaxReps
      /\ jPc \notin Outside => DjLeft \in 0 .. DjRound - 2 /\ jReps # 0
  BY VertexFinite DEF DjInv, DjTypeOK, DjCount, DjRound
<1>2. /\ DjLeft' \in Int
      /\ jPc' \notin Outside => DjLeft' \in 0 .. DjRound - 2
  BY DEF DjCount, DjRound
<1>3. Move(DjRound, jPc, jReps, DjLeft, jPc', jReps', DjLeft')
  <2>1. CASE DjReset \/ DjReturn \/ DjComplete
    BY <1>1, <1>2, <2>1 DEF DjReset, DjReturn, DjComplete, Move, Outside
  <2>2. CASE DjSelect
    BY <1>1, <2>2 DEF DjSelect, DjLeft, Move, Outside
  <2>3. CASE DjRelax
    BY <1>1, <2>3 DEF DjRelax, DjLeft, Move, Outside
  <2> QED
    BY <2>1, <2>2, <2>3 DEF DjNext
<1>4. StepsLeft(jPc', jReps', DjRound, DjLeft') < StepsLeft(jPc, jReps, DjRound, DjLeft)
  BY <1>1, <1>2, <1>3, MovesFall
<1>5. DjToGo' = StepsLeft(jPc', jReps', DjRound, DjLeft')
  BY DEF DjToGo, DjRound
<1> QED
  BY <1>4, <1>5 DEF DjGoesOn, DjToGo

(* Each repetition of dijkstra.S ends after at most V rounds, for every    *)
(* matrix of weights: a round settles a vertex.                            *)
THEOREM DijkstraEnds == DjSpec => []DjEndsBy /\ [][DjGoesOn]_jVars
<1>1. DjCount => DjEndsBy
  <2> SUFFICES ASSUME DjCount PROVE DjEndsBy
    OBVIOUS
  <2>1. MaxReps \in Nat /\ V \in Nat
    BY GraphAssumption, VertexFinite
  <2>2. /\ DjRound \in Nat /\ DjLeft \in Int /\ jReps \in 0 .. MaxReps
        /\ jPc \notin Outside => DjLeft \in 0 .. DjRound - 2 /\ jReps # 0
    BY <2>1 DEF DjCount, DjRound
  <2>3. StepsLeft(jPc, jReps, DjRound, DjLeft) \in 0 .. DjRound * MaxReps + 1
    BY <2>1, <2>2, StepsBounded
  <2> QED
    BY <2>3 DEF DjEndsBy, DjToGo
<1>2. DjInv /\ DjCount /\ DjCount' /\ [DjNext]_jVars => [DjGoesOn]_jVars
  BY DjMoves
<1> QED
  BY <1>1, <1>2, DjInitInv, DjStep, DjCounted, PTL DEF DjSpec
=============================================================================
