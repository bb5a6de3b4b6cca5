------------------------------ MODULE Dijkstra ------------------------------
(***************************************************************************)
(* The dijkstra workload, src/workload/graph/dijkstra/dijkstra.S: shortest *)
(* distances from vertex 0 with a linear search for the nearest unvisited  *)
(* vertex.  Each of the two inner loops is one step: nothing else runs,    *)
(* and an iteration of the update loop writes no word another one reads.   *)
(***************************************************************************)
EXTENDS Integers, FiniteSets, GraphData

CONSTANTS
  Inf,      (* DJ_INF                                                      *)
  Weights   (* matrices considered; weight 0 means no edge                 *)

ASSUME DijkstraAssumption ==
  /\ Inf \in Nat
  /\ Weights \subseteq [Vertex \X Vertex -> Nat]
  /\ \A w \in Weights, e \in Vertex \X Vertex : V * w[e] < Inf

VARIABLES
  jWeight,  (* .L_dj_wmat                                                  *)
  jPc,      (* "loop", "find", "update" or "done"                          *)
  jReps,    (* s0 of the outer loop                                        *)
  jDist,    (* .L_dj_dist                                                  *)
  jVis,     (* .L_dj_vis                                                   *)
  jRound,   (* s1                                                          *)
  jCur      (* s0 of .L_dj_dijkstra: the vertex selected                   *)

jVars == <<jWeight, jPc, jReps, jDist, jVis, jRound, jCur>>

DjInit ==
  /\ jWeight \in Weights
  /\ jPc = "loop"
  /\ jReps \in 0 .. MaxReps
  /\ jDist = [v \in Vertex |-> 0] /\ jVis = {}
  /\ jRound = 0 /\ jCur = 0

(* .L_dj_init *)
DjReset ==
  /\ jPc = "loop" /\ jReps # 0
  /\ jDist' = [v \in Vertex |-> IF v = 0 THEN 0 ELSE Inf]
  /\ jVis' = {}
  /\ jRound' = 0
  /\ jPc' = "find"
  /\ UNCHANGED <<jWeight, jReps, jCur>>

DjReturn ==
  /\ jPc = "loop" /\ jReps = 0
  /\ jPc' = "done"
  /\ UNCHANGED <<jWeight, jReps, jDist, jVis, jRound, jCur>>

Candidates == {v \in Vertex \ jVis : jDist[v] < Inf}

(* Defect: the search takes the first unvisited vertex with a distance. *)
Nearest_First(v) == v \in Candidates /\ \A u \in Candidates : v <= u

(* The loop keeps the first vertex of least distance (bge, not bgt). *)
Nearest(v) ==
  /\ v \in Candidates
  /\ \A u \in Candidates :
       jDist[v] < jDist[u] \/ (jDist[v] = jDist[u] /\ v <= u)

DjSelect ==
  /\ jPc = "find" /\ jRound < V
  /\ \E v \in Vertex : Nearest(v) /\ jCur' = v /\ jVis' = jVis \cup {v}
  /\ jPc' = "update"
  /\ UNCHANGED <<jWeight, jReps, jDist, jRound>>

(* Defect: the weight is compared, not the length of the path through u. *)
Through_WeightOnly(u, v) == jWeight[<<u, v>>]

Through(u, v) == jDist[u] + jWeight[<<u, v>>]

DjRelax ==
  /\ jPc = "update"
  /\ jDist' = [v \in Vertex |->
       IF v \notin jVis /\ jWeight[<<jCur, v>>] # 0 /\ Through(jCur, v) < jDist[v]
       THEN Through(jCur, v) ELSE jDist[v]]
  /\ jRound' = jRound + 1
  /\ jPc' = "find"
  /\ UNCHANGED <<jWeight, jReps, jVis, jCur>>

(* Five rounds, or no candidate left (a0 is still -1). *)
DjComplete ==
  /\ jPc = "find"
  /\ jRound = V \/ Candidates = {}
  /\ jReps' = jReps - 1
  /\ jPc' = "loop"
  /\ UNCHANGED <<jWeight, jDist, jVis, jRound, jCur>>

DjNext == DjReset \/ DjReturn \/ DjSelect \/ DjRelax \/ DjComplete

DjSpec == DjInit /\ [][DjNext]_jVars

-----------------------------------------------------------------------------
(* Bellman and Ford's recurrence: least length of a path of at most n      *)
(* edges, Inf if there is none.                                            *)
Best[n \in Nat] ==
  IF n = 0 THEN [v \in Vertex |-> IF v = 0 THEN 0 ELSE Inf]
  ELSE [v \in Vertex |->
         LET L == {Best[n - 1][v]} \cup
                  {Best[n - 1][u] + jWeight[<<u, v>>] :
                     u \in {x \in Vertex : jWeight[<<x, v>>] # 0 /\ Best[n - 1][x] < Inf}}
         IN  CHOOSE x \in L : \A y \in L : x <= y]

(* A settled vertex has its true distance and is nearer than every other   *)
(* one; when a repetition ends the unvisited vertices are the unreachable  *)
(* ones.                                                                   *)
DjSettled ==
  /\ \A v \in jVis : jDist[v] = Best[V - 1][v]
  /\ \A v \in jVis, u \in Vertex \ jVis : jDist[v] <= jDist[u]
  /\ jPc = "loop" /\ jVis # {} => \A v \in Vertex : jDist[v] = Best[V - 1][v]
=============================================================================
