----------------------------- MODULE GraphData ------------------------------
(***************************************************************************)
(* What the graph workloads of src/workload/graph share: an adjacency      *)
(* matrix in .data that is read and never written, searched from vertex 0, *)
(* and the number of repetitions main() asks for.                          *)
(***************************************************************************)
EXTENDS Naturals, FiniteSets

CONSTANTS
  V,        (* number of vertices                                          *)
  Graphs,   (* the matrices considered, as sets of edges                   *)
  MaxReps   (* bound on the argument nloop                                 *)

Vertex == 0 .. V - 1

ASSUME GraphAssumption ==
  /\ V \in 1 .. 8               (* visited is eight bytes                  *)
  /\ Graphs \subseteq SUBSET (Vertex \X Vertex)
  /\ MaxReps \in Nat

VARIABLE graph

Edge(u, v) == <<u, v>> \in graph

Closed(C) == \A u \in C, v \in Vertex : Edge(u, v) => v \in C

(* The least closed set with vertex 0 in it. *)
Reachable ==
  {v \in Vertex : \A C \in SUBSET Vertex : 0 \in C /\ Closed(C) => v \in C}

(* The vertices at most n edges away from vertex 0. *)
Ball[n \in Nat] ==
  IF n = 0 THEN {0}
  ELSE Ball[n - 1] \cup {v \in Vertex : \E u \in Ball[n - 1] : Edge(u, v)}

Level(v) == CHOOSE n \in Vertex : v \in Ball[n] /\ \A m \in 0 .. n - 1 : v \notin Ball[m]
=============================================================================
