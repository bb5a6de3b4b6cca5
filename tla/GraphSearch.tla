---------------------------- MODULE GraphSearch -----------------------------
(***************************************************************************)
(* What the workloads bfs and dfs compute, with no queue, stack or         *)
(* register: each repetition marks vertex 0, goes on marking successors of *)
(* marked vertices, and ends when none is left.                            *)
(***************************************************************************)
EXTENDS GraphData, TLAPS

VARIABLES
  marked,    (* the vertices whose visited byte is 1 *)
  searching  (* inside a repetition?                 *)

Init == graph \in Graphs /\ marked = {} /\ searching = FALSE

Begin ==
  /\ ~searching
  /\ searching' = TRUE
  /\ marked' = {0}
  /\ UNCHANGED graph

Grow ==
  /\ searching
  /\ \E u \in marked, v \in Vertex \ marked :
       Edge(u, v) /\ marked' = marked \cup {v}
  /\ UNCHANGED <<graph, searching>>

Finish ==
  /\ searching
  /\ Closed(marked)
  /\ searching' = FALSE
  /\ UNCHANGED <<graph, marked>>

Next == Begin \/ Grow \/ Finish
vars == <<graph, marked, searching>>
Spec == Init /\ [][Next]_vars

-----------------------------------------------------------------------------
(* After a repetition exactly the vertices reachable from 0 are marked. *)
FoundAll == ~searching /\ marked # {} => marked = Reachable

SearchInv ==
  /\ marked \subseteq Reachable
  /\ marked # {} \/ searching => 0 \in marked
  /\ ~searching => Closed(marked)

(* Vertex 0 is reachable, and so is a successor of a reachable vertex. *)
LEMMA ReachableGrows ==
  /\ 0 \in Reachable
  /\ \A u \in Reachable, v \in Vertex : Edge(u, v) => v \in Reachable
BY GraphAssumption DEF Reachable, Closed, Vertex

(* What the repetitions of bfs.S and dfs.S leave in .visited: the vertices *)
(* of the least closed set around vertex 0, whatever the matrix.           *)
THEOREM SearchFindsAll == Spec => []FoundAll
<1>1. Init => SearchInv
  BY DEF Init, SearchInv, Closed
<1>2. SearchInv /\ [Next]_vars => SearchInv'
  <2> SUFFICES ASSUME SearchInv, [Next]_vars PROVE SearchInv'
    OBVIOUS
  <2>1. CASE Begin
    <3>1. Reachable' = Reachable
      BY <2>1 DEF Begin, Reachable, Closed, Edge
    <3> QED
      BY <2>1, <3>1, ReachableGrows DEF Begin, SearchInv
  <2>2. CASE Grow
    <3>1. Reachable' = Reachable
      BY <2>2 DEF Grow, Reachable, Closed, Edge
    <3> QED
      BY <2>2, <3>1, ReachableGrows DEF Grow, SearchInv
  <2>3. CASE Finish
    <3>1. Reachable' = Reachable /\ Closed(marked)' = Closed(marked)
      BY <2>3 DEF Finish, Reachable, Closed, Edge
    <3> QED
      BY <2>3, <3>1 DEF Finish, SearchInv
  <2>4. CASE UNCHANGED vars
    BY <2>4 DEF vars, SearchInv, Reachable, Closed, Edge
  <2> QED
    BY <2>1, <2>2, <2>3, <2>4 DEF Next
<1>3. SearchInv => FoundAll
  <2> SUFFICES ASSUME SearchInv, ~searching, marked # {} PROVE Reachable \subseteq marked
    BY DEF SearchInv, FoundAll
  <2>1. marked \in SUBSET Vertex
    BY DEF SearchInv, Reachable
  <2> QED
    BY <2>1 DEF SearchInv, Reachable
<1> QED
  BY <1>1, <1>2, <1>3, PTL DEF Spec
=============================================================================
