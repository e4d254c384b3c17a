---------------------------- MODULE Reachability ----------------------------
(***************************************************************************)
(* What "reaches" means for the vertices and edges of a call graph, with   *)
(* no algorithm: v belongs to every set of vertices that holds u and is    *)
(* closed under the edges.  In this form the definition is the induction   *)
(* principle that the proofs need, and it is cheap for TLC on few vertices.*)
(***************************************************************************)

Closed(S, E) == \A e \in E : e[1] \in S => e[2] \in S

Within(V, E) == E \cap (V \X V)

Reaches(V, E, u, v) ==
  \A S \in SUBSET V : u \in S /\ Closed(S, Within(V, E)) => v \in S

Mutual(V, E, u, v) == Reaches(V, E, u, v) /\ Reaches(V, E, v, u)
=============================================================================
