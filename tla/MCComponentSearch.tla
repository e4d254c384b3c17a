-------------------------- MODULE MCComponentSearch --------------------------
(* Finite instances of ComponentSearch for TLC. *)
EXTENDS ComponentSearch

CONSTANTS
  Sizes,      \* the numbers of vertices
  MaxEdges    \* bound: no graph has more edges than this

(* Bags of edges matter, and their order. *)
SequencesOver(S, most) == UNION {[1 .. k -> S] : k \in 0 .. most}

Plain(n) == {e \in EdgesOver(n) : ~e.candidate}

(* A search of all edges does not look at candidate. *)
Graphs ==
  UNION {{[count |-> n, edges |-> e, direct_only |-> FALSE] :
            e \in SequencesOver(Plain(n), MaxEdges)} : n \in Sizes}
  \cup
  UNION {{[count |-> n, edges |-> e, direct_only |-> TRUE] :
            e \in SequencesOver(EdgesOver(n), MaxEdges - 1)} : n \in Sizes}
=============================================================================
