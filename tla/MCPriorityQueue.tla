--------------------------- MODULE MCPriorityQueue ---------------------------
(* Instances of PriorityQueue for TLC: resource ids are interchangeable. *)
EXTENDS PriorityQueue, TLC

Symmetry == Permutations(Res)
=============================================================================
