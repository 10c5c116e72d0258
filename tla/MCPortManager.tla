---------------------------- MODULE MCPortManager ----------------------------
(* Instances of PortManager for TLC. *)
EXTENDS PortManager, TLC

CONSTANTS p1, p2, p3, a1, a2

\* The last two ports are two lives of one address.
SharedAddress == (p1 :> a1) @@ (p2 :> a2) @@ (p3 :> a2)

Symmetry == Permutations(Callers)
=============================================================================
