---------------------------- MODULE MCObjectPool ----------------------------
(* Instances of ObjectPool for TLC. *)
EXTENDS ObjectPool, TLC

\* Every port has an address of its own, named like the port.
OwnAddress == [r \in Res |-> r]

Symmetry ==
  Permutations(InitialPorts) \cup Permutations(Res \ InitialPorts) \cup Permutations(Callers)
=============================================================================
