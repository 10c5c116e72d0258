---------------------------- MODULE MCDiskStorage ----------------------------
(* Instances of DiskStorage for TLC. *)
EXTENDS DiskStorage, TLC

Symmetry == Permutations(Keys) \cup Permutations(Values) \cup Permutations(Clients)
=============================================================================
