------------------------------ MODULE MCDaemon ------------------------------
(* Instances of Daemon for TLC. *)
EXTENDS Daemon, TLC

CONSTANT b

\* Any pods are sticky, or else the plugin gives up once.
StickyOrLate ==
  {[sticky |-> S, giveUps |-> 0] : S \in SUBSET Pods} \cup {[sticky |-> {}, giveUps |-> 1]}

OneSticky == {[sticky |-> {b}, giveUps |-> 0]}

Symmetry ==
  Permutations(Handlers) \cup Permutations(InitialPorts) \cup Permutations(Res \ InitialPorts)

\* StickyOrLate does not tell the pods apart.
PodSymmetry == Symmetry \cup Permutations(Pods)
=============================================================================
