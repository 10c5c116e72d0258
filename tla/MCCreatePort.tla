---------------------------- MODULE MCCreatePort ----------------------------
(* Instances of CreatePort for TLC. *)
EXTENDS CreatePort, TLC

CONSTANTS r1, r2, r3

\* r2 and r3 are made with the same address: only one of them exists at a time.
MCRes == {r1, r2, r3}
MCIPof == (r1 :> 1) @@ (r2 :> 2) @@ (r3 :> 2)
=============================================================================
