------------------------------- MODULE Leases -------------------------------
(***************************************************************************)
(* What the plugin may count on of the daemon: a pod is granted a port     *)
(* that no other pod has, and has it until a request of the pod gives it   *)
(* back.  Plugin is written on top of this; Daemon implements it as long   *)
(* as no record outlives the release of its port.                          *)
(***************************************************************************)
CONSTANTS Pods, Ports, None

VARIABLE lease     \* the port of each pod, or None

\* The answer of AllocateIP.
Grant(p, r) ==
  /\ \A q \in Pods \ {p} : lease[q] # r
  /\ lease' = [lease EXCEPT ![p] = r]

\* ReleaseIP, or an AllocateIP that came to nothing.
GiveBack(P) == lease' = [p \in Pods |-> IF p \in P THEN None ELSE lease[p]]

\* Some pods give back, that is, GiveBack(P) for some P; or one is granted a
\* port.  Only the pods in "asking", those with a request under way, lose or
\* get a lease, but for the ports in "lost", which count for nobody any more.
LeaseNext(asking, lost) ==
  /\ \A p \in Pods \ asking :
       lease'[p] = lease[p] \/ (lease[p] \in lost /\ lease'[p] = None)
  /\ \/ \A p \in Pods : lease'[p] \in {lease[p], None}
     \/ \E p \in Pods : lease'[p] \in Ports /\ Grant(p, lease'[p])
=============================================================================
