----------------------------- MODULE PortFactory -----------------------------
(***************************************************************************)
(* PortFactory (pkg/ipam/port.go) and the Neutron service it calls.        *)
(*                                                                         *)
(* Neutron is external: a set of existing ports, each with an id that is   *)
(* never reused and an IP address no other existing port has.  A call may  *)
(* fail, and Faults names the ways in which it may:                        *)
(*   "create"  CreatePort fails and leaves nothing behind;                 *)
(*   "orphan"  Create fails after the port was made: AddTag failed, or the *)
(*             subnet or network lookup did and so did the clean-up delete;*)
(*   "delete"  DeletePort fails and the port is still there;               *)
(*   "lost"    DeletePort reports an error (the 60 s HTTP timeout) although*)
(*             the port is gone.                                           *)
(* f.ports is only ever appended to and never read; its contents are left  *)
(* out, the lock around it is kept.                                        *)
(***************************************************************************)
EXTENDS Integers, FiniteSets

CONSTANTS Res,       \* the ids Neutron may give to ports: a bound on creates
          IPof,      \* the address of the port with a given id
          Faults     \* the failures of Neutron that may happen

ASSUME FaultsAssumption == Faults \subseteq {"create", "orphan", "delete", "lost"}

VARIABLES ports,       \* ids of the ports that exist in Neutron
          created,     \* ids ever given out
          orphans,     \* history: ports that a failing Create has left behind
          factoryLock  \* PortFactory.RWMutex: "free" or "held"

factoryVars == <<ports, created, orphans, factoryLock>>

\* The ids a new port may get: fresh, with an address that is free.
Creatable == {r \in Res \ created : \A p \in ports : IPof[p] # IPof[r]}

\* Create: CreatePort and AddTag succeeded.
CreateReturns(r) ==
  /\ r \in Creatable
  /\ ports' = ports \cup {r}
  /\ created' = created \cup {r}
  /\ UNCHANGED <<orphans, factoryLock>>

\* Create failed, R being the ports that would have done.  A port that was
\* made before the failure stays in Neutron and is returned to nobody.
\* Neutron also fails when R is empty: no address is left.
CreateFails(R) ==
  /\ \/ /\ "create" \in Faults \/ R = {}
        /\ UNCHANGED <<ports, created, orphans>>
     \/ /\ "orphan" \in Faults
        /\ \E r \in R :
             /\ ports' = ports \cup {r}
             /\ created' = created \cup {r}
             /\ orphans' = orphans \cup {r}
  /\ UNCHANGED factoryLock

\* The end of Create: f.Lock, f.ports = append(...), f.Unlock.
AppendPort == factoryLock = "free" /\ UNCHANGED factoryVars

\* Dispose takes the lock and keeps it during the call of DeletePort.
DisposeLocks ==
  /\ factoryLock = "free"
  /\ factoryLock' = "held"
  /\ UNCHANGED <<ports, created, orphans>>

DisposeReturns(r) ==
  /\ ports' = ports \ {r}
  /\ factoryLock' = "free"
  /\ UNCHANGED <<created, orphans>>

\* The error return comes before f.Unlock: the lock is never released.
DisposeFails(r) ==
  /\ \/ "delete" \in Faults /\ UNCHANGED ports
     \/ "lost" \in Faults /\ ports' = ports \ {r}
  /\ UNCHANGED <<created, orphans, factoryLock>>
=============================================================================
