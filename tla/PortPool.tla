------------------------------ MODULE PortPool ------------------------------
(***************************************************************************)
(* What the daemon may count on of the port pool, without its queue, its   *)
(* tokens, its goroutine or its lock: ports are handed out and given back  *)
(* one at a time; a port in use is not handed out again and not deleted.   *)
(* ObjectPool and PortManager implement this specification; Daemon is      *)
(* written on top of it.                                                   *)
(***************************************************************************)
CONSTANT Res        \* port ids

VARIABLES ports,    \* ports that exist in Neutron
          created,  \* ids ever given out
          idle,     \* ports that can be handed out
          inuse     \* ports handed out

poolVars == <<ports, created, idle, inuse>>

\* A pool just started, on the ports it found in Neutron.
Init ==
  /\ created \subseteq Res /\ ports = created
  /\ idle \cup inuse \subseteq ports
  /\ idle \cap inuse = {}

\* Neutron makes a port; nobody has it yet.
Create(r) ==
  /\ r \in Res \ created
  /\ ports' = ports \cup {r}
  /\ created' = created \cup {r}
  /\ UNCHANGED <<idle, inuse>>

\* A port enters the queue, possibly as soon as it is made.
AddIdle(r) ==
  /\ r \in Res \ (idle \cup inuse)
  /\ idle' = idle \cup {r}
  /\ \/ r \in created /\ UNCHANGED <<ports, created>>
     \/ /\ r \notin created
        /\ ports' = ports \cup {r}
        /\ created' = created \cup {r}
  /\ UNCHANGED inuse

\* Acquire hands out a port of the queue, or one made for the caller.
AcquireIdle(r) ==
  /\ r \in idle
  /\ idle' = idle \ {r}
  /\ inuse' = inuse \cup {r}
  /\ UNCHANGED <<ports, created>>

AcquireNew(r) ==
  /\ r \in ports \ (idle \cup inuse)
  /\ inuse' = inuse \cup {r}
  /\ UNCHANGED <<ports, created, idle>>

Release(r) ==
  /\ r \in inuse
  /\ inuse' = inuse \ {r}
  /\ idle' = idle \cup {r}
  /\ UNCHANGED <<ports, created>>

\* checkIdle takes a port out of the queue, and only then deletes it.
TakeOut(r) ==
  /\ r \in idle
  /\ idle' = idle \ {r}
  /\ UNCHANGED <<ports, created, inuse>>

Delete(r) ==
  /\ r \in ports \ (idle \cup inuse)
  /\ ports' = ports \ {r}
  /\ UNCHANGED <<created, idle, inuse>>

Next ==
  \E r \in Res : \/ Create(r) \/ AddIdle(r) \/ AcquireIdle(r) \/ AcquireNew(r)
                 \/ Release(r) \/ TakeOut(r) \/ Delete(r)

Spec == Init /\ [][Next]_poolVars
=============================================================================
