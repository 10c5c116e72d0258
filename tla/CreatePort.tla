----------------------------- MODULE CreatePort -----------------------------
(***************************************************************************)
(* PortFactory.Create (pkg/ipam/port.go) request by request: CreatePort of *)
(* the Neutron client starts two goroutines that look up the subnet and    *)
(* the network, makes the port, and receives the two results; Create then  *)
(* tags the port, by which the next start of the daemon finds it.          *)
(*                                                                         *)
(* For the pool Create is one step, that of PortFactory.  Here a port      *)
(* exists in Neutron while nobody has it yet, any request may fail after   *)
(* it was done (the 60 s of the HTTP client), and the daemon may stop.     *)
(* The pool may dispose of older ports meanwhile, under the factory's lock.*)
(***************************************************************************)
EXTENDS PortFactory

CONSTANTS Calls,    \* calls of Create, each made once: a bound
          None      \* no port

ASSUME CreatePortAssumption == None \notin Res

VARIABLES
  pc, port,    \* each call: its next request or its end; the port it made
  look,        \* its goroutines, until somebody receives what they send
  tagged       \* the ports with the tag of this node

vars == <<factoryVars, pc, port, look, tagged>>

Lookups == {"subnet", "network"}
UnderWay == {"create", "subnet", "network", "cleanup", "tag", "append"}

TypeOK ==
  /\ ports \subseteq created /\ created \subseteq Res
  /\ factoryLock \in {"free", "held"}
  /\ pc \in [Calls -> UnderWay \cup {"new", "returned", "failed", "dead"}]
  /\ port \in [Calls -> Res \cup {None}]
  /\ look \in [Calls -> [Lookups -> {"none", "asking", "ok", "err"}]]
  /\ tagged \subseteq created /\ orphans \subseteq created

Init ==
  /\ ports = {} /\ created = {} /\ factoryLock = "free"
  /\ pc = [c \in Calls |-> "new"]
  /\ port = [c \in Calls |-> None]
  /\ look = [c \in Calls |-> [l \in Lookups |-> "none"]]
  /\ tagged = {} /\ orphans = {}
-----------------------------------------------------------------------------
Goto(c, label) == pc' = [pc EXCEPT ![c] = label]

\* Neutron makes port r for the call.
Made(c, r) ==
  /\ ports' = ports \cup {r}
  /\ created' = created \cup {r}
  /\ port' = [port EXCEPT ![c] = r]

\* The call ends with an error; its port may stay, and nobody is told of it.
EndsUnclean(c, r) ==
  /\ Goto(c, "failed")
  /\ orphans' = orphans \cup {r}

\* getSubnetAsync and getNetworkAsync.
Start(c) ==
  /\ pc[c] = "new"
  /\ Goto(c, "create")
  /\ look' = [look EXCEPT ![c] = [l \in Lookups |-> "asking"]]
  /\ UNCHANGED <<factoryVars, port, tagged>>

\* Mutant of LookupEnds: on an error the goroutine ends without a send.
LookupDropsError(c, l) ==
  /\ look[c][l] = "asking"
  /\ \E answer \in {"ok", "none"} : look' = [look EXCEPT ![c][l] = answer]
  /\ UNCHANGED <<factoryVars, pc, port, tagged>>

\* The goroutine has its answer and blocks in the send of the value or of the
\* error: neither channel has a buffer.
LookupEnds(c, l) ==
  /\ look[c][l] = "asking"
  /\ \E answer \in {"ok", "err"} : look' = [look EXCEPT ![c][l] = answer]
  /\ UNCHANGED <<factoryVars, pc, port, tagged>>

PortsCreate(c) ==
  /\ pc[c] = "create"
  /\ \E r \in Creatable : Made(c, r)
  /\ Goto(c, "subnet")
  /\ UNCHANGED <<factoryLock, look, tagged, orphans>>

\* The error return receives from neither goroutine.
PortsCreateFails(c) ==
  /\ pc[c] = "create"
  /\ \/ Goto(c, "failed") /\ UNCHANGED <<ports, created, port, orphans>>
     \/ \E r \in Creatable : Made(c, r) /\ EndsUnclean(c, r)
  /\ UNCHANGED <<factoryLock, look, tagged>>

\* Mutant of Receive: an error of the lookup does not delete the port.
ReceiveNoCleanUp(c, l, next) ==
  /\ pc[c] = l /\ look[c][l] \in {"ok", "err"}
  /\ look' = [look EXCEPT ![c][l] = "none"]
  /\ Goto(c, IF look[c][l] = "ok" THEN next ELSE "failed")
  /\ UNCHANGED <<factoryVars, port, tagged>>

\* sbRes and netRes: an error returns, and the deferred DeletePort runs.  The
\* network lookup is not received after an error of the subnet's.
Receive(c, l, next) ==
  /\ pc[c] = l /\ look[c][l] \in {"ok", "err"}
  /\ look' = [look EXCEPT ![c][l] = "none"]
  /\ Goto(c, IF look[c][l] = "ok" THEN next ELSE "cleanup")
  /\ UNCHANGED <<factoryVars, port, tagged>>

\* Mutant of CleanUp: the call returns before the DeletePort.
CleanUpLater(c) ==
  /\ \/ pc[c] = "cleanup" /\ EndsUnclean(c, port[c]) /\ UNCHANGED ports
     \/ pc[c] = "failed" /\ ports' = ports \ {port[c]} /\ UNCHANGED <<pc, orphans>>
  /\ UNCHANGED <<created, factoryLock, port, look, tagged>>

\* Nobody looks at the result of this DeletePort.
CleanUp(c) ==
  /\ pc[c] = "cleanup"
  /\ \/ /\ ports' = ports \ {port[c]}
        /\ Goto(c, "failed") /\ UNCHANGED orphans
     \/ EndsUnclean(c, port[c]) /\ UNCHANGED ports
  /\ UNCHANGED <<created, factoryLock, port, look, tagged>>

AddTag(c) ==
  /\ pc[c] = "tag"
  /\ tagged' = tagged \cup {port[c]}
  /\ Goto(c, "append")
  /\ UNCHANGED <<factoryVars, port, look>>

\* Mutant of AddTagFails: the error is not returned.
AddTagFailsIgnored(c) ==
  /\ pc[c] = "tag"
  /\ Goto(c, "append")
  /\ UNCHANGED <<factoryVars, port, look, tagged>>

\* Create returns the error and leaves the port.
AddTagFails(c) ==
  /\ pc[c] = "tag"
  /\ tagged' \in {tagged, tagged \cup {port[c]}}
  /\ EndsUnclean(c, port[c])
  /\ UNCHANGED <<ports, created, factoryLock, port, look>>

\* Waits for a Dispose that has the lock.
Append(c) ==
  /\ pc[c] = "append"
  /\ AppendPort
  /\ Goto(c, "returned")
  /\ UNCHANGED <<port, look, tagged>>

\* The daemon stops, with its goroutines; other calls are made after a start.
Crash ==
  LET dead == {c \in Calls : pc[c] \in UnderWay}
  IN /\ dead # {}
     /\ pc' = [c \in Calls |-> IF c \in dead THEN "dead" ELSE pc[c]]
     /\ look' = [c \in Calls |-> [l \in Lookups |-> "none"]]
     /\ orphans' = orphans \cup ({port[c] : c \in dead} \ {None})
     /\ factoryLock' = "free"
     /\ UNCHANGED <<ports, created, port, tagged>>

\* The pool disposes of a port that is none of these calls'.  If DeletePort
\* fails the end does not come, and the lock is held until the daemon stops.
DisposeStarts == DisposeLocks /\ UNCHANGED <<pc, port, look, tagged>>

DisposeEnds ==
  /\ factoryLock = "held"
  /\ factoryLock' = "free"
  /\ UNCHANGED <<ports, created, orphans, pc, port, look, tagged>>
-----------------------------------------------------------------------------
Step(c) ==
  \/ PortsCreate(c) \/ PortsCreateFails(c)
  \/ Receive(c, "subnet", "network") \/ Receive(c, "network", "tag")
  \/ CleanUp(c) \/ AddTag(c) \/ AddTagFails(c) \/ Append(c)

Next ==
  \/ \E c \in Calls : Start(c) \/ Step(c) \/ (\E l \in Lookups : LookupEnds(c, l))
  \/ Crash \/ DisposeStarts \/ DisposeEnds

Spec == Init /\ [][Next]_vars

\* Requests and lookups end: the HTTP client has a timeout.  A goroutine that
\* waits for a mutex is not passed over for ever.
FairSpec ==
  /\ Spec
  /\ \A c \in Calls : /\ WF_vars(Step(c)) /\ SF_vars(Append(c))
                       /\ \A l \in Lookups : WF_vars(LookupEnds(c, l))
-----------------------------------------------------------------------------
(* Properties *)

\* The port of a call that succeeded exists and has its tag, and no other call
\* has it; the call has received both lookups and leaves no goroutine blocked.
ReturnedIsComplete ==
  \A c \in Calls : pc[c] = "returned" =>
    /\ port[c] \in ports \cap tagged
    /\ \A d \in Calls \ {c} : port[d] # port[c]
    /\ \A l \in Lookups : look[c][l] = "none"

\* A port that no restart would find is one of a call that is under way, or of
\* one that ended with a request that failed: that of CreatePort itself, its
\* clean-up or AddTag.  A failing lookup alone leaves no port behind.
OrphansExplained ==
  ports \ tagged \subseteq orphans \cup {port[c] : c \in {d \in Calls : pc[d] \in UnderWay}}

\* Every call returns: each of the two goroutines sends, the value or the
\* error, whatever the other one does; and the lock, if every Dispose gives it
\* back (the one that fails does not, port.go:95), is had in the end.
CallReturns ==
  []<>(factoryLock = "free") =>
    \A c \in Calls : pc[c] = "create" ~> pc[c] \in {"returned", "failed", "dead"}

\* The ports of the calls that have ended, as the pool sees them.
Settled == ports \cap {port[c] : c \in {d \in Calls : pc[d] \in {"append", "returned", "failed"}}}

\* Those of them that no call has returned.
Lost == Settled \cap orphans

Factory == INSTANCE PortFactory
             WITH ports <- Settled, created <- Settled, orphans <- Lost

\* Seen from the pool a call is the one step that PortFactory has for it: a
\* port that is returned, or a failure, that may leave an orphan or nothing.
\* A crash takes the pool with it.
ImplementsFactory ==
  [][\/ Factory!CreateFails(Factory!Creatable)
     \/ \E r \in Res : Factory!CreateReturns(r)
     \/ Crash]_<<Settled, Lost>>
=============================================================================
