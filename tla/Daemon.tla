------------------------------- MODULE Daemon -------------------------------
(***************************************************************************)
(* The daemon of one node (pkg/daemon/daemon.go) between the CNI plugin    *)
(* that calls it for the kubelet (cmd/cni/rubble.go) and its two stores:   *)
(* the port pool (PortPool, which PortManager implements) and the database *)
(* of pods and their ports (DiskStorage).                                  *)
(*                                                                         *)
(* The handlers of AllocateIP and ReleaseIP run concurrently; the kubelet  *)
(* waits for the plugin and has one request of a pod under way at a time.  *)
(* Faults names what else may go wrong:                                    *)
(*   "ctx"    ReleaseIP is done but answers with the error of its context; *)
(*   "repeat" DEL is called again for a pod that was deleted;              *)
(*   "db"     a transaction of the database fails;                         *)
(*   "crash"  the daemon stops at any point and starts again.              *)
(* A failing GetPod, a failing allocation and a failing ADD after the      *)
(* allocation are part of every run.  A bounded number of times the plugin *)
(* does not wait for the end of a handler, which goes on while the kubelet *)
(* calls again.                                                            *)
(***************************************************************************)
EXTENDS Integers

CONSTANTS Pods,          \* namespace/name of the pods of this node
          Res, InitialPorts,
          None,          \* no port
          Handlers,      \* goroutines of the gRPC server
          Faults,
          Scenarios      \* which pods are of a StatefulSet, or annotated; bound
                         \* on how often the plugin gives up

ASSUME DaemonAssumption ==
  /\ InitialPorts \subseteq Res
  /\ None \notin Res \cup Pods
  /\ \A s \in Scenarios : s.sticky \subseteq Pods /\ s.giveUps \in Nat
  /\ Faults \subseteq {"ctx", "repeat", "db", "crash"}

VARIABLES
  ports, created, idle, inuse,   \* the pool
  disk, memory, todo, raced,     \* resourceDB: the port of each pod
  pc, pod, port,                 \* the handlers: where, for whom, with which port
  sticky,                        \* the pods with an IpStickTime (convertPod)
  life,                          \* what the kubelet knows of a pod's network
  holds,                         \* the port a running pod was set up with
  late, giveUps,                 \* the handlers nobody waits for; how many to come
  strays,                        \* history: ports in use whose record was not
                                 \* written, or was overwritten or deleted
  crossed,                       \* history: pods with two requests at a time
  stale                          \* history: ports of crossed pods, and ports
                                 \* whose record outlived their release, or
                                 \* which a restart did not find

Pool == INSTANCE PortPool
Store == INSTANCE DiskStorage
           WITH Keys <- Pods, Values <- Res, NoValue <- None, Clients <- Handlers

poolVars == <<ports, created, idle, inuse>>
storeVars == <<disk, memory, todo, raced>>
handlerVars == <<pc, pod, port, late, giveUps>>
kubeletVars == <<life, holds>>
vars == <<poolVars, storeVars, handlerVars, kubeletVars, sticky, strays, crossed, stale>>

HandlerPC == {"free", "add", "allocate", "put", "putMemory", "addReply",
              "del", "release", "delete", "deleteMemory", "delReply"}

TypeOK ==
  /\ created \subseteq Res /\ ports \subseteq created
  /\ idle \subseteq Res /\ inuse \subseteq Res
  /\ Store!StoreTypeOK
  /\ pc \in [Handlers -> HandlerPC]
  /\ pod \in [Handlers -> Pods \cup {None}]
  /\ port \in [Handlers -> Res \cup {None}]
  /\ life \in [Pods -> {"down", "busy", "up", "broken"}]
  /\ holds \in [Pods -> Res \cup {None}]
  /\ late \subseteq Handlers /\ giveUps \in Nat
  /\ sticky \subseteq Pods /\ crossed \subseteq Pods
  /\ strays \subseteq inuse /\ stale \subseteq Res

\* Mutant of PoolStarts: the ports without a record are taken to be in use too.
PoolStartsAllInUse ==
  /\ inuse' = ports /\ idle' = {}
  /\ UNCHANGED <<ports, created>>

\* The ports that the pool finds in Neutron at a start are in use if the
\* database has them (getPortsMapping) and idle otherwise (Initializer).  It
\* finds those that carry the tag of this node, on the last page of the list.
PoolStarts ==
  /\ \E found \in SUBSET ports :
       /\ inuse' = found \cap {disk[p] : p \in Pods}
       /\ idle' = found \ {disk[p] : p \in Pods}
  /\ UNCHANGED <<ports, created>>

\* convertPod: a pod with the annotation, or of a StatefulSet, has an
\* IpStickTime.  Every request of the pod finds the same.
ConvertPod(scenario) == sticky = scenario.sticky

\* The first start: nothing in the database.
Init ==
  /\ ports = InitialPorts /\ created = InitialPorts
  /\ idle = InitialPorts /\ inuse = {}
  /\ Store!StoreInit
  /\ disk = [p \in Pods |-> None]
  /\ pc = [h \in Handlers |-> "free"]
  /\ pod = [h \in Handlers |-> None]
  /\ port = [h \in Handlers |-> None]
  /\ \E s \in Scenarios : ConvertPod(s) /\ giveUps = s.giveUps
  /\ life = [p \in Pods |-> "down"]
  /\ holds = [p \in Pods |-> None]
  /\ late = {} /\ strays = {} /\ crossed = {} /\ stale = {}
-----------------------------------------------------------------------------
\* The handler goes on to the label "to" with port r at hand.
Goto(h, to, r) ==
  /\ pc' = [pc EXCEPT ![h] = to]
  /\ port' = [port EXCEPT ![h] = r]
  /\ UNCHANGED <<pod, late, giveUps>>

\* The handler returns; the kubelet takes note of the result if the plugin
\* still waits for it.
Answer(h, result) ==
  /\ pc' = [pc EXCEPT ![h] = "free"]
  /\ pod' = [pod EXCEPT ![h] = None]
  /\ port' = [port EXCEPT ![h] = None]
  /\ life' = IF h \in late THEN life ELSE [life EXCEPT ![pod[h]] = result]
  /\ late' = late \ {h}
  /\ UNCHANGED giveUps

\* A request of pod p reaches a handler.
Call(h, p, label, doing) ==
  /\ pc[h] = "free"
  /\ pc' = [pc EXCEPT ![h] = label]
  /\ pod' = [pod EXCEPT ![h] = p]
  /\ life' = [life EXCEPT ![p] = doing]
  /\ UNCHANGED <<port, late, giveUps, poolVars, storeVars>>

\* cmdAdd calls AllocateIP; the kubelet adds a pod that is down.
CmdAdd(h, p) ==
  /\ life[p] = "down"
  /\ Call(h, p, "add", "busy")
  /\ UNCHANGED holds

\* cmdDel removes the pod's devices, then calls ReleaseIP.  The kubelet
\* deletes what it added, and repeats a DEL that failed.
CmdDel(h, p) ==
  /\ life[p] \in {"up", "broken"} \/ ("repeat" \in Faults /\ life[p] = "down")
  /\ Call(h, p, "del", "busy")
  /\ holds' = [holds EXCEPT ![p] = None]

\* DefaultCniTimeout: the plugin returns an error.
GiveUp(h) ==
  /\ pc[h] # "free" /\ h \notin late
  /\ giveUps > 0
  /\ giveUps' = giveUps - 1
  /\ late' = late \cup {h}
  /\ life' = [life EXCEPT ![pod[h]] = "broken"]
  /\ UNCHANGED <<pc, pod, port, poolVars, storeVars, holds>>

\* Both handlers: k8s.GetPod failed.
GetPodFails(h) ==
  /\ pc[h] \in {"add", "del"}
  /\ Answer(h, "broken")
  /\ UNCHANGED <<poolVars, storeVars, holds>>

\* Both handlers: getPodResource, the pod's port according to the store.
GetPodResource(h) ==
  /\ pc[h] \in {"add", "del"}
  /\ Goto(h, IF pc[h] = "add" THEN "allocate" ELSE "release", memory[pod[h]])
  /\ UNCHANGED <<poolVars, storeVars, kubeletVars>>
-----------------------------------------------------------------------------
(* AllocateIP *)

\* Mutant of AllocatePort: the port stays idle.
AllocatePortPeeks(h) ==
  /\ pc[h] = "allocate"
  /\ \E r \in idle : inuse' = inuse \cup {r} /\ Goto(h, "put", r)
  /\ UNCHANGED <<ports, created, idle, storeVars, kubeletVars>>

\* Allocate prefers the old port; when it is not idle, any port will do: the
\* order of the idle queue is left open here.
AllocatePort(h) ==
  /\ pc[h] = "allocate"
  /\ \E r \in Res :
       /\ \/ Pool!AcquireIdle(r) /\ (port[h] \in idle => r = port[h])
          \/ Pool!AcquireNew(r)
       /\ Goto(h, "put", r)
  /\ UNCHANGED <<storeVars, kubeletVars>>

AllocateFails(h) ==
  /\ pc[h] = "allocate"
  /\ Answer(h, "broken")
  /\ UNCHANGED <<poolVars, storeVars, holds>>

PutRecord(h) ==
  /\ pc[h] = "put"
  /\ Store!Put(h, pod[h], port[h])
  /\ Goto(h, "putMemory", port[h])
  /\ UNCHANGED <<poolVars, kubeletVars>>

\* Mutant of PutFails: the error of the store is not returned.
PutFailsIgnored(h) ==
  /\ pc[h] = "put" /\ "db" \in Faults
  /\ Store!UpdateFails(h)
  /\ Goto(h, "addReply", port[h])
  /\ UNCHANGED <<poolVars, kubeletVars>>

\* The error return leaves the port in use.
PutFails(h) ==
  /\ pc[h] = "put" /\ "db" \in Faults
  /\ Store!UpdateFails(h)
  /\ Answer(h, "broken")
  /\ UNCHANGED <<poolVars, holds>>

PutMemory(h) ==
  /\ pc[h] = "putMemory"
  /\ Store!WriteMemory(h)
  /\ Goto(h, "addReply", port[h])
  /\ UNCHANGED <<poolVars, kubeletVars>>

\* The reply; the plugin sets up the pod's devices with it.
AddReply(h) ==
  /\ pc[h] = "addReply" /\ h \notin late
  /\ Answer(h, "up")
  /\ holds' = [holds EXCEPT ![pod[h]] = port[h]]
  /\ UNCHANGED <<poolVars, storeVars>>

\* NetConfFromPort failed, the context was done, or the plugin's set-up of
\* the devices failed.
AddReplyFails(h) ==
  /\ pc[h] = "addReply"
  /\ Answer(h, "broken")
  /\ UNCHANGED <<poolVars, storeVars, holds>>
-----------------------------------------------------------------------------
(* ReleaseIP *)

\* Mutant of AfterRelease: the record of no pod is deleted.
AfterReleaseKeeps(h) == "delReply"

\* What follows the release: the record of a sticky pod is kept.
AfterRelease(h) == IF pod[h] \in sticky THEN "delReply" ELSE "delete"

ReleasePort(h) ==
  /\ pc[h] = "release"
  /\ \/ port[h] # None /\ Pool!Release(port[h])
     \/ port[h] = None /\ UNCHANGED poolVars
  /\ Goto(h, AfterRelease(h), port[h])
  /\ UNCHANGED <<storeVars, kubeletVars>>

\* ErrInvalidState: the recorded port is not in use.
ReleaseInvalid(h) ==
  /\ pc[h] = "release" /\ port[h] \notin inuse \cup {None}
  /\ Answer(h, "broken")
  /\ UNCHANGED <<poolVars, storeVars, holds>>

DeleteRecord(h) ==
  /\ pc[h] = "delete"
  /\ Store!Delete(h, pod[h])
  /\ Goto(h, "deleteMemory", port[h])
  /\ UNCHANGED <<poolVars, kubeletVars>>

DeleteFails(h) ==
  /\ pc[h] = "delete" /\ "db" \in Faults
  /\ Store!UpdateFails(h)
  /\ Answer(h, "broken")
  /\ UNCHANGED <<poolVars, holds>>

DeleteMemory(h) ==
  /\ pc[h] = "deleteMemory"
  /\ Store!WriteMemory(h)
  /\ Goto(h, "delReply", port[h])
  /\ UNCHANGED <<poolVars, kubeletVars>>

DelReply(h) ==
  /\ pc[h] = "delReply"
  /\ \/ Answer(h, "down")
     \/ "ctx" \in Faults /\ Answer(h, "broken")
  /\ UNCHANGED <<poolVars, storeVars, holds>>
-----------------------------------------------------------------------------
\* The daemon stops and newDaemonServer runs again.  Requests under way fail.
Restart ==
  /\ "crash" \in Faults
  /\ Store!Restart
  /\ PoolStarts
  /\ pc' = [h \in Handlers |-> "free"]
  /\ pod' = [h \in Handlers |-> None]
  /\ port' = [h \in Handlers |-> None]
  /\ late' = {} /\ UNCHANGED giveUps
  /\ life' = [p \in Pods |-> IF life[p] = "busy" THEN "broken" ELSE life[p]]
  /\ UNCHANGED holds

\* The pool refills and empties its queue.
PoolMoves ==
  /\ \E r \in Res : Pool!Create(r) \/ Pool!AddIdle(r) \/ Pool!TakeOut(r) \/ Pool!Delete(r)
  /\ UNCHANGED <<storeVars, handlerVars, kubeletVars>>

Handle(h) ==
  \/ GetPodFails(h) \/ GetPodResource(h)
  \/ AllocatePort(h) \/ AllocateFails(h) \/ PutRecord(h) \/ PutMemory(h)
  \/ AddReply(h) \/ AddReplyFails(h)
  \/ ReleasePort(h) \/ ReleaseInvalid(h) \/ DeleteRecord(h) \/ DeleteFails(h)
  \/ DeleteMemory(h) \/ DelReply(h) \/ GiveUp(h)
-----------------------------------------------------------------------------
(* The history variables.  A step strays the ports in "more", and those in  *)
(* use whose record it overwrites or deletes, if the record is that of a    *)
(* sticky pod or of one with two requests at a time.                        *)

\* The step of h leaves the record of the port that it released.
Outlives(h) ==
  \/ pc[h] = "release" /\ pc'[h] = "delReply" /\ pod[h] \in sticky
  \/ pc[h] = "delete" /\ pc'[h] = "free"

History(more) ==
  /\ strays' = inuse' \cap
       (strays \cup more \cup
          {memory[p] : p \in {q \in sticky \cup crossed : memory'[q] # memory[q]}})
  /\ crossed' = crossed \cup
       {p \in Pods : \E h, g \in Handlers : h # g /\ pod'[h] = p /\ pod'[g] = p}
  /\ stale' = stale \cup
       (({port[h] : h \in {g \in Handlers : Outlives(g)}}
           \cup {port'[h] : h \in {g \in Handlers : pod'[g] \in crossed'}}
           \cup {memory'[p] : p \in crossed'} \cup {disk'[p] : p \in crossed'}) \ {None})
  /\ UNCHANGED sticky

\* A restart sorts the ports anew.
RestartHistory ==
  /\ strays' = {}
  /\ stale' = stale \cup ({port[h] : h \in {g \in Handlers : pc[g] = "delete"}} \ {None})
                   \cup ({disk[p] : p \in Pods} \ (inuse' \cup {None}))
  /\ UNCHANGED <<sticky, crossed>>

Next ==
  \/ \E h \in Handlers, p \in Pods : (CmdAdd(h, p) \/ CmdDel(h, p)) /\ History({})
  \/ \E h \in Handlers : \/ Handle(h) /\ History({})
                         \/ PutFails(h) /\ History({port[h]})
  \/ PoolMoves /\ History({})
  \/ Restart /\ RestartHistory

Spec == Init /\ [][Next]_vars
-----------------------------------------------------------------------------
(* Properties *)

\* The port that a running pod was set up with is in use in the pool, and no
\* other running pod has it: two pods never share an address, and the pool
\* does not delete the port under a pod.  The code does not keep this up for
\* the ports in stale, but the harm stays with them.
ExclusivePort ==
  \A p \in Pods : holds[p] \notin stale \cup {None} =>
    /\ holds[p] \in inuse
    /\ \A q \in Pods \ {p} : holds[q] # holds[p]

\* The database knows the port of every running pod, so that its release, and
\* a restart of the daemon, find it.  Requests of one pod that cross, of which
\* the later Put wins, do no harm to the records of the others.
RecordKept ==
  \A p \in Pods \ crossed : holds[p] # None => memory[p] = holds[p] /\ disk[p] = holds[p]

\* No port stays in use for nobody: some pod's record names it, or a handler
\* is about to write such a record.  The ports in strays are the exceptions:
\* the Put of their record failed; a sticky pod, added again after a restart,
\* was given another port while its old one counted as in use; or a late
\* request of a pod replaced or deleted the record of another.
NoPortForgotten ==
  \A r \in inuse \ strays :
    \/ \E p \in Pods : memory[p] = r
    \/ \E h \in Handlers : pc[h] \in {"put", "putMemory"} /\ port[h] = r

\* ipvlan.go:99: "Delete can be called multiple times": a DEL does not
\* release the port that another pod runs with.
DeleteHarmless ==
  [][\A h \in Handlers : pc[h] = "release" =>
       \A q \in Pods \ {pod[h]} : holds[q] \in inuse => holds[q] \in inuse']_vars

\* The port that the daemon keeps for p, seen from outside: a handler has it
\* at hand, or has given it back already, or the record names it.
LeaseOf(p) ==
  LET at(labels) == {h \in Handlers : pod[h] = p /\ pc[h] \in labels}
      adding == at({"put", "putMemory", "addReply"})
  IN IF adding # {} THEN port[CHOOSE h \in adding : TRUE]
     ELSE IF at({"delete", "deleteMemory"}) # {} THEN None
     ELSE memory[p]

leases == [p \in Pods |-> IF LeaseOf(p) \in stale THEN None ELSE LeaseOf(p)]

Abstract == INSTANCE Leases WITH Ports <- Res, lease <- leases

\* Through allocations, releases, failures and restarts the daemon does for
\* the plugin what Leases says, with the ports that are not stale: a port is
\* never granted twice, and a pod keeps its port, whatever happens to others
\* and over restarts, until it has a request under way itself.
ImplementsLeases ==
  [][Abstract!LeaseNext({pod[h] : h \in Handlers}, stale')]_leases
=============================================================================
