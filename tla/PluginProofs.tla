---------------------------- MODULE PluginProofs ----------------------------
(***************************************************************************)
(* Proofs about Plugin, for any number of pods, ports and failures.        *)
(*                                                                         *)
(* What the properties say of a pod that is up or down is the end of a     *)
(* story that PodInv tells step by step: what ADD has made so far, what    *)
(* DEL has left, and that an address or a route in the kernel is always    *)
(* one of the port that the daemon still keeps for the pod.  With the      *)
(* leases of different pods different, the properties follow.              *)
(***************************************************************************)
EXTENDS Plugin, TLAPS

\* The host has no route to the pod.
NoRoute(p) == \A r \in Ports : hostRoute[r] # p

\* A call of the plugin runs, or the runtime has its result.
LifeInv(p) ==
  /\ life[p] = "busy" <=> pc[p] # "idle"
  /\ ns[p] = "none" => life[p] = "down" /\ net[p] = {}

\* The kernel knows only the port that the daemon keeps for the pod; the route
\* of the host is there only with the pair.
KernelInv(p) ==
  /\ addr[p] # None => addr[p] = lease[p]
  /\ \A r \in Ports : hostRoute[r] = p => r = lease[p] /\ "veth0" \in net[p]

\* How far ADD has come.
AddInv(p) ==
  /\ pc[p] \in {"dialAdd", "inAllocate"} => lease[p] = None
  /\ pc[p] \in {"dialAdd", "inAllocate", "ipvlan"} => net[p] = {} /\ addr[p] = None
  /\ pc[p] \in {"ipvlan", "configure", "veth", "hostVeth"} =>
       lease[p] # None /\ conf[p] = lease[p]
  /\ pc[p] = "configure" => net[p] = {"eth0"} /\ addr[p] = None
  /\ pc[p] = "veth" => net[p] = OfEth0 /\ addr[p] = lease[p]
  /\ pc[p] = "hostVeth" => net[p] = Things \ {"tmp"} /\ addr[p] = lease[p]
  /\ pc[p] \in AddPC => NoRoute(p)

\* How far DEL has come.
DelInv(p) ==
  /\ pc[p] \in {"ipvlanOpen", "ipvlanDel"} => net[p] \cap OfVeth0 = {}
  /\ pc[p] \in {"dialDel", "inRelease"} => net[p] \subseteq {"tmp"} /\ addr[p] = None

\* What the runtime was told.
UpInv(p) == life[p] = "up" /\ ns[p] = "there" =>
  /\ net[p] = Things \ {"tmp"}
  /\ lease[p] # None /\ addr[p] = lease[p] /\ hostRoute[lease[p]] = p

DownInv(p) == life[p] = "down" =>
  lease[p] = None /\ addr[p] = None /\ net[p] \subseteq {"tmp"}

PodInv(p) == LifeInv(p) /\ KernelInv(p) /\ AddInv(p) /\ DelInv(p) /\ UpInv(p) /\ DownInv(p)

\* The daemon keeps different ports for different pods.
LeasesDiffer == \A p, q \in Pods : p # q /\ lease[p] # None => lease[p] # lease[q]

IInv == TypeOK /\ LeasesDiffer /\ \A p \in Pods : PodInv(p)
-----------------------------------------------------------------------------
Act(p) ==
  \/ Call(p) \/ AllocateIP(p) \/ ReleaseIP(p) \/ CallFails(p)
  \/ CreateIPVlan(p) \/ ConfigureIface(p) \/ SetupContainerVeth(p) \/ SetupHostVeth(p)
  \/ OpenNetns(p, "ptpOpen", "ptpDel") \/ DelLink(p, "ptpDel", OfVeth0, "ipvlanOpen")
  \/ OpenNetns(p, "ipvlanOpen", "ipvlanDel") \/ DelLink(p, "ipvlanDel", OfEth0, "dialDel")
  \/ RunSandbox(p) \/ StopSandbox(p) \/ RemoveNetns(p) \/ NetnsGone(p)

Aside(p) == LateEnds(p) \/ PodLeaves(p) \/ PodReturns(p)

\* A step is one of the server's, or one action for one pod, or one aside of
\* what the plugin does.
LEMMA NextSplit == Next => ServerStep \/ (\E p \in Pods : Act(p)) \/ (\E p \in Pods : Aside(p))
  BY Zenon DEF Next, Act, Aside, PluginStep, IPVlanSetup, PtpSetup, PtpTearDown, IPVlanTearDown

\* A pod has the same state as before.
Same(q) ==
  /\ lease'[q] = lease[q] /\ life'[q] = life[q] /\ ns'[q] = ns[q]
  /\ pc'[q] = pc[q] /\ conf'[q] = conf[q] /\ net'[q] = net[q] /\ addr'[q] = addr[q]
  /\ \A r \in Ports : hostRoute'[r] = q <=> hostRoute[r] = q
-----------------------------------------------------------------------------
(* Type correctness *)

LEMMA TypeInit == Init => TypeOK
  BY PluginAssumption DEF Init, TypeOK, ServerInit, ServerTypeOK

\* Drop keeps the types of what it changes.
LEMMA DropType ==
  ASSUME TypeOK, NEW p \in Pods, NEW things, Drop(p, things)
  PROVE  /\ net' \in [Pods -> SUBSET Things]
         /\ addr' \in [Pods -> Ports \cup {None}]
         /\ hostRoute' \in [Ports -> Pods \cup {None}]
  BY DEF TypeOK, Drop

LEMMA ExitType ==
  ASSUME TypeOK, NEW p \in Pods, NEW result \in {"down", "busy", "up", "broken"},
         Exit(p, result)
  PROVE  /\ life' \in [Pods -> {"down", "busy", "up", "broken"}]
         /\ ns' \in [Pods -> {"none", "there", "gone"}]
         /\ pc' \in [Pods -> AddPC \cup DelPC \cup {"idle"}]
         /\ conf' \in [Pods -> Ports \cup {None}]
  BY DEF TypeOK, Exit

LEMMA FailureType == TypeOK /\ Failure => failures' \in 0..MaxFailures
  BY PluginAssumption DEF TypeOK, Failure

LEMMA ServerType ==
  ASSUME TypeOK, ServerStep
  PROVE  TypeOK'
<1>1. ServerTypeOK'
  BY DEF TypeOK, ServerStep, ServerTypeOK, ServerFails, ServerWorks, ServerStarts, StartFails,
         ServeFails, Signal, LosesLock, Listen, StartDone, Stopped, Dies
<1>2. failures' \in 0..MaxFailures
  BY FailureType DEF TypeOK, ServerStep, ServerFails, ServerWorks
<1>3. late' \subseteq Pods
  BY DEF TypeOK, ServerStep, ServerFails, ServerWorks, ServerStarts, StartFails,
         ServeFails, Signal, LosesLock, Listen, StartDone, Stopped, Dies
<1>4. record' \in [Pods -> {"none", "inuse", "spent"}]
  BY DEF TypeOK, ServerStep, ServerFails, ServerWorks, ServerStarts, RecordsFound
<1> QED
  BY <1>1, <1>2, <1>3, <1>4 DEF TypeOK, ServerStep, runtimeVars, pluginVars, kernelVars

LEMMA AsideType ==
  ASSUME TypeOK, NEW p \in Pods, Aside(p)
  PROVE  TypeOK'
<1> USE FailureType
    DEF TypeOK, ServerTypeOK, serverVars, daemonVars, runtimeVars, pluginVars, kernelVars
<1>1. CASE LateEnds(p)
  BY <1>1 DEF LateEnds
<1>2. CASE PodLeaves(p)
  BY <1>2 DEF PodLeaves
<1>3. CASE PodReturns(p)
  BY <1>3 DEF PodReturns
<1> QED
  BY <1>1, <1>2, <1>3 DEF Aside

LEMMA TypeStep ==
  ASSUME TypeOK, NEW p \in Pods, Act(p)
  PROVE  TypeOK'
<1> USE FailureType DEF TypeOK, ServerTypeOK, serverVars, daemonVars, runtimeVars, pluginVars, kernelVars
<1>1. CASE Call(p)
  BY <1>1 DEF Call, Calls, Goto, AddPC, DelPC
<1>2. CASE AllocateIP(p)
  BY <1>2 DEF AllocateIP, Grant, Goto, Exit, AddPC
<1>3. CASE ReleaseIP(p)
  BY <1>3 DEF ReleaseIP, GiveBack, Exit
<1>4. CASE CallFails(p)
  BY <1>4 DEF CallFails, OutOfTime, Exit
<1>5. CASE CreateIPVlan(p)
  BY <1>5 DEF CreateIPVlan, Adds, Goto, Exit, AddPC, DelPC, Things, OfVeth0, OfEth0
<1>6. CASE ConfigureIface(p)
  BY <1>6 DEF ConfigureIface, Adds, Goto, Exit, AddPC, DelPC, Things, OfVeth0, OfEth0
<1>7. CASE SetupContainerVeth(p)
  BY <1>7 DEF SetupContainerVeth, Adds, Goto, Exit, AddPC, DelPC, Things, OfVeth0, OfEth0
<1>8. CASE SetupHostVeth(p)
  BY <1>8 DEF SetupHostVeth, Exit
<1>9. CASE OpenNetns(p, "ptpOpen", "ptpDel")
  BY <1>9 DEF OpenNetns, Goto, Exit, AddPC, DelPC
<1>10. CASE DelLink(p, "ptpDel", OfVeth0, "ipvlanOpen")
  BY <1>10 DEF DelLink, Drop, Goto, Exit, AddPC, DelPC
<1>11. CASE OpenNetns(p, "ipvlanOpen", "ipvlanDel")
  BY <1>11 DEF OpenNetns, Goto, Exit, AddPC, DelPC
<1>12. CASE DelLink(p, "ipvlanDel", OfEth0, "dialDel")
  BY <1>12 DEF DelLink, Drop, Goto, Exit, AddPC, DelPC
<1>13. CASE RunSandbox(p)
  BY <1>13 DEF RunSandbox, Goto, AddPC, DelPC
<1>14. CASE StopSandbox(p)
  BY <1>14 DEF StopSandbox, Goto, AddPC, DelPC
<1>15. CASE RemoveNetns(p)
  BY <1>15 DEF RemoveNetns, Drop
<1>16. CASE NetnsGone(p)
  BY <1>16 DEF NetnsGone, Drop
<1> QED
  BY <1>1, <1>2, <1>3, <1>4, <1>5, <1>6, <1>7, <1>8,
     <1>9, <1>10, <1>11, <1>12, <1>13, <1>14, <1>15, <1>16 DEF Act
-----------------------------------------------------------------------------
(* What one pod's step leaves alone *)

LEMMA OthersSame ==
  ASSUME TypeOK, NEW p \in Pods, Act(p), NEW q \in Pods, q # p
  PROVE  Same(q)
<1> USE PluginAssumption DEF TypeOK, Same, serverVars, daemonVars, runtimeVars, pluginVars, kernelVars
<1>1. CASE Call(p)
  BY <1>1 DEF Call, Calls, Goto, AddPC, DelPC
<1>2. CASE AllocateIP(p)
  BY <1>2 DEF AllocateIP, Grant, Goto, Exit, AddPC
<1>3. CASE ReleaseIP(p)
  BY <1>3 DEF ReleaseIP, GiveBack, Exit
<1>4. CASE CallFails(p)
  BY <1>4 DEF CallFails, OutOfTime, Exit
<1>5. CASE CreateIPVlan(p)
  BY <1>5 DEF CreateIPVlan, Adds, Goto, Exit
<1>6. CASE ConfigureIface(p)
  BY <1>6 DEF ConfigureIface, Adds, Goto, Exit
<1>7. CASE SetupContainerVeth(p)
  BY <1>7 DEF SetupContainerVeth, Adds, Goto, Exit
<1>8. CASE SetupHostVeth(p)
  BY <1>8 DEF SetupHostVeth, Exit
<1>9. CASE OpenNetns(p, "ptpOpen", "ptpDel")
  BY <1>9 DEF OpenNetns, Goto, Exit
<1>10. CASE DelLink(p, "ptpDel", OfVeth0, "ipvlanOpen")
  BY <1>10 DEF DelLink, Drop, Goto, Exit
<1>11. CASE OpenNetns(p, "ipvlanOpen", "ipvlanDel")
  BY <1>11 DEF OpenNetns, Goto, Exit
<1>12. CASE DelLink(p, "ipvlanDel", OfEth0, "dialDel")
  BY <1>12 DEF DelLink, Drop, Goto, Exit
<1>13. CASE RunSandbox(p)
  BY <1>13 DEF RunSandbox, Goto
<1>14. CASE StopSandbox(p)
  BY <1>14 DEF StopSandbox, Goto
<1>15. CASE RemoveNetns(p)
  BY <1>15 DEF RemoveNetns, Drop
<1>16. CASE NetnsGone(p)
  BY <1>16 DEF NetnsGone, Drop
<1> QED
  BY <1>1, <1>2, <1>3, <1>4, <1>5, <1>6, <1>7, <1>8,
     <1>9, <1>10, <1>11, <1>12, <1>13, <1>14, <1>15, <1>16 DEF Act

\* A pod that a step leaves alone keeps its invariant.
LEMMA SameKeeps ==
  ASSUME TypeOK, TypeOK', NEW q \in Pods, PodInv(q), Same(q)
  PROVE  PodInv(q)'
<1> USE DEF TypeOK, PodInv, Same
<1>1. NoRoute(q) <=> NoRoute(q)'
  BY DEF NoRoute
<1>2. LifeInv(q)' /\ DownInv(q)'
  BY DEF LifeInv, DownInv
<1>3. KernelInv(q)'
  BY DEF KernelInv
<1>4. AddInv(q)'
  BY <1>1 DEF AddInv
<1>5. DelInv(q)'
  BY DEF DelInv
<1>6. UpInv(q)'
  BY PluginAssumption DEF UpInv
<1> QED
  BY <1>2, <1>3, <1>4, <1>5, <1>6
-----------------------------------------------------------------------------
(* What a step does to its own pod *)

LEMMA OwnStep ==
  ASSUME IInv, TypeOK', NEW p \in Pods, Act(p)
  PROVE  PodInv(p)'
<1>0. TypeOK /\ PodInv(p)
  BY DEF IInv
<1> USE <1>0, PluginAssumption
    DEF TypeOK, PodInv, LifeInv, KernelInv, AddInv, DelInv, UpInv, DownInv, NoRoute,
        serverVars, daemonVars, runtimeVars, pluginVars, kernelVars,
        AddPC, DelPC, Things, OfVeth0, OfEth0
<1>1. CASE Call(p)
  BY <1>1 DEF Call, Calls, Goto
<1>2. CASE AllocateIP(p)
  BY <1>2 DEF AllocateIP, Grant, Goto, Exit
<1>3. CASE ReleaseIP(p)
  BY <1>3 DEF ReleaseIP, GiveBack, Exit
<1>4. CASE CallFails(p)
  BY <1>4 DEF CallFails, OutOfTime, Exit
<1>5. CASE CreateIPVlan(p)
  BY <1>5 DEF CreateIPVlan, Adds, Goto, Exit
<1>6. CASE ConfigureIface(p)
  BY <1>6 DEF ConfigureIface, Adds, Goto, Exit
<1>7. CASE SetupContainerVeth(p)
  BY <1>7 DEF SetupContainerVeth, Adds, Goto, Exit
<1>8. CASE SetupHostVeth(p)
  BY <1>8 DEF SetupHostVeth, Exit
<1>9. CASE OpenNetns(p, "ptpOpen", "ptpDel")
  BY <1>9 DEF OpenNetns, Goto, Exit
<1>10. CASE DelLink(p, "ptpDel", OfVeth0, "ipvlanOpen")
  BY <1>10 DEF DelLink, Drop, Goto, Exit
<1>11. CASE OpenNetns(p, "ipvlanOpen", "ipvlanDel")
  BY <1>11 DEF OpenNetns, Goto, Exit
<1>12. CASE DelLink(p, "ipvlanDel", OfEth0, "dialDel")
  BY <1>12 DEF DelLink, Drop, Goto, Exit
<1>13. CASE RunSandbox(p)
  BY <1>13 DEF RunSandbox, Goto
<1>14. CASE StopSandbox(p)
  BY <1>14 DEF StopSandbox, Goto
<1>15. CASE RemoveNetns(p)
  BY <1>15 DEF RemoveNetns, Drop
<1>16. CASE NetnsGone(p)
  BY <1>16 DEF NetnsGone, Drop
<1> QED
  BY <1>1, <1>2, <1>3, <1>4, <1>5, <1>6, <1>7, <1>8,
     <1>9, <1>10, <1>11, <1>12, <1>13, <1>14, <1>15, <1>16 DEF Act

LEMMA LeasesStep ==
  ASSUME IInv, NEW p \in Pods, Act(p)
  PROVE  LeasesDiffer'
<1> USE PluginAssumption
    DEF IInv, TypeOK, LeasesDiffer, serverVars, daemonVars, runtimeVars, pluginVars, kernelVars
<1>1. CASE Call(p)
  BY <1>1 DEF Call
<1>2. CASE AllocateIP(p)
  BY <1>2 DEF AllocateIP, Grant, Goto, Exit
<1>3. CASE ReleaseIP(p)
  BY <1>3 DEF ReleaseIP, GiveBack, Exit
<1>4. CASE CallFails(p)
  BY <1>4 DEF CallFails, OutOfTime, Exit
<1>5. CASE CreateIPVlan(p)
  BY <1>5 DEF CreateIPVlan, Adds, Goto, Exit
<1>6. CASE ConfigureIface(p)
  BY <1>6 DEF ConfigureIface, Adds, Goto, Exit
<1>7. CASE SetupContainerVeth(p)
  BY <1>7 DEF SetupContainerVeth, Adds, Goto, Exit
<1>8. CASE SetupHostVeth(p)
  BY <1>8 DEF SetupHostVeth, Exit
<1>9. CASE OpenNetns(p, "ptpOpen", "ptpDel")
  BY <1>9 DEF OpenNetns, Goto, Exit
<1>10. CASE DelLink(p, "ptpDel", OfVeth0, "ipvlanOpen")
  BY <1>10 DEF DelLink, Drop, Goto, Exit
<1>11. CASE OpenNetns(p, "ipvlanOpen", "ipvlanDel")
  BY <1>11 DEF OpenNetns, Goto, Exit
<1>12. CASE DelLink(p, "ipvlanDel", OfEth0, "dialDel")
  BY <1>12 DEF DelLink, Drop, Goto, Exit
<1>13. CASE RunSandbox(p)
  BY <1>13 DEF RunSandbox, Goto
<1>14. CASE StopSandbox(p)
  BY <1>14 DEF StopSandbox, Goto
<1>15. CASE RemoveNetns(p)
  BY <1>15 DEF RemoveNetns, Drop
<1>16. CASE NetnsGone(p)
  BY <1>16 DEF NetnsGone, Drop
<1> QED
  BY <1>1, <1>2, <1>3, <1>4, <1>5, <1>6, <1>7, <1>8,
     <1>9, <1>10, <1>11, <1>12, <1>13, <1>14, <1>15, <1>16 DEF Act
-----------------------------------------------------------------------------
(* The invariant and the theorems *)

LEMMA InvInit == Init => IInv
<1> SUFFICES ASSUME Init PROVE IInv
  OBVIOUS
<1>1. TypeOK
  BY TypeInit
<1>2. \A p \in Pods : PodInv(p)
  BY PluginAssumption
     DEF Init, PodInv, LifeInv, KernelInv, AddInv, DelInv, UpInv, DownInv, NoRoute, AddPC
<1>3. LeasesDiffer
  BY DEF Init, LeasesDiffer
<1> QED
  BY <1>1, <1>2, <1>3 DEF IInv

\* A step of the server, or of nobody, leaves every pod as it is.
LEMMA InvFrame ==
  ASSUME IInv, TypeOK', UNCHANGED <<lease, runtimeVars, pluginVars, kernelVars>>
  PROVE  IInv'
<1>1. \A q \in Pods : Same(q)
  BY DEF Same, runtimeVars, pluginVars, kernelVars
<1>2. \A q \in Pods : PodInv(q)'
  BY <1>1, SameKeeps DEF IInv
<1>3. LeasesDiffer'
  BY DEF IInv, LeasesDiffer
<1> QED
  BY <1>2, <1>3 DEF IInv

LEMMA Inductive == IInv /\ [Next]_vars => IInv'
<1> SUFFICES ASSUME IInv, [Next]_vars PROVE IInv'
  OBVIOUS
<1>0. TypeOK
  BY DEF IInv
<1>1. CASE UNCHANGED vars
  <2>1. TypeOK'
    BY <1>0, <1>1 DEF vars, TypeOK, ServerTypeOK, serverVars, daemonVars, runtimeVars, pluginVars, kernelVars
  <2> QED
    BY <1>1, <2>1, InvFrame DEF vars, daemonVars
<1>2. CASE ServerStep
  <2>1. TypeOK'
    BY <1>0, <1>2, ServerType
  <2> QED
    BY <1>2, <2>1, InvFrame DEF ServerStep
<1>3. CASE \E p \in Pods : Aside(p)
  <2> PICK p \in Pods : Aside(p)
    BY <1>3
  <2>1. TypeOK'
    BY <1>0, AsideType
  <2>2. UNCHANGED <<lease, runtimeVars, pluginVars, kernelVars>>
    BY DEF Aside, LateEnds, PodLeaves, PodReturns, daemonVars
  <2> QED
    BY <2>1, <2>2, InvFrame
<1>4. CASE \E p \in Pods : Act(p)
  <2> PICK p \in Pods : Act(p)
    BY <1>4
  <2>1. TypeOK'
    BY <1>0, TypeStep
  <2>2. PodInv(p)'
    BY <2>1, OwnStep
  <2>3. ASSUME NEW q \in Pods, q # p
        PROVE  PodInv(q)'
    <3>1. Same(q) /\ PodInv(q)
      BY <1>0, <2>3, OthersSame DEF IInv
    <3> QED
      BY <1>0, <2>1, <3>1, SameKeeps
  <2>4. LeasesDiffer'
    BY LeasesStep
  <2> QED
    BY <2>1, <2>2, <2>3, <2>4 DEF IInv
<1> QED
  BY <1>1, <1>2, <1>3, <1>4, NextSplit

LEMMA InvAlways == Spec => []IInv
  BY InvInit, Inductive, PTL DEF Spec

\* Every variable keeps the values that its comment names, so that the plugin
\* is always at a step of ADD or of DEL, or not running.
THEOREM PluginTypeCorrect == Spec => []TypeOK
<1>1. IInv => TypeOK
  BY DEF IInv
<1> QED
  BY <1>1, InvAlways, PTL

\* However many pods are set up and torn down at once, however calls fail and
\* namespaces vanish, no two pods have the same address on eth0.
THEOREM AddressesExclusive == Spec => []AddressExclusive
<1>1. IInv => AddressExclusive
  BY PluginAssumption
     DEF IInv, PodInv, KernelInv, LeasesDiffer, AddressExclusive
<1> QED
  BY <1>1, InvAlways, PTL

\* The RouteAdd of setupHostVeth never meets the route of the pod that had the
\* address before, for which DEL only deletes the other end of the pair.
THEOREM RoutesNeverStale == Spec => []NoStaleRoute
<1>1. IInv => NoStaleRoute
  <2> SUFFICES ASSUME IInv, NEW p \in Pods, pc[p] = "hostVeth", hostRoute[conf[p]] # None
               PROVE  FALSE
    BY DEF NoStaleRoute
  <2>1. lease[p] # None /\ conf[p] = lease[p] /\ NoRoute(p) /\ lease[p] \in Ports
    BY DEF IInv, TypeOK, PodInv, AddInv, AddPC
  <2>2. PICK q \in Pods : hostRoute[lease[p]] = q
    BY <2>1 DEF IInv, TypeOK
  <2>3. q # p
    BY <2>1, <2>2 DEF NoRoute
  <2>4. lease[q] = lease[p]
    BY <2>1, <2>2 DEF IInv, PodInv, KernelInv
  <2> QED
    BY <2>1, <2>3, <2>4 DEF IInv, LeasesDiffer
<1> QED
  BY <1>1, InvAlways, PTL

\* A pod whose ADD returned without an error is connected, on both sides and
\* with the port of its lease, until DEL begins or the namespace goes.
THEOREM UpPodsComplete == Spec => []UpIsComplete
<1>1. IInv => UpIsComplete
  BY DEF IInv, PodInv, UpInv, UpIsComplete
<1> QED
  BY <1>1, InvAlways, PTL

\* A DEL that returned without an error has left nothing behind but a link
\* under its temporary name, whatever the ADD before it had made.
THEOREM DownPodsClean == Spec => []DownIsClean
<1>1. IInv => DownIsClean
  BY DEF IInv, PodInv, DownInv, KernelInv, DownIsClean
<1> QED
  BY <1>1, InvAlways, PTL
=============================================================================
