------------------------------- MODULE Plugin -------------------------------
(***************************************************************************)
(* The CNI plugin (cmd/cni/rubble.go) and its two drivers (pkg/plugin),    *)
(* between the container runtime that runs it and the daemon's process.    *)
(*                                                                         *)
(* ADD asks the daemon for a port, makes an ipvlan device eth0 with its    *)
(* address and a veth pair veth0 in the pod's network namespace, and a     *)
(* route to the address on the host.  DEL removes the devices and then     *)
(* gives the port back.  Nothing is undone when ADD fails: the runtime     *)
(* calls DEL, and calls it again when it fails.                            *)
(*                                                                         *)
(* The daemon is known by what its answers mean, which is Leases: lease[p] *)
(* is the port that it keeps for the pod.  Daemon shows when it does.  Two *)
(* things make it refuse every request of a pod: the API server no longer  *)
(* has the pod, and the record names a port that is not in use.            *)
(* (If that port has gone to another pod meanwhile, a DEL would take it    *)
(* from there: Daemon, DeleteHarmless.  Here it is refused.)               *)
(***************************************************************************)
EXTENDS Server, Leases, Integers

CONSTANTS Sticky,          \* the pods with an IpStickTime: ReleaseIP keeps the record
          NetnsVanishes,   \* a namespace may go away before DEL is done
          MaxFailures      \* bound on failures of netlink, gRPC and the daemon, and
                           \* on pods that leave the API server early

ASSUME PluginAssumption ==
  /\ None \notin Pods \cup Ports
  /\ Sticky \subseteq Pods
  /\ NetnsVanishes \in BOOLEAN
  /\ MaxFailures \in Nat

VARIABLES
  record,        \* the daemon's record of the pod: "none", or it names a port that
                 \* is "inuse" in the pool, or one that is not, "spent"
  missing,       \* pods that the API server does not have
  life,          \* what the runtime knows of a pod: "down", "busy", "up", "broken"
  ns,            \* its network namespace: "none", "there", "gone"
  pc, conf,      \* the plugin's run for the pod: where, with which port
  net, addr,     \* devices and routes in the namespace; the address of eth0
  hostRoute,     \* to which pod's veth the host routes the address of a port
  failures       \* failures so far

daemonVars == <<lease, record>>
runtimeVars == <<life, ns>>
pluginVars == <<pc, conf>>
kernelVars == <<net, addr, hostRoute>>
vars == <<serverVars, daemonVars, missing, runtimeVars, pluginVars, kernelVars, failures>>

AddPC == {"dialAdd", "inAllocate", "ipvlan", "configure", "veth", "hostVeth"}
DelPC == {"ptpOpen", "ptpDel", "ipvlanOpen", "ipvlanDel", "dialDel", "inRelease"}

\* The ipvlan device before it is renamed, the devices, the default route of
\* eth0 (always there: DefaultIpVlanRoute is true), the routes of veth0 to the
\* node and, by it, to the services.
Things == {"tmp", "eth0", "default", "veth0", "node", "services"}
OfEth0 == {"eth0", "default"}
OfVeth0 == {"veth0", "node", "services"}

TypeOK ==
  /\ ServerTypeOK
  /\ late \subseteq Pods /\ missing \subseteq Pods
  /\ lease \in [Pods -> Ports \cup {None}]
  /\ record \in [Pods -> {"none", "inuse", "spent"}]
  /\ life \in [Pods -> {"down", "busy", "up", "broken"}]
  /\ ns \in [Pods -> {"none", "there", "gone"}]
  /\ pc \in [Pods -> AddPC \cup DelPC \cup {"idle"}]
  /\ conf \in [Pods -> Ports \cup {None}]
  /\ net \in [Pods -> SUBSET Things]
  /\ addr \in [Pods -> Ports \cup {None}]
  /\ hostRoute \in [Ports -> Pods \cup {None}]
  /\ failures \in 0..MaxFailures

Init ==
  /\ ServerInit
  /\ lease = [p \in Pods |-> None]
  /\ record = [p \in Pods |-> "none"]
  /\ missing = {}
  /\ life = [p \in Pods |-> "down"]
  /\ ns = [p \in Pods |-> "none"]
  /\ pc = [p \in Pods |-> "idle"]
  /\ conf = [p \in Pods |-> None]
  /\ net = [p \in Pods |-> {}]
  /\ addr = [p \in Pods |-> None]
  /\ hostRoute = [r \in Ports |-> None]
  /\ failures = 0
-----------------------------------------------------------------------------
Goto(p, label) == pc' = [pc EXCEPT ![p] = label]

\* The plugin exits; the runtime takes note.
Exit(p, result) ==
  /\ pc' = [pc EXCEPT ![p] = "idle"]
  /\ conf' = [conf EXCEPT ![p] = None]
  /\ life' = [life EXCEPT ![p] = result]
  /\ UNCHANGED ns

\* Something fails that need not.
Failure ==
  /\ failures < MaxFailures
  /\ failures' = failures + 1

\* The kernel drops what belongs to a device: its address and routes, and for
\* veth0 the other end of the pair with the host's routes through it.
Drop(p, things) ==
  /\ net' = [net EXCEPT ![p] = @ \ things]
  /\ addr' = IF "eth0" \in things THEN [addr EXCEPT ![p] = None] ELSE addr
  /\ hostRoute' = IF "veth0" \in things
                  THEN [r \in Ports |-> IF hostRoute[r] = p THEN None ELSE hostRoute[r]]
                  ELSE hostRoute
-----------------------------------------------------------------------------
(* The container runtime *)

\* A sandbox is made, with a namespace, and the plugin called with ADD.
RunSandbox(p) ==
  /\ life[p] = "down" /\ ns[p] = "none" /\ pc[p] = "idle"
  /\ p \notin missing
  /\ life' = [life EXCEPT ![p] = "busy"]
  /\ ns' = [ns EXCEPT ![p] = "there"]
  /\ Goto(p, "dialAdd")
  /\ UNCHANGED <<serverVars, daemonVars, missing, conf, kernelVars, failures>>

\* DEL, for a pod that is up, after an error, or once more.
StopSandbox(p) ==
  /\ pc[p] = "idle" /\ ns[p] # "none"
  /\ life' = [life EXCEPT ![p] = "busy"]
  /\ Goto(p, "ptpOpen")
  /\ UNCHANGED <<serverVars, daemonVars, missing, ns, conf, kernelVars, failures>>

\* DEL was done: the namespace goes, with whatever is left in it.
RemoveNetns(p) ==
  /\ life[p] = "down" /\ pc[p] = "idle" /\ ns[p] # "none"
  /\ ns' = [ns EXCEPT ![p] = "none"]
  /\ Drop(p, Things)
  /\ UNCHANGED <<serverVars, daemonVars, missing, life, pluginVars, failures>>

\* The namespace goes away too early, but not under a running ADD.
NetnsGone(p) ==
  /\ NetnsVanishes
  /\ ns[p] = "there" /\ pc[p] \notin AddPC
  /\ ns' = [ns EXCEPT ![p] = "gone"]
  /\ Drop(p, Things)
  /\ UNCHANGED <<serverVars, daemonVars, missing, life, pluginVars, failures>>
-----------------------------------------------------------------------------
(* The calls of the daemon.  The connection is made when the call is.       *)

Calls == [dialAdd |-> "inAllocate", dialDel |-> "inRelease"]

\* The call reaches a handler.
Call(p) ==
  /\ pc[p] \in DOMAIN Calls /\ sock = "live" /\ srv # "starting"
  /\ Goto(p, Calls[pc[p]])
  /\ UNCHANGED <<serverVars, daemonVars, missing, runtimeVars, conf, kernelVars, failures>>

Running == {p \in Pods : pc[p] \in {"inAllocate", "inRelease"}}
HandlersRun == srv \in {"serving", "stopping"}

AllocateIP(p) ==
  /\ pc[p] = "inAllocate" /\ HandlersRun /\ p \notin missing
  /\ \E r \in Ports :
       /\ Grant(p, r)
       /\ \/ /\ Goto(p, "ipvlan")
             /\ conf' = [conf EXCEPT ![p] = r]
             /\ UNCHANGED <<runtimeVars, failures>>
          \/ Failure /\ Exit(p, "broken")    \* done, but the answer is an error
  /\ record' = [record EXCEPT ![p] = "inuse"]
  /\ UNCHANGED <<serverVars, missing, kernelVars>>

\* The port is released and the record deleted, unless the pod is sticky or
\* the deletion fails.
ReleaseIP(p) ==
  /\ pc[p] = "inRelease" /\ HandlersRun /\ p \notin missing /\ record[p] # "spent"
  /\ GiveBack({p})
  /\ \E left \in {"none", "spent"} :
       /\ record' = [record EXCEPT ![p] = left]
       /\ left = "spent" => record[p] = "inuse"
       /\ \/ Exit(p, "down") /\ UNCHANGED failures /\ (left = "spent" => p \in Sticky)
          \/ Failure /\ Exit(p, "broken")
       /\ left = "none" /\ record[p] = "inuse" => p \notin Sticky
  /\ UNCHANGED <<serverVars, missing, kernelVars>>

\* The handler returns an error every time: GetPod does not find the pod, or
\* the release of a port that is not in use is ErrInvalidState.
Refused(p) ==
  /\ HandlersRun
  /\ \/ p \in Running /\ p \in missing
     \/ pc[p] = "inRelease" /\ record[p] = "spent"

\* Nobody listens, or the daemon went away.
Unserved(p) == IF p \in Running THEN ~HandlersRun ELSE srv # "serving"

\* The 20 s are over: if a handler runs it goes on.
OutOfTime(p) == late' = IF p \in Running /\ HandlersRun THEN late \cup {p} ELSE late

\* Mutant of CallFails: the error of a DEL is not returned.
CallFailsQuietly(p) ==
  /\ pc[p] \in {"dialAdd", "inAllocate", "dialDel", "inRelease"}
  /\ (Unserved(p) /\ UNCHANGED failures) \/ Failure
  /\ Exit(p, IF pc[p] \in AddPC THEN "broken" ELSE "down")
  /\ UNCHANGED <<serverVars, daemonVars, missing, kernelVars>>

\* There is no answer, or the handler returned an error before it changed
\* anything.  Without its mutex a handler does not answer, however often it
\* is called.
CallFails(p) ==
  /\ pc[p] \in {"dialAdd", "inAllocate", "dialDel", "inRelease"}
  /\ \/ (Unserved(p) \/ Refused(p)) /\ UNCHANGED <<failures, late>>
     \/ Failure /\ (UNCHANGED late \/ OutOfTime(p))
     \/ locks = "lost" /\ OutOfTime(p) /\ UNCHANGED failures
  /\ Exit(p, "broken")
  /\ UNCHANGED <<srv, sock, locks, daemonVars, missing, kernelVars>>

\* Mutant of LateEnds: Acquire waits for an idle port whether or not its
\* context is done.
LateEndsNoDeadline(p) ==
  /\ p \in late /\ (\E r \in Ports : \A q \in Pods : lease[q] # r)
  /\ late' = late \ {p}
  /\ UNCHANGED <<srv, sock, locks, daemonVars, missing, runtimeVars, pluginVars, kernelVars,
                  failures>>

\* A handler that nobody waits for returns: its context is done.  What it has
\* changed is taken to be done when the plugin gave up; Daemon has the others.
LateEnds(p) ==
  /\ p \in late
  /\ late' = late \ {p}
  /\ UNCHANGED <<srv, sock, locks, daemonVars, missing, runtimeVars, pluginVars, kernelVars,
                  failures>>

\* The pod is removed from the API server, by force, before its sandbox is, and
\* made again.
PodLeaves(p) ==
  /\ p \notin missing /\ ns[p] # "none" /\ Failure
  /\ missing' = missing \cup {p}
  /\ UNCHANGED <<serverVars, daemonVars, runtimeVars, pluginVars, kernelVars>>

PodReturns(p) ==
  /\ p \in missing
  /\ missing' = missing \ {p}
  /\ UNCHANGED <<serverVars, daemonVars, runtimeVars, pluginVars, kernelVars, failures>>
-----------------------------------------------------------------------------
(* doCmdAdd: ipVlan.Setup, then ptp.Setup                                   *)

\* A step of ADD that adds things to the namespace.  When it fails, a part of
\* them may be there already, and ADD returns its error.
Adds(p, label, things, parts, next) ==
  /\ pc[p] = label
  /\ \/ /\ things \cap net[p] = {}
        /\ net' = [net EXCEPT ![p] = @ \cup things]
        /\ Goto(p, next)
        /\ UNCHANGED <<runtimeVars, conf, failures>>
     \/ /\ \E part \in parts : net' = [net EXCEPT ![p] = @ \cup part]
        /\ Failure
        /\ Exit(p, "broken")
  /\ UNCHANGED <<serverVars, daemonVars, missing, hostRoute>>

\* createIPVlan: mode and master, LinkAdd under a temporary name, RenameLink,
\* and the look at the result.
CreateIPVlan(p) ==
  /\ Adds(p, "ipvlan", {"eth0"}, {{}, {"tmp"}, {"eth0"}}, "configure")
  /\ UNCHANGED addr

\* ConfigureIface: the address, then the default route.
ConfigureIface(p) ==
  /\ Adds(p, "configure", {"default"}, {{}}, "veth")
  /\ \/ addr' = [addr EXCEPT ![p] = conf[p]]
     \/ pc'[p] = "idle" /\ UNCHANGED addr

\* setupContainerVeth: the pair, then the two routes.
SetupContainerVeth(p) ==
  /\ Adds(p, "veth", OfVeth0, {{}, {"veth0"}, {"veth0", "node"}}, "hostVeth")
  /\ UNCHANGED addr

\* Mutant of SetupHostVeth: the error of RouteAdd is not returned.
SetupHostVethQuietly(p) ==
  /\ pc[p] = "hostVeth"
  /\ \/ hostRoute' = [hostRoute EXCEPT ![conf[p]] = p] /\ UNCHANGED failures
     \/ UNCHANGED hostRoute /\ Failure
  /\ Exit(p, "up")
  /\ UNCHANGED <<serverVars, daemonVars, missing, net, addr>>

\* setupHostVeth: RouteAdd fails if there is a route to the address.
SetupHostVeth(p) ==
  /\ pc[p] = "hostVeth"
  /\ \/ /\ hostRoute[conf[p]] = None
        /\ hostRoute' = [hostRoute EXCEPT ![conf[p]] = p]
        /\ Exit(p, "up")
        /\ UNCHANGED failures
     \/ /\ (hostRoute[conf[p]] # None /\ UNCHANGED failures) \/ Failure
        /\ Exit(p, "broken")
        /\ UNCHANGED hostRoute
  /\ UNCHANGED <<serverVars, daemonVars, missing, net, addr>>

IPVlanSetup(p) == CreateIPVlan(p) \/ ConfigureIface(p)
PtpSetup(p) == SetupContainerVeth(p) \/ SetupHostVeth(p)
-----------------------------------------------------------------------------
(* cmdDel: ptp.TearDown, ipVlan.TearDown, then ReleaseIP                    *)

\* GetNS: both TearDowns begin by opening the namespace.
OpenNetns(p, label, next) ==
  /\ pc[p] = label
  /\ \/ ns[p] = "there" /\ Goto(p, next) /\ UNCHANGED <<runtimeVars, conf>>
     \/ ns[p] # "there" /\ Exit(p, "broken")
  /\ UNCHANGED <<serverVars, daemonVars, missing, kernelVars, failures>>

\* Mutants of DelLink: an error of netlink is not returned; a device that is
\* not there is an error.
DelLinkQuietly(p, label, things, next) ==
  /\ pc[p] = label
  /\ \/ Drop(p, things) /\ UNCHANGED failures
     \/ UNCHANGED kernelVars /\ Failure
  /\ Goto(p, next)
  /\ UNCHANGED <<serverVars, daemonVars, missing, runtimeVars, conf>>

DelLinkStrict(p, label, things, next) ==
  /\ pc[p] = label
  /\ \/ /\ things \cap net[p] # {} /\ Drop(p, things) /\ Goto(p, next)
        /\ UNCHANGED <<runtimeVars, conf>>
     \/ things \cap net[p] = {} /\ Exit(p, "broken") /\ UNCHANGED kernelVars
  /\ UNCHANGED <<serverVars, daemonVars, missing, failures>>

\* WithNetNSPath and DelLinkByName.  It is no error if the device is not
\* there, nor if the namespace has gone since it was opened.
DelLink(p, label, things, next) ==
  /\ pc[p] = label
  /\ \/ Drop(p, things) /\ Goto(p, next) /\ UNCHANGED <<runtimeVars, conf, failures>>
     \/ ns[p] = "there" /\ Failure /\ Exit(p, "broken") /\ UNCHANGED kernelVars
  /\ UNCHANGED <<serverVars, daemonVars, missing>>

PtpTearDown(p) ==
  \/ OpenNetns(p, "ptpOpen", "ptpDel")
  \/ DelLink(p, "ptpDel", OfVeth0, "ipvlanOpen")

IPVlanTearDown(p) ==
  \/ OpenNetns(p, "ipvlanOpen", "ipvlanDel")
  \/ DelLink(p, "ipvlanDel", OfEth0, "dialDel")
-----------------------------------------------------------------------------
PluginStep(p) ==
  \/ Call(p) \/ AllocateIP(p) \/ ReleaseIP(p) \/ CallFails(p)
  \/ IPVlanSetup(p) \/ PtpSetup(p)
  \/ PtpTearDown(p) \/ IPVlanTearDown(p)

\* A start counts the port of a record as in use, if it finds the port.
RecordsFound ==
  record' \in {f \in [Pods -> {"none", "inuse", "spent"}] :
                 \A p \in Pods : f[p] = "none" <=> record[p] = "none"}

\* A plugin sees that its connection is broken before a new process listens.
ServerStarts ==
  \/ Listen /\ Running = {} /\ UNCHANGED record
  \/ StartDone /\ RecordsFound

ServerFails == Failure /\ (StartFails \/ ServeFails \/ Signal \/ LosesLock) /\ UNCHANGED record
ServerWorks == (ServerStarts \/ (Stopped(Running) /\ UNCHANGED record)) /\ UNCHANGED failures

ServerStep ==
  /\ ServerFails \/ ServerWorks
  /\ UNCHANGED <<lease, missing, runtimeVars, pluginVars, kernelVars>>

Next ==
  \/ ServerStep
  \/ \E p \in Pods : \/ PluginStep(p) \/ RunSandbox(p) \/ StopSandbox(p)
                     \/ RemoveNetns(p) \/ NetnsGone(p)
                     \/ LateEnds(p) \/ PodLeaves(p) \/ PodReturns(p)

Spec == Init /\ [][Next]_vars

\* The plugin goes on, the daemon is started again, the runtime repeats a DEL
\* that failed, and a handler returns unless it waits for a lost mutex.
FairSpec ==
  /\ Spec
  /\ WF_vars(ServerWorks /\ ServerStep)
  /\ \A p \in Pods : /\ WF_vars(PluginStep(p))
                      /\ WF_vars(life[p] = "broken" /\ StopSandbox(p))
                      /\ WF_vars(locks = "sound" /\ LateEnds(p))
-----------------------------------------------------------------------------
(* Properties *)

\* No two namespaces have the same address: DEL takes the address away before
\* it gives the port back, and after a failure it does not give it back.
AddressExclusive ==
  \A p, q \in Pods : p # q /\ addr[p] # None => addr[q] # addr[p]

\* When setupHostVeth adds the route to an address, the route of the pod that
\* had it before is gone, although TearDown only deletes the pod's end of the
\* pair (ptp.go:78).
NoStaleRoute == \A p \in Pods : pc[p] = "hostVeth" => hostRoute[conf[p]] = None

\* A pod whose ADD succeeded has the port the daemon keeps for it on eth0, all
\* its devices and routes, and the host routes the address to it.
UpIsComplete ==
  \A p \in Pods : life[p] = "up" /\ ns[p] = "there" =>
    /\ net[p] = Things \ {"tmp"}
    /\ lease[p] # None /\ addr[p] = lease[p]
    /\ hostRoute[lease[p]] = p

\* After a DEL that succeeded the daemon keeps no port for the pod, the host
\* has no route to it, and its namespace at most the link that createIPVlan
\* could not rename, however the ADD before it ended.
DownIsClean ==
  \A p \in Pods : life[p] = "down" =>
    /\ lease[p] = None /\ addr[p] = None
    /\ net[p] \subseteq {"tmp"}
    /\ \A r \in Ports : hostRoute[r] # p

\* A DEL is repeated until it succeeds, unless the namespace goes away before
\* it (OpenNetns), or the daemon refuses it or does not answer: nothing else
\* that an ADD or a DEL left half done is in its way.
DeletedUnlessRefused ==
  \A p \in Pods : life[p] = "broken" ~>
    \/ life[p] = "down" \/ ns[p] # "there"
    \/ p \in missing \/ record[p] = "spent" \/ locks = "lost"

\* ipvlan.go:111: "if NetNs is passed down by the Cloud Orchestration Engine,
\* or if it called multiple times so don't return an error if the device is
\* already removed": a DEL whose namespace has gone gives the port back too.
DeletedIsReleased == \A p \in Pods : life[p] = "broken" ~> lease[p] = None

\* After a signal the process ends, unless it has lost a mutex: no call gets
\* in any more, and the handlers return, those that nobody waits for too.
StopReturns == srv = "stopping" ~> (srv = "off" \/ locks = "lost")
=============================================================================
