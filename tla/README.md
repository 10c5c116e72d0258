# A TLA+ model of rubble

Rubble gives the pods of a Kubernetes node addresses of an OpenStack network.
The kubelet runs the CNI plugin (`cmd/cni`) to add and delete a pod's network;
the plugin asks the daemon of the node (`pkg/daemon`) over gRPC for an address,
and sets up devices with it (`pkg/plugin`).  The daemon keeps a pool of Neutron
ports (`pkg/pool`, `pkg/ipam`), created and deleted through the Neutron API
(`pkg/neutron`), and a database of which pod has which port (`pkg/storage`).

This directory holds TLA+ modules that model the plugin, the daemon and what it is
built on, configurations that check them with TLC on small instances, and proofs that TLAPS
checks for every value of the constants.  `PROJECT.json` lists components, runs,
mutants (small changes of the model that each property must detect), the source
lines behind every definition, findings, hazards and theorems.

## Inventory

| component | state | operations | interacts with |
|---|---|---|---|
| idle queue, `pool/queue.go` | slice used as binary heap, size, capacity | Push, Pop, Peek, Rob, Find, List | called by the pool, under its lock (but List, Size) |
| object pool, `pool/pool.go` | idle queue, `inuse` map, mutex, token channel, notify channel | start, checkIdle and checkInsufficient (one goroutine), Acquire, ReleaseWithReverse, AddIdle, AddInuse | calls the factory outside its lock; called by the manager from gRPC handlers |
| port factory, `ipam/port.go` | list of ports, mutex | Create, Dispose | Neutron |
| port manager, `ipam/port.go` | none of its own | Allocate, Release, static addresses, start | pool, factory, Neutron's list of ports |
| storage, `storage/store.go` | bolt database, copy in memory | Put, Get, List, Delete, load | called by the daemon |
| daemon, `daemon/daemon.go` | none of its own | AllocateIP, ReleaseIP, start | Kubernetes (GetPod), manager, storage |
| CNI plugin, `cmd/cni` | none | cmdAdd, cmdDel | daemon, drivers |
| drivers, `plugin/` | devices, addresses and routes in the pod's namespace and on the host | Setup, TearDown | netlink |
| Neutron client, `neutron/` | none | CreatePort (with two goroutines), DeletePort, AddTag, lists | Neutron |
| Kubernetes client, `k8s/` | none | GetPod, ListLocalPods | API server |
| gRPC server, `daemon/server.go` | socket file, process | Run, stop on a signal | daemon, plugins |

What is hard to get right, and to test, in this code:

* gRPC handlers run concurrently with each other and with the pool's goroutine;
  several sizes are read without the lock; allocation of a static address is
  several critical sections.
* calls of Neutron fail, or take effect and report a failure; two error paths
  return with a mutex held.
* tokens bound the creation of ports, and every error path has to return them.
* a request is several steps on the pool, the database and its copy in memory;
  each may fail, the daemon may stop between any two, and the kubelet repeats.
* the port of a "sticky" pod is released but its record is kept.
* the plugin waits 20 s, the daemon's handler does not stop then: two requests of one
  pod run at a time.
* ADD undoes nothing when it fails; DEL has to cope with what an ADD, or a DEL, that
  stopped half-way has left, and must not release a port whose address is still on a
  device.
* the port exists in Neutron before Create has looked up what belongs to it and before it
  has its tag.

The properties that make the parts correct: the queue keeps its items and returns
the earliest; a port has one owner and is not deleted while in use; tokens are
neither lost nor made up and the pool keeps to its capacity; a call of Acquire
returns; the two copies of the database agree; two pods never share a port; the
database knows the port of every running pod; no port stays in use for nobody; no
two namespaces have one address; ADD is complete and DEL leaves nothing behind; what
fails is deleted in the end.

## Modules

| module | models |
|---|---|
| `IdleQueue` | operators of the abstract idle queue, with which the pool is written |
| `IdleQueueSpec` | the abstract queue as a state machine |
| `PriorityQueue` | the heap of `queue.go`, slot by slot, one iteration of bubbleUp or bubbleDown per step; implements `IdleQueueSpec` |
| `PortFactory` | `PortFactory.Create` and `Dispose`, and Neutron (external) |
| `CreatePort` | `Create` request by request, with the goroutines of `Client.CreatePort`; implements the `Create` of `PortFactory` |
| `ObjectPool` | `SimpleObjectPool` on top of `IdleQueue` and `PortFactory` |
| `PortManager` | `PortResourceManager` on top of `ObjectPool` |
| `PortPool` | what a client may count on of the pool; `ObjectPool` and `PortManager` implement it |
| `DiskStorage` | the database and its copy in memory |
| `Daemon` | the handlers, the kubelet's calls and restarts, on top of `PortPool` and `DiskStorage` |
| `Leases` | what the plugin may count on of the daemon; `Daemon` implements it with the ports that are not stale |
| `Server` | the daemon's process and its socket |
| `Plugin` | cmdAdd, cmdDel and both drivers for several pods, on top of `Leases` and `Server` |
| `MC*` | the constants and symmetry sets of TLC's instances |
| `*Proofs` | theorems |

So the development is a stack in which each module is written on an abstraction that
the one below implements: `PriorityQueue` => `IdleQueueSpec` and `CreatePort` =>
`PortFactory` under `ObjectPool`; `ObjectPool`, `PortManager` => `PortPool` under
`Daemon`; `Daemon` => `Leases` under `Plugin`.

### PriorityQueue

`slots` is the used part of the slice, counted from 1, `capacity` the length of the array
behind it.  `loop` and `index` are the loop under way and its variable; an operation begins
only when no loop is under way, since its caller holds the pool's lock.  The array grows at
the end of Push, after bubbleUp.  The loops are steps rather than recursive operators so that
the heap can be reasoned about; the abstract queue does not see them.

### CreatePort

`pc[c]` is the request a call makes next, `look[c]` the state of its two goroutines:
`asking` Neutron, or blocked in the send of a value (`ok`) or an error (`err`) until the
call receives it.  Every request may fail, and may have been done when it reports a
failure.  `tagged` is the set of ports with the node's tag, by which a start finds them.
`Crash` ends all calls under way.  `orphans` is a history variable: ports whose call was
ended by the failure of a request other than a lookup, or by a crash.  Each call is made
once.  The pool sees a call as one step: the refinement takes as existing the ports of the
calls that have ended.  The last step takes the factory's lock, which a `Dispose` of some
older port may have (`DisposeStarts`, `DisposeEnds`); one that fails never gives it back.
What `Dispose` does to the ports of the pool is in `ObjectPool`.

### ObjectPool

`idle` is the set of items of the queue, `inuse` the keys of the map, `tokenCh` the
number of tokens in the channel.  The goroutine's program counter is `loop`, with its
locals `item`, `sizeSeen`, `addition`, `tokenAcquired`; a caller's is `pc[c]`, with the
resource at hand in `res[c]`.  The code never blocks between `Lock` and `Unlock`, so
that a critical section is one step, enabled while `lock` is free.  `lock` becomes
`"held"` only where checkIdle leaves its loop without unlocking (pool.go:195 and 199).
Everything outside the lock is in steps of its own: each unlocked read of
`tooManyIdle`, each channel operation, each call of the factory.  An unlocked read may
also fall into the middle of an Acquire; `ReadSizeIdle` has this outcome.  Neutron's
calls are one step each; `Dispose` is two, since it holds the factory's lock across the
call.

`Release` includes its `notify`: an unbuffered send with a default, which wakes the
goroutine only if it waits in its select.  The `notify` at the end of
checkInsufficient is called by the only receiver and never succeeds.

`surplus` is a history variable: ports that entered the pool without a token, at a
start on more ports than the capacity or by the static path.  `ordered` records
whether the heap is known to be ordered: Rob sifts down only, so that taking an item out
of a queue of more than five may break the order, and from then on the head may be any
item.  `PriorityQueue` shows that this is exactly what the heap does.

### PortManager

Adds the steps of `acquireStaticAddress`: the list of ports (which may miss some: only
the last page is kept), the unlocked scan of the queue, the creation past the tokens,
AddIdle, and Acquire with the port's id as preference.  Every address has at most one
existing port (Neutron's rule), but a port deleted and made again has a new id.

### DiskStorage

`disk` and `memory` are functions from keys to values, with `NoValue` for an absent key.
A write is a transaction (`WriteDisk`) and, later, `WriteMemory`; `todo` is the write a
client still owes to the memory.  `raced` is a history variable: keys of which two
writes overlapped since the last start.

### Daemon

A handler goes through AllocateIP or ReleaseIP; `life[p]` is what the kubelet knows of a
pod (`down`, `busy`, `up`, `broken` after an error) and `holds[p]` the port a running pod
was set up with.  The kubelet adds a pod that is down, deletes one that is up or broken,
and, with the fault `repeat`, deletes one that is already down.  A failing GetPod,
allocation or ADD after the allocation is always possible; `Faults` adds the rest.
`GiveUp` is the plugin's timeout: the kubelet sees an error and calls again, while the
handler is `late` and goes on to its end, which nobody hears of.  A restart sorts the
ports it finds in Neutron into idle and in use by the records of the database; it may find
any subset of them (tags, paging).  The pool's own activity is `PoolMoves`.  Which idle
port an allocation gets, if not the pod's old one, is left open: the invariants hold for
every choice, of which the code makes the earliest.  Which pods
are sticky (convertPod), and how often the plugin may give up, is chosen at the start
from `Scenarios`.

Three history variables say where the code stops being right.  `crossed` are the pods
that had two requests at a time.  `stale` are the ports of crossed pods, the ports whose
record outlived their release (of a sticky pod, after a failing deletion or a crash before
it), and those that a restart did not find although a record names them.  `strays` are
the ports in use without a record.

`ImplementsLeases` maps a pod to the port that its handler has at hand, or else its record,
and to none if that port is stale.  Then a step grants a port that no other pod has, or
takes leases away; and of a pod with no request under way it leaves the lease alone, be
it a step for another pod, of the pool, or a restart.

### Plugin and Server

For every pod `pc[p]` is the step of the plugin's run under way, `net[p]` what exists in
its namespace (the device before its renaming, eth0 and its default route, veth0 and its
two routes), `addr[p]` the port whose address eth0 has, and `hostRoute[r]` the pod to
whose veth the host routes the address of port r.  The kernel (`Drop`) is external: with a
device go its addresses and routes, with one end of a pair the other.  A step of Setup
that fails may have done a part of its work.  TearDown is two steps, for the namespace may
go away between its GetNS and its WithNetNSPath, which take that differently.

The runtime makes a namespace, calls ADD, calls DEL when it pleases and again after a
failure, and removes the namespace after a DEL that succeeded.  `NetnsGone` lets the
namespace go earlier, though not under a running ADD.  The daemon's answers are `Grant`
and `GiveBack` of `Leases`, or an error before or after the fact.  Some errors last:
`record[p]` says whether the daemon's record of the pod names a port that is in use, and
when it does not (the record of a sticky pod, or one whose deletion failed, after the
release; a port that a start did not find) every further DEL is refused with
ErrInvalidState; `missing` are the pods that the API server does not have, for which
GetPod fails every time.  A refusal costs no failure.  If the port of such a record has gone to
another pod, a DEL takes it from there; this is `daemon_repeat_harms`, and outside of
`Leases`.

`late` are the pods with a handler that goes on although its plugin has given up.  What
such a handler changes is taken to have happened by then, or not at all; that it may
change it later, while the next request runs, is the matter of `Daemon`.

`Server` is the process: it listens before newDaemonServer has run, so that a call may
wait for a daemon that is starting; it may fail at its start, die, or be told to stop,
when it closes the socket and waits for the handlers that run, late ones included.
`locks` is `lost` once the process has lost one of the two mutexes, or sits in the send of
a token that nobody receives (`ObjectPool` shows how): from then on any call may go without an answer,
and any handler may never return, until the process is killed.

## Runs

| run | instance | result |
|---|---|---|
| `idle_queue` | 6 resources, 3 times, array of 2 that doubles twice | `HeapOrdered`, `RoomToPush`, refinement of `IdleQueueSpec` hold |
| `pool` | 2 callers, up to 3 ports at the start and 2 more creations, min 1, max 1, capacity 2, all failures | `OneOwner`, `TokenBalance`, `WithinCapacity`, `AtMostOneDeadPort`, `InUseNeverDeleted`, refinement of `PortPool` hold |
| `pool_liveness` | 2 callers, capacity 1, failing creates and deletes | `AcquireReturns` holds |
| `pool_never_after_now` | 2 callers, capacity 2, no failures | violated: checkIdle reaches the branch that a comment excludes, and leaves with the lock held |
| `port_manager` | 3 ports, 2 addresses, of which one has two successive ports; capacity 1; all failures | ownership, tokens, `NoPortLeaked`, refinement of `PortPool` hold |
| `port_manager_static` | the same without failures and without a port at the start | violated: a pod gets an address it did not ask for |
| `disk_storage` | 2 keys, 2 values, 3 clients | `CopiesAgree` holds |
| `daemon` | 2 pods, 2 ports, 2 handlers; every fault; any pods sticky, or else one plugin that gives up | `ExclusivePort`, `RecordKept`, `NoPortForgotten`, refinement of `Leases` hold |
| `daemon_repeat_harms` | one port, 2 pods of which one is sticky, repeated DEL | violated: the second DEL of a sticky pod releases another pod's port |
| `create_port` | 2 calls, 3 ports, of which two have one address; every failure, crashes, a lock that others take | `ReturnedIsComplete`, `OrphansExplained`, `CallReturns`, refinement of `PortFactory` hold |
| `plugin` | 2 pods, one of them sticky, 2 ports, 2 failures, namespaces that vanish | `AddressExclusive`, `NoStaleRoute`, `UpIsComplete`, `DownIsClean`, `DeletedUnlessRefused`, `StopReturns` hold |
| `plugin_netns_gone` | the same without failures | violated: no DEL ever releases the port of a pod whose namespace is gone |

Where the properties stop.  `ExclusivePort` and the refinement of `Leases` need that
every record names a port its pod has.  A sticky pod's record (a DEL after a failed ADD, or
a second DEL, releases what the record names), a crash between the release of the port
and the deletion of the record, a failing deletion, and two requests of one pod at a time
break this.  They are all in the run; the ports they concern are in `stale`, and the
properties say that the harm stays with these ports.  `RecordKept` says nothing of the
pods in `crossed`: the later of two Puts wins.  `NoPortForgotten` excepts `strays`: the
port of a failed Put, that of a sticky pod that is added again after a restart, for which
the old port counted as in use, and the port whose record a request that crossed it
overwrote or deleted.  `CopiesAgree` says nothing of keys whose writes overlapped: the
memory may keep the value of one and the database that of the other, until the next start.
`DownIsClean` leaves out the device that createIPVlan could not rename: TearDown does not
know its name, and it goes with the namespace.  `DeletedUnlessRefused` stops where
`plugin_netns_gone` begins, and at three things the code does not get over by repetition: the
pod has left the API server, the record names a port that is not in use, and the daemon
has lost a mutex.  `StopReturns` stops at the last of them, for GracefulStop waits for a
handler that waits for ever, and so does `CallReturns` in `create_port`.  A CreatePort whose create request or
subnet lookup fails leaves two goroutines, or one, blocked in their send for ever
(neutron/port.go:172 and 178); `ReturnedIsComplete` says that one that succeeds leaves none.

Things the code does that are in the model without a property that would hold: a port
with a stick time is handed to any pod that finds it at the head of the queue
(pool.go:314); the tokens are not `capacity - (idle + inuse + dispose)` (pool.go:63) once
surplus ports were deleted, which is why `TokenBalance` has the term `surplus`; checkIdle
may find the queue empty under the lock, which a comment (pool.go:194) calls impossible,
and then also leaves with the lock held, which `AcquireReturns` excepts; the second DEL of
a sticky pod fails with ErrInvalidState when nobody has taken the port, and so does every
one after it.

Bounds.  Two callers and the goroutine are enough for every pair of steps to
interleave; the capacity of 2 with three initial ports and two more creations lets the
pool be empty, full, over its capacity, over `maxIdle` and under `minIdle`.  `Res` bounds
how many ports are ever created: a `Create` past the bound fails, as Neutron does when
no address is left.  `MaxTime` bounds the clock; 1 separates a port that is due from one
that is not.  `RobSafeSize` is 5; six items reach the Rob that breaks the heap.  The
daemon's run begins without any port and has two, one for each pod; the pool makes,
deletes and loses them.  Its `Scenarios` are any set of sticky pods, or none and a plugin
that gives up once, enough for one request to cross another; both at once concern only
ports and pods that are excepted for two reasons, and take three times as long.
`MaxFailures` is 2: an ADD fails, and
the DEL after it; or the daemon's process ends between them; or a call times out, or a
mutex is lost, before the signal to stop.

Two runs are there for their counterexample, and their bounds make it one that the code can
follow, the order of the idle queue included: `daemon_repeat_harms` has one port, so that
the port of the sticky pod is the one that the queue returns next, and
`port_manager_static` begins with an empty queue, in which each step of the
counterexample finds one port at most.

Two calls in `create_port`
overlap, or come before and after a crash.
Deadlock is checked in all runs but those of the pool and the manager, which switch
it off, since the code does stop for ever after a lost mutex.

Symmetry sets contain permutations of ports, callers, handlers, keys and, where any pod
may be sticky, pods, none of which a definition tells apart (the CHOOSE in `LeaseOf` is
among several handlers for crossed pods only, whose ports are stale).  Runs with liveness
properties use none.

Fairness (`FairSpec`) of `ObjectPool` is weak fairness of the goroutine and of each call
under way: the Go
scheduler runs what can run, the HTTP client has a timeout of 60 s, the ticker ticks
every minute, and the context of a gRPC request has a deadline (the plugin's
`DefaultCniTimeout`).  Nobody is required to call the pool or to release a port.
In `CreatePort` requests and lookups end, by the same timeout, and the step that waits for
the factory's lock is strongly fair: a Go mutex does not pass over a waiter for ever.
`CallReturns` is for behaviours in which the lock is free again and again.  In `Plugin` a run of the
plugin goes on (its calls have a deadline), the node starts a daemon that has stopped and
the start comes to an end, the runtime repeats a DEL that failed, as the kubelet does, and
a late handler returns as long as no mutex is lost: its waiting has the deadline of its
context, and its requests to Neutron and the API server are taken to end;
nobody is required to add a pod or to delete one that is up, and failures may happen at
any time, up to their bound.

## Proofs

Seven modules prove every safety property of the passing runs, the five refinements
included, for every number of pods, ports, callers, handlers, calls, keys, failures and
lengths of the queue.  The assumptions are those that the modules state about their
constants (what `NewSimpleObjectPool` checks of its configuration, finitely many callers
and ports at the start, that `None`, `NoRes` and `NoItem` are no ports or items), with one
more in `CreateImplementsFactory`, below.  Each inductive invariant `IInv` was checked by
TLC on the run's instance before it was proved.

| module | theorems | what `IInv` adds to the properties |
|---|---|---|
| `PriorityQueueProofs` | `HeapAlwaysOrdered`, `AlwaysRoomToPush`, `HeapImplementsIdleQueue` | the heap with a hole where a loop is; no resource in two slots |
| `ObjectPoolProofs` | `TypeCorrect`, `OneOwnerAlways`, `TokensBalance`, `CapacityRespected`, `InUseKept`, `OneDeadPortAtMost`, `NoneLeaked`, `PoolImplementsPortPool` | who has which port in hand, by label |
| `PortManagerProofs` | `MgrTypeCorrect`, `MgrOneOwner`, `MgrTokensBalance`, `MgrOneDeadPortAtMost`, `MgrNoneLeaked`, `MgrImplementsPortPool` | the same with the static path |
| `CreatePortProofs` | `CreateTypeCorrect`, `ReturnedComplete`, `OrphansAlwaysExplained`, `CreateImplementsFactory` | one port per call, what a call has by how far it has come |
| `DiskStorageProofs` | `StoreCopiesAgree` | what the one writer of a key owes to the memory |
| `DaemonProofs` | `DaemonTypeCorrect`, `RecordsKept`, `PortsExclusive`, `NoneForgotten`, `DaemonImplementsLeases` | record and memory by the step of the handler; who has a port between its allocation and its record |
| `PluginProofs` | `PluginTypeCorrect`, `AddressesExclusive`, `RoutesNeverStale`, `UpPodsComplete`, `DownPodsClean` | devices, address and route by the step of ADD and DEL |

The heap.  `Push`, `Pop` and `Rob` leave a heap only when their loop is over.  While
bubbleUp is at slot k, only the item at k may be earlier than its parent (`UpHeap`); while
bubbleDown is at k, only the item at k may be later than its children (`DownHeap`).  In both
the children of k must be in order with k's parent, or the swap would break what lies above or
below.  `Rob` starts bubbleDown in the middle, with an item from the end of another branch:
in a queue of at most `RobSafeSize` = 5 items, the parent of every slot is an ancestor of the
last slot, so that the item is in order with what is above its new place; with six, the item
of slot 6 may come to slot 4 or 5, under slot 2, which is no ancestor of 6.  That the root is the
earliest item is an induction along the path to the root; the provers do not take an
operator as a parameter of an induction theorem, so it is done with the least slot that
is earlier than the root (`LeastNumber`, from the well-foundedness of <).

The pool.  `IInv` is types together with `Hands` (a process has a resource at hand exactly
at the labels where it should, and the resource exists or has existed), `OneOwner` and
`TokenBalance`.  `OneOwner` is not inductive without `Hands`: a freshly created port is new
because it is not in `created`, and everything at hand is.  `TokenBalance` needs
`OneOwner`, since a sum of cardinalities changes by one only if the port really changes
sides, and types need it in turn: that `tokenCh` stays within the channel follows from its
guards.  `WithinCapacity` is a consequence of the balance; `InUseNeverDeleted` follows from
`OneOwner` (the port being deleted is `item`, not in use).  For the refinement each step is
shown to be a step of `PortPool` or to leave its variables unchanged, one lemma for the
goroutine and one for callers.

`StockInv` carries `AtMostOneDeadPort` and `NoPortLeaked`.  Both speak of the pool only,
and a port moves between the pool and the goroutine's hand: the port of a Dispose that failed
after it took effect is put back, popped and put back again.  `Stock` counts both places.
Why there is never a second dead port: the failing Dispose keeps the factory's lock, and
with that the goroutine never again gets to the delete (`DeadInv`).  `NoPortLeaked` excepts `orphans`, the ports that
a failing Create made and returned to nobody.  Of every step that is not
one of Dispose, `Keeps` is all the argument needs.  `PortManagerProofs` reuses the lemmas of the
pool for all steps but those of the static path.

`CreatePort`.  That a returned port is complete depends on no other call having it
(`Owners`) and on what the call has received (`CallInv`).  The refinement maps the step at
which a call ends to `CreateReturns` or `CreateFails` of `PortFactory`; `Addresses` gives
the guard that the address is free, and that a call under way has no orphan (`CallInv`)
tells the two apart.  A failing AddTag is always possible in `CreatePort`, so that
`CreateImplementsFactory` assumes that the fault `orphan` of `PortFactory` is.

The daemon.  `RecordInv` says, for a pod that never had two requests at a time, what the
database and the memory hold, by the step of its one handler (`AloneInv`) or without one
(`QuietInv`); of the others only that their ports are stale (`CrossedInv`).
`ExclusivePort` is about running pods, and not inductive: between its allocation and
the pod's start a port is known to a handler, then to the database.  `Owned` says it of a pod
that has the port in any of these ways, and that such a port is in use.  A record that a
handler is about to delete, the port given back, does not count.  For the refinement of
`Leases` each step is shown to grant one port or to take some leases away; that a pod
without a handler keeps its lease (`FreeStays`) is `QuietInv`, by which a restart loads
what the memory had.

The plugin.  `KernelInv` ties the three places in which a port appears: the address on
eth0 and the target of the host's route are the port that the daemon keeps for the pod.
`AddressExclusive` and `NoStaleRoute` follow, as leases differ.  The invariant is kept by
`ReleaseIP` only because at that step of DEL both devices are gone (`DelInv`), and by the
kernel, because the route goes with the pair.

`DiskStorage`.  The invariant adds that a key with one writer and no race differs between
the copies at most by what that writer still owes.

Only model-checked: liveness (`AcquireReturns`, `CallReturns`, `DeletedUnlessRefused`,
`StopReturns`), for TLAPS does not reason about fairness and ENABLED here.

## Not modelled

The type `Queue` of queue.go, `dispose`, `Stat`, `GarbageCollection` and the floating-ip
calls, which nothing calls; the construction of the clients and their authentication; the
lookup of the network's and the subnet's id and of the node's metadata at a start, which
keep no state; argument parsing, configuration and logging; generated RPC code (1566
lines).  Pods with a static address are modelled in `PortManager`, not in `Daemon`.  The
service CIDR is taken to parse; were it not to, setupContainerVeth would add a default
route instead (ptp.go:132 drops the error).

## Plan

Written: queue, factory, pool, manager, storage, daemon, then CreatePort, the plugin with
its drivers and the server, in this order; and proofs of all their safety properties.  Left:
static addresses in `Daemon`, which are in `PortManager` only.
