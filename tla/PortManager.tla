----------------------------- MODULE PortManager -----------------------------
(***************************************************************************)
(* PortResourceManager (pkg/ipam/port.go): allocation and release on top   *)
(* of the pool.  A pod without annotations gets any port of the pool       *)
(* (Acquire); a pod annotated with an IP address goes through              *)
(* acquireStaticAddress, which looks for the port with this address in     *)
(* Neutron and in the idle queue, or creates it past the token channel.    *)
(*                                                                         *)
(* Allocate of a pod whose annotation is an address pool, or cannot be     *)
(* parsed, returns an error and touches nothing; it is left out.           *)
(***************************************************************************)
EXTENDS ObjectPool

CONSTANTS StaticIPs,   \* the addresses that pods ask for
          NoIP         \* no address asked for

ASSUME StaticAssumption == NoIP \notin StaticIPs

VARIABLES want,        \* the address a caller's pod asks for
          seen         \* the idle queue when the caller called GetIdle

mgrVars == <<want, seen>>
allVars == <<vars, mgrVars>>

MgrInit ==
  /\ Init
  /\ want = [c \in Callers |-> NoIP]
  /\ seen = [c \in Callers |-> {}]

\* A call that returned wants nothing any more; the others go on.
KeepWant ==
  /\ want' = [c \in Callers |-> IF pc'[c] = "ready" THEN NoIP ELSE want[c]]
  /\ seen' = [c \in Callers |-> IF pc'[c] = "scan" THEN seen[c] ELSE {}]

\* Allocate without a static address: Acquire, with the port of the pod's
\* previous life as the preferred one (or none).
Allocate(c, prefer) ==
  /\ AcquireCall(c, prefer)
  /\ UNCHANGED mgrVars

AllocateStatic(c, ip) ==
  /\ Running
  /\ pc[c] = "ready"
  /\ Step(c, "list", NoRes)
  /\ want' = [want EXCEPT ![c] = ip]
  /\ UNCHANGED <<poolVars, loopVars, factoryVars, seen>>
-----------------------------------------------------------------------------
(* acquireStaticAddress                                                     *)

\* The caller goes on to the label "to"; only callers' state changes.
StaticGoto(c, to, r) ==
  /\ Step(c, to, r)
  /\ KeepWant
  /\ UNCHANGED <<poolVars, loopVars, factoryVars>>

\* ListPortWithFilter and GetSubnet, and the search for the address.  The
\* listing keeps the last page only, so that an existing port may be missed.
\* A failing call makes acquireStaticAddress return its error.
ListPorts(c) ==
  /\ pc[c] = "list"
  /\ \/ (\E p \in ports : IPof[p] = want[c]) /\ StaticGoto(c, "getIdle", NoRes)
     \/ StaticGoto(c, "createStatic", NoRes)
     \/ StaticGoto(c, "ready", NoRes)

\* GetIdle returns the slice of the heap itself, without the lock.
GetIdle(c) ==
  /\ pc[c] = "getIdle"
  /\ \/ idle = {} /\ StaticGoto(c, "ready", NoRes)
     \/ /\ idle # {}
        /\ Step(c, "scan", NoRes)
        /\ seen' = [seen EXCEPT ![c] = idle]
        /\ UNCHANGED <<poolVars, loopVars, factoryVars, want>>

\* The scan reads the slots while other goroutines move items between them.
ScanHit(c) ==
  /\ pc[c] = "scan"
  /\ \E i \in idle : IPof[i.res] = want[c] /\ StaticGoto(c, "acquire", i.res)

\* It misses an idle port only if the queue has changed since GetIdle.
ScanMiss(c) ==
  /\ pc[c] = "scan"
  /\ (\A i \in idle : IPof[i.res] # want[c]) \/ idle # seen[c]
  /\ StaticGoto(c, "ready", NoRes)

\* Create(ipAddress): no capacity check, and no token.
StaticCreatable(c) == {r \in Creatable : IPof[r] = want[c]}

StaticCreate(c) ==
  /\ pc[c] = "createStatic"
  /\ \E r \in StaticCreatable(c) : CreateReturns(r) /\ Step(c, "appendStatic", r)
  /\ UNCHANGED <<poolVars, loopVars>>
  /\ KeepWant

StaticError(c) ==
  /\ pc[c] = "createStatic"
  /\ CreateFails(StaticCreatable(c))
  /\ Step(c, "ready", NoRes)
  /\ UNCHANGED <<poolVars, loopVars>>
  /\ KeepWant

StaticAppend(c) ==
  /\ pc[c] = "appendStatic"
  /\ AppendPort
  /\ Step(c, "addIdle", res[c])
  /\ UNCHANGED <<poolVars, loopVars>>
  /\ KeepWant

\* Mutants of StaticAddIdle: the port is handed to the caller and stays in
\* the queue; the port is not added to the pool before Acquire.
StaticAddBoth(c) ==
  /\ pc[c] = "addIdle" /\ lock = "free"
  /\ idle' = Pushed(res[c], now)
  /\ inuse' = inuse \cup {res[c]}
  /\ surplus' = surplus + 1
  /\ Step(c, "ready", NoRes)
  /\ UNCHANGED <<ordered, lock, tokenCh, now, loopVars, factoryVars>>
  /\ KeepWant

StaticAddNowhere(c) == pc[c] = "addIdle" /\ StaticGoto(c, "acquire", res[c])

\* AddIdle, then Acquire with the new port as the preferred one: between the
\* two the port is there for every other caller and for the goroutine.
StaticAddIdle(c) ==
  /\ pc[c] = "addIdle" /\ lock = "free"
  /\ idle' = Pushed(res[c], now)
  /\ surplus' = surplus + 1
  /\ Step(c, "acquire", res[c])
  /\ UNCHANGED <<ordered, inuse, lock, tokenCh, now, loopVars, factoryVars>>
  /\ KeepWant

StaticStep(c) ==
  \/ ListPorts(c) \/ GetIdle(c) \/ ScanHit(c) \/ ScanMiss(c)
  \/ StaticCreate(c) \/ StaticError(c) \/ StaticAppend(c) \/ StaticAddIdle(c)

MgrNext ==
  \/ PoolStep /\ KeepWant
  \/ \E c \in Callers, r \in created \cup {NoRes} : Allocate(c, r)
  \/ \E c \in Callers, ip \in StaticIPs : AllocateStatic(c, ip)
  \/ \E c \in Callers : StaticStep(c)

MgrSpec == MgrInit /\ [][MgrNext]_allVars
-----------------------------------------------------------------------------
(* Properties.  The invariants of ObjectPool hold with the static path too. *)

MgrTypeOK ==
  /\ TypeOK
  /\ want \in [Callers -> StaticIPs \cup {NoIP}]
  /\ seen \in [Callers -> SUBSET Item]

\* port.go:292: "if ip existing return port else create new port with ip
\* address": a call of acquireStaticAddress that returns a port returns the
\* one with the address asked for.
StaticAddressReturned ==
  [][\A c \in Callers :
       want[c] # NoIP /\ pc[c] # "ready" /\ pc'[c] = "ready"
         => \A r \in inuse' \ inuse : IPof[r] = want[c]]_allVars
=============================================================================
