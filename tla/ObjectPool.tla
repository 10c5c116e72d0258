------------------------------ MODULE ObjectPool ------------------------------
(***************************************************************************)
(* SimpleObjectPool (pkg/pool/pool.go): the pool of Neutron ports kept by  *)
(* the daemon of one node.                                                 *)
(*                                                                         *)
(* Processes: the goroutine of startCheckIdleTicker ("loop"), which first  *)
(* runs the rest of NewSimpleObjectPool, and the callers (one per gRPC     *)
(* handler).  Between a lock and its unlock the code never blocks, so that *)
(* a critical section is one step, enabled when the lock is free; what     *)
(* happens outside the lock, and between two critical sections, are steps  *)
(* of their own.  The lock is "held" only where the code returns from      *)
(* checkIdle without unlocking it, and nobody can free it then.            *)
(***************************************************************************)
EXTENDS PortFactory

CONSTANTS Callers,       \* goroutines that call the pool
          NoRes,         \* no resource: the empty id, the nil resource
          cfgMinIdle, cfgMaxIdle, cfgCapacity,   \* PoolConfig
          InitialPorts,  \* ports in Neutron when the daemon starts
          StickTimes,    \* the reverse durations that callers release with
          MaxTime        \* bound on the clock

INSTANCE IdleQueue

DefaultMaxIdle == 20
DefaultCapacity == 50

minIdle == cfgMinIdle
maxIdle == IF cfgMaxIdle = 0 THEN DefaultMaxIdle ELSE cfgMaxIdle
capacity == IF cfgCapacity = 0 THEN DefaultCapacity ELSE cfgCapacity

\* The checks of NewSimpleObjectPool, made before the defaults are applied.
ASSUME ConfigAssumption ==
  /\ cfgMinIdle \in Nat /\ cfgMaxIdle \in Nat /\ cfgCapacity \in Nat
  /\ cfgMinIdle <= cfgMaxIdle
  /\ cfgMaxIdle <= cfgCapacity

ASSUME PoolAssumption ==
  /\ IsFiniteSet(Callers)
  /\ NoRes \notin Res
  /\ InitialPorts \subseteq Res /\ IsFiniteSet(InitialPorts)
  /\ \A p, q \in InitialPorts : IPof[p] = IPof[q] => p = q
  /\ StickTimes \subseteq Nat
  /\ MaxTime \in Nat

VARIABLES
  idle, ordered,   \* the idle queue (see IdleQueue) ...
  inuse,           \* ... and the ids in the inuse map
  lock,            \* SimpleObjectPool.lock: "free" or "held"
  tokenCh,         \* tokens in the channel
  now,             \* the clock
  surplus,         \* history: ports that entered the pool without a token
  loop, started,   \* the goroutine: where it is; past its first checkIdle
  item,            \* ... the resource it is disposing of or has created
  sizeSeen,        \* ... what size() has read of idle.Size()
  addition,        \* ... receives left to try in checkInsufficient
  tokenAcquired,   \* ... tokens it holds
  pc, res          \* the callers: where they are; the resource at hand

poolVars == <<idle, ordered, inuse, lock, tokenCh, now, surplus>>
loopVars == <<loop, started, item, sizeSeen, addition, tokenAcquired>>
callerVars == <<pc, res>>
vars == <<poolVars, loopVars, callerVars, factoryVars>>

LoopPC == {"preload", "failed",
           "idleOverMax", "idleNonEmpty", "sizeIdle", "sizeInuse", "lockIdle",
           "dispose", "deleting", "putToken", "putBack", "select",
           "needAddition", "takeTokens", "create", "append", "addIdle", "returnToken"}

\* The last six are the steps of acquireStaticAddress (PortManager).
CallerPC == {"ready", "acquire", "select", "create", "append", "addInuse", "returnToken",
             "list", "getIdle", "scan", "createStatic", "appendStatic", "addIdle"}

\* NewSimpleObjectPool has returned: the pool can be called.
Running == loop \notin {"preload", "failed"}

size == Cardinality(idle) + Cardinality(inuse)

\* idle.Push(&poolItem{...}) with the given time
Pushed(r, t) == idle \cup {[res |-> r, reverse |-> t]}
-----------------------------------------------------------------------------
(* The start: Initializer (NewPortResourceManager), then preload.           *)

\* Every port listed for this node is in use if the store maps it to a pod
\* and idle otherwise; the other initial ports belong to someone else.
Init ==
  /\ ports = InitialPorts
  /\ created = InitialPorts /\ orphans = {}
  /\ factoryLock = "free"
  /\ \E I \in SUBSET InitialPorts, U \in SUBSET InitialPorts :
       /\ I \cap U = {}
       /\ idle = {[res |-> r, reverse |-> 0] : r \in I}
       /\ inuse = U
  /\ ordered = TRUE
  /\ lock = "free"
  /\ tokenCh = 0 /\ now = 0 /\ surplus = 0
  /\ loop = "preload" /\ started = FALSE
  /\ item = NoRes
  /\ sizeSeen = 0 /\ addition = 0 /\ tokenAcquired = 0
  /\ pc = [c \in Callers |-> "ready"]
  /\ res = [c \in Callers |-> NoRes]

PreloadNeeded == Cardinality(idle) < minIdle /\ size < capacity

PreloadCreate ==
  /\ loop = "preload" /\ PreloadNeeded
  /\ \E r \in Res : CreateReturns(r) /\ idle' = Pushed(r, now)
  /\ UNCHANGED <<ordered, inuse, lock, tokenCh, now, surplus, loopVars, callerVars>>

PreloadError ==
  /\ loop = "preload" /\ PreloadNeeded
  /\ CreateFails(Creatable)
  /\ loop' = "failed"
  /\ UNCHANGED <<poolVars, started, item, sizeSeen, addition, tokenAcquired, callerVars>>

PreloadDone ==
  /\ loop = "preload" /\ ~PreloadNeeded
  /\ tokenCh' = IF size < capacity THEN capacity - size ELSE 0
  /\ surplus' = IF size > capacity THEN size - capacity ELSE 0
  /\ loop' = "idleOverMax"
  /\ UNCHANGED <<idle, ordered, inuse, lock, now, started, item, sizeSeen, addition,
                 tokenAcquired, callerVars, factoryVars>>
-----------------------------------------------------------------------------
(* checkIdle.  tooManyIdle reads the sizes without the lock, one by one.    *)

\* The goroutine goes from one label to another and does nothing else.
Goto(from, to) ==
  /\ loop = from
  /\ loop' = to
  /\ UNCHANGED <<poolVars, started, item, sizeSeen, addition, tokenAcquired,
                 callerVars, factoryVars>>

\* Where checkIdle returns to: the first call is not followed by a refill.
Returned == IF started THEN "needAddition" ELSE "select"

ReadIdleOverMax ==
  Goto("idleOverMax", IF Cardinality(idle) > maxIdle THEN "lockIdle" ELSE "idleNonEmpty")

ReadIdleNonEmpty ==
  /\ loop = "idleNonEmpty"
  /\ loop' = IF Cardinality(idle) > 0 THEN "sizeIdle" ELSE Returned
  /\ started' = (started \/ idle = {})
  /\ UNCHANGED <<poolVars, item, sizeSeen, addition, tokenAcquired, callerVars, factoryVars>>

\* An Acquire that has popped its item and not yet entered it in inuse is in
\* the middle of its critical section: this read already misses the item,
\* and the next one may not see it in inuse yet.
ReadSizeIdle ==
  /\ loop = "sizeIdle"
  /\ loop' = "sizeInuse"
  /\ \/ sizeSeen' = Cardinality(idle)
     \/ /\ idle # {} /\ lock = "free"
        /\ \E c \in Callers : pc[c] = "acquire"
        /\ sizeSeen' = Cardinality(idle) - 1
  /\ UNCHANGED <<poolVars, started, item, addition, tokenAcquired, callerVars, factoryVars>>

ReadSizeInuse ==
  /\ loop = "sizeInuse"
  /\ LET over == sizeSeen + Cardinality(inuse) > capacity
     IN  /\ loop' = IF over THEN "lockIdle" ELSE Returned
         /\ started' = (started \/ ~over)
  /\ sizeSeen' = 0
  /\ UNCHANGED <<poolVars, item, addition, tokenAcquired, callerVars, factoryVars>>

\* Mutant of TakeHead: the head is only looked at (Peek without Pop).
TakeHeadPeeks ==
  /\ loop = "lockIdle" /\ lock = "free"
  /\ \E i \in Heads(idle, ordered) : i.reverse <= now /\ item' = i.res
  /\ loop' = "dispose"
  /\ UNCHANGED <<poolVars, started, sizeSeen, addition, tokenAcquired, callerVars,
                 factoryVars>>

\* The head is due: it is popped, to be disposed of.
TakeHead ==
  /\ loop = "lockIdle" /\ lock = "free"
  /\ \E i \in Heads(idle, ordered) :
       /\ i.reverse <= now
       /\ idle' = idle \ {i}
       /\ item' = i.res
  /\ ordered' = OrderedAfterPop(idle', ordered)
  /\ loop' = "dispose"
  /\ UNCHANGED <<inuse, lock, tokenCh, now, surplus, started, sizeSeen, addition,
                 tokenAcquired, callerVars, factoryVars>>

\* Both breaks, on an empty queue and on a head that is not due yet, leave
\* the loop without unlocking.
BreakLocked ==
  /\ loop = "lockIdle" /\ lock = "free"
  /\ idle = {} \/ \E i \in Heads(idle, ordered) : i.reverse > now
  /\ lock' = "held"
  /\ loop' = Returned
  /\ started' = TRUE
  /\ UNCHANGED <<idle, ordered, inuse, tokenCh, now, surplus, item, sizeSeen, addition,
                 tokenAcquired, callerVars, factoryVars>>

DisposeStart ==
  /\ loop = "dispose"
  /\ DisposeLocks
  /\ loop' = "deleting"
  /\ UNCHANGED <<poolVars, started, item, sizeSeen, addition, tokenAcquired, callerVars>>

\* Mutant of DisposeOk: the branches are swapped, a deleted port goes back.
DisposeOkPutsBack ==
  /\ loop = "deleting"
  /\ DisposeReturns(item)
  /\ loop' = "putBack"
  /\ UNCHANGED <<poolVars, started, item, sizeSeen, addition, tokenAcquired, callerVars>>

DisposeOk ==
  /\ loop = "deleting"
  /\ DisposeReturns(item)
  /\ loop' = "putToken"
  /\ UNCHANGED <<poolVars, started, item, sizeSeen, addition, tokenAcquired, callerVars>>

DisposeError ==
  /\ loop = "deleting"
  /\ DisposeFails(item)
  /\ loop' = "putBack"
  /\ UNCHANGED <<poolVars, started, item, sizeSeen, addition, tokenAcquired, callerVars>>

\* tokenCh <- struct{}{} waits while the channel is full.
PutToken ==
  /\ loop = "putToken" /\ tokenCh < capacity
  /\ tokenCh' = tokenCh + 1
  /\ item' = NoRes
  /\ loop' = "idleOverMax"
  /\ UNCHANGED <<idle, ordered, inuse, lock, now, surplus, started, sizeSeen, addition,
                 tokenAcquired, callerVars, factoryVars>>

PutBack ==
  /\ loop = "putBack" /\ lock = "free"
  /\ idle' = Pushed(item, now)
  /\ item' = NoRes
  /\ loop' = "idleOverMax"
  /\ UNCHANGED <<ordered, inuse, lock, tokenCh, now, surplus, started, sizeSeen, addition,
                 tokenAcquired, callerVars, factoryVars>>

\* The one-minute ticker, or a notify.
Wake == Goto("select", "idleOverMax")
-----------------------------------------------------------------------------
(* checkInsufficient                                                        *)

\* Mutant of NeedAddition: no return when nothing has to be added.
NeedAdditionUnchecked ==
  /\ loop = "needAddition" /\ lock = "free"
  /\ LET missing == minIdle - Cardinality(idle)
         room == capacity - size
     IN  addition' = IF missing > room THEN room ELSE missing
  /\ loop' = "takeTokens"
  /\ UNCHANGED <<poolVars, started, item, sizeSeen, tokenAcquired, callerVars, factoryVars>>

NeedAddition ==
  /\ loop = "needAddition" /\ lock = "free"
  /\ LET missing == minIdle - Cardinality(idle)
         room == capacity - size
         need == IF missing > room THEN room ELSE missing
     IN  IF need <= 0
           THEN loop' = "select" /\ UNCHANGED addition
           ELSE loop' = "takeTokens" /\ addition' = need
  /\ UNCHANGED <<poolVars, started, item, sizeSeen, tokenAcquired, callerVars, factoryVars>>

\* One round of the receive loop, which does not wait for a token.
TakeToken ==
  /\ loop = "takeTokens"
  /\ addition' = addition - 1
  /\ IF tokenCh > 0
       THEN tokenCh' = tokenCh - 1 /\ tokenAcquired' = tokenAcquired + 1
       ELSE UNCHANGED <<tokenCh, tokenAcquired>>
  /\ loop' = CASE addition' > 0       -> "takeTokens"
               [] tokenAcquired' = 0 -> "select"
               [] OTHER              -> "create"
  /\ UNCHANGED <<idle, ordered, inuse, lock, now, surplus, started, item, sizeSeen,
                 callerVars, factoryVars>>

RefillCreate ==
  /\ loop = "create"
  /\ \E r \in Res : CreateReturns(r) /\ item' = r
  /\ loop' = "append"
  /\ UNCHANGED <<poolVars, started, sizeSeen, addition, tokenAcquired, callerVars>>

RefillError ==
  /\ loop = "create"
  /\ CreateFails(Creatable)
  /\ loop' = "returnToken"
  /\ UNCHANGED <<poolVars, started, item, sizeSeen, addition, tokenAcquired, callerVars>>

RefillAppend ==
  /\ loop = "append"
  /\ AppendPort
  /\ loop' = "addIdle"
  /\ UNCHANGED <<poolVars, started, item, sizeSeen, addition, tokenAcquired, callerVars>>

\* The end of one round of the create loop.  The notify() after the last one
\* has no receiver: the only one is the goroutine that calls it.
NextRefill ==
  /\ tokenAcquired' = tokenAcquired - 1
  /\ loop' = IF tokenAcquired' = 0 THEN "select" ELSE "create"
  /\ item' = NoRes

RefillAddIdle ==
  /\ loop = "addIdle" /\ lock = "free"
  /\ idle' = Pushed(item, now)
  /\ NextRefill
  /\ UNCHANGED <<ordered, inuse, lock, tokenCh, now, surplus, started, sizeSeen, addition,
                 callerVars, factoryVars>>

RefillReturnToken ==
  /\ loop = "returnToken" /\ tokenCh < capacity
  /\ tokenCh' = tokenCh + 1
  /\ NextRefill
  /\ UNCHANGED <<idle, ordered, inuse, lock, now, surplus, started, sizeSeen, addition,
                 callerVars, factoryVars>>

Loop ==
  \/ PreloadCreate \/ PreloadError \/ PreloadDone
  \/ ReadIdleOverMax \/ ReadIdleNonEmpty \/ ReadSizeIdle \/ ReadSizeInuse
  \/ TakeHead \/ BreakLocked
  \/ DisposeStart \/ DisposeOk \/ DisposeError \/ PutToken \/ PutBack
  \/ Wake
  \/ NeedAddition \/ TakeToken
  \/ RefillCreate \/ RefillError \/ RefillAppend \/ RefillAddIdle \/ RefillReturnToken
-----------------------------------------------------------------------------
(* Acquire                                                                  *)

\* Caller c goes to the label "to" with resource r at hand.
Step(c, to, r) ==
  /\ pc' = [pc EXCEPT ![c] = to]
  /\ res' = [res EXCEPT ![c] = r]

\* The call, with a preferred resource (from the store) or none.
AcquireCall(c, prefer) ==
  /\ Running
  /\ pc[c] = "ready"
  /\ Step(c, "acquire", prefer)
  /\ UNCHANGED <<poolVars, loopVars, factoryVars>>

\* getOneLocked: the preferred item if it is idle, else the head.
AcquireIdle(c) ==
  /\ pc[c] = "acquire" /\ lock = "free"
  /\ LET preferred == Robbable(idle, res[c])
     IN  \E i \in IF preferred # {} THEN preferred ELSE Heads(idle, ordered) :
           /\ idle' = idle \ {i}
           /\ inuse' = inuse \cup {i.res}
           /\ ordered' = IF preferred # {} THEN OrderedAfterRob(idle', ordered)
                                          ELSE OrderedAfterPop(idle', ordered)
  /\ Step(c, "ready", NoRes)
  /\ UNCHANGED <<lock, tokenCh, now, surplus, loopVars, factoryVars>>

\* Nothing idle: ErrNoAvailableResource at capacity, else wait for a token.
AcquireNoneIdle(c) ==
  /\ pc[c] = "acquire" /\ lock = "free"
  /\ idle = {}
  /\ Step(c, IF size >= capacity THEN "ready" ELSE "select", NoRes)
  /\ UNCHANGED <<poolVars, loopVars, factoryVars>>

\* Mutant of AcquireToken: the caller goes on without receiving the token.
AcquireNoToken(c) ==
  /\ pc[c] = "select"
  /\ Step(c, "create", NoRes)
  /\ UNCHANGED <<poolVars, loopVars, factoryVars>>

AcquireToken(c) ==
  /\ pc[c] = "select" /\ tokenCh > 0
  /\ tokenCh' = tokenCh - 1
  /\ Step(c, "create", NoRes)
  /\ UNCHANGED <<idle, ordered, inuse, lock, now, surplus, loopVars, factoryVars>>

\* Mutant of AcquireCtxDone: the select has no case for ctx.Done().
AcquireIgnoresCtx(c) == pc[c] = "select" /\ UNCHANGED vars

AcquireCtxDone(c) ==
  /\ pc[c] = "select"
  /\ Step(c, "ready", NoRes)
  /\ UNCHANGED <<poolVars, loopVars, factoryVars>>

AcquireCreate(c) ==
  /\ pc[c] = "create"
  /\ \E r \in Res : CreateReturns(r) /\ Step(c, "append", r)
  /\ UNCHANGED <<poolVars, loopVars>>

\* Mutant of AcquireError: returns the error and keeps the token.
AcquireErrorKeepsToken(c) ==
  /\ pc[c] = "create"
  /\ CreateFails(Creatable)
  /\ Step(c, "ready", NoRes)
  /\ UNCHANGED <<poolVars, loopVars>>

AcquireError(c) ==
  /\ pc[c] = "create"
  /\ CreateFails(Creatable)
  /\ Step(c, "returnToken", NoRes)
  /\ UNCHANGED <<poolVars, loopVars>>

AcquireAppend(c) ==
  /\ pc[c] = "append"
  /\ AppendPort
  /\ Step(c, "addInuse", res[c])
  /\ UNCHANGED <<poolVars, loopVars>>

AcquireAddInuse(c) ==
  /\ pc[c] = "addInuse" /\ lock = "free"
  /\ inuse' = inuse \cup {res[c]}
  /\ Step(c, "ready", NoRes)
  /\ UNCHANGED <<idle, ordered, lock, tokenCh, now, surplus, loopVars, factoryVars>>

AcquireReturnToken(c) ==
  /\ pc[c] = "returnToken" /\ tokenCh < capacity
  /\ tokenCh' = tokenCh + 1
  /\ Step(c, "ready", NoRes)
  /\ UNCHANGED <<idle, ordered, inuse, lock, now, surplus, loopVars, factoryVars>>

\* ReleaseWithReverse of a resource in use (of any other one it returns
\* ErrInvalidState and changes nothing).  notify() wakes the goroutine if it
\* is waiting in its select, and is dropped otherwise.
Release(r, reverse) ==
  /\ Running /\ lock = "free"
  /\ r \in inuse
  /\ inuse' = inuse \ {r}
  /\ idle' = Pushed(r, now + reverse)
  /\ \/ loop = "select" /\ loop' = "idleOverMax"
     \/ UNCHANGED loop
  /\ UNCHANGED <<ordered, lock, tokenCh, now, surplus, started, item, sizeSeen, addition,
                 tokenAcquired, callerVars, factoryVars>>

Tick ==
  /\ now < MaxTime
  /\ now' = now + 1
  /\ UNCHANGED <<idle, ordered, inuse, lock, tokenCh, surplus, loopVars, callerVars,
                 factoryVars>>

\* The steps of a call of Acquire after it was made.
AcquireStep(c) ==
  \/ AcquireIdle(c) \/ AcquireNoneIdle(c) \/ AcquireToken(c) \/ AcquireCtxDone(c)
  \/ AcquireCreate(c) \/ AcquireError(c) \/ AcquireAppend(c) \/ AcquireAddInuse(c)
  \/ AcquireReturnToken(c)

\* Everything but the calls of Acquire.
PoolStep ==
  \/ Loop
  \/ \E c \in Callers : AcquireStep(c)
  \/ \E r \in Res, t \in StickTimes : Release(r, t)
  \/ Tick

Next ==
  \/ PoolStep
  \/ \E c \in Callers, r \in created \cup {NoRes} : AcquireCall(c, r)

Spec == Init /\ [][Next]_vars

\* Goroutines that can run do run, calls to Neutron return, the ticker ticks
\* and the deadline of a request passes.  Nobody has to call the pool.
Fairness == WF_vars(Loop) /\ \A c \in Callers : WF_vars(AcquireStep(c))

FairSpec == Spec /\ Fairness
-----------------------------------------------------------------------------
(* Properties                                                               *)

TypeOK ==
  /\ ports \subseteq created /\ created \subseteq Res /\ orphans \subseteq created
  /\ factoryLock \in {"free", "held"} /\ lock \in {"free", "held"}
  /\ idle \subseteq Item /\ IsFiniteSet(idle)
  /\ inuse \subseteq created /\ IsFiniteSet(inuse)
  /\ ResOf(idle) \subseteq created
  /\ ordered \in BOOLEAN /\ started \in BOOLEAN
  /\ tokenCh \in 0..capacity
  /\ now \in Nat /\ surplus \in Nat
  /\ loop \in LoopPC
  /\ item \in created \cup {NoRes}
  /\ sizeSeen \in Nat /\ addition \in Nat /\ tokenAcquired \in Nat
  /\ pc \in [Callers -> CallerPC]
  /\ res \in [Callers -> Res \cup {NoRes}]

\* Callers that have created a port and not yet put it into the pool.
Holders == {c \in Callers : pc[c] \in {"append", "addInuse", "appendStatic", "addIdle"}}

\* Callers that have taken a token and not yet spent or returned it.
TokenPC == {"create", "append", "addInuse", "returnToken"}
TokenHolders == {c \in Callers : pc[c] \in TokenPC}

\* The goroutine has a resource that it popped and whose token is not back.
disposing == IF loop \in {"dispose", "deleting", "putToken", "putBack"} THEN 1 ELSE 0

\* No port has two owners: it is in the idle queue at most once, or in use,
\* or in the hands of the goroutine, or in those of one caller.  This is why
\* two pods are never given the same port while the first still uses it.
OneOwner ==
  /\ \A i, j \in idle : i.res = j.res => i = j
  /\ ResOf(idle) \cap inuse = {}
  /\ item \notin ResOf(idle) \cup inuse
  /\ \A c \in Holders : res[c] \notin ResOf(idle) \cup inuse \cup {item}
  /\ \A c, d \in Holders : res[c] = res[d] => c = d

\* Tokens are neither lost nor made up on any path, the error paths included:
\* those in the channel, those held, and the ports they were spent on add up
\* to the capacity, plus the ports that came in without one.
TokenBalance ==
  Running =>
    tokenCh + Cardinality(TokenHolders) + tokenAcquired + disposing + size
      = capacity + surplus

\* However many callers and refills race, the pool does not outgrow its
\* capacity, unless ports came in without a token (surplus).
WithinCapacity == Running => size <= capacity + surplus

\* A port in the pool exists in Neutron.  The exception is a delete that took
\* effect but reported an error; the factory lock is lost in the same moment,
\* so that it happens to one port at most.
AtMostOneDeadPort ==
  LET dead == (ResOf(idle) \cup inuse) \ ports
  IN  /\ Cardinality(dead) <= 1
      /\ dead # {} => factoryLock = "held"

\* No path loses a port: what this daemon has created and not deleted is in
\* the pool or in somebody's hands, unless Create itself left it behind.
NoPortLeaked ==
  ports \ InitialPorts \subseteq
    ResOf(idle) \cup inuse \cup {item} \cup {res[c] : c \in Holders} \cup orphans

\* A port is never deleted from Neutron while a pod uses it.
InUseNeverDeleted == [][\A r \in inuse \cap ports : r \in ports']_vars

\* Seen from outside, with the queue as a set and without tokens, lock and
\* goroutine, the pool is the abstract PortPool: every critical section and
\* every call to Neutron is one of its steps or none.
Abstract == INSTANCE PortPool WITH idle <- ResOf(idle)
ImplementsPortPool == Abstract!Spec

\* The goroutine lost the factory lock in Dispose.
FactoryStuck == factoryLock = "held" /\ loop # "deleting"

\* Every call of Acquire returns, whatever the others do, unless one of the
\* two mutexes was lost or a surplus port left a token without room in the
\* channel: there is no other way for a caller to wait for ever.
AcquireReturns ==
  \A c \in Callers :
    pc[c] # "ready" ~> \/ pc[c] = "ready"
                       \/ lock = "held" \/ FactoryStuck
                       \/ surplus > 0 /\ tokenCh = capacity

\* pool.go:198, in checkIdle: the head "will never [be] after now".
NeverAfterNow == loop = "lockIdle" => \A i \in Heads(idle, ordered) : i.reverse <= now
=============================================================================
