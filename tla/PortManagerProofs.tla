-------------------------- MODULE PortManagerProofs --------------------------
(***************************************************************************)
(* The static-address path of PortManager keeps the invariants of the pool *)
(* although it creates ports past the token channel.  The steps of the     *)
(* pool itself are those of ObjectPoolProofs.                              *)
(***************************************************************************)
EXTENDS PortManager, ObjectPoolProofs

\* The actions that PortManager adds to those of ObjectPool.
StaticAction ==
  \/ \E c \in Callers, ip \in StaticIPs : AllocateStatic(c, ip)
  \/ \E c \in Callers : StaticStep(c)

\* Every other step of the manager is a step of the pool.
LEMMA MgrSplit == [MgrNext]_allVars => [Next]_vars \/ StaticAction
BY DEF MgrNext, allVars, Next, Allocate, StaticAction

\* The static steps that move the caller only: it has nothing in hand, before
\* and after, and no token; or it goes on with the port that it has.
Moves(c) ==
  /\ UNCHANGED <<poolVars, loopVars, factoryVars>>
  /\ \/ /\ pc[c] \in {"ready", "list", "getIdle", "scan"}
        /\ \E to \in {"ready", "list", "getIdle", "scan", "createStatic", "acquire"},
              r \in created \cup {NoRes} : Step(c, to, r)
        /\ Running
     \/ pc[c] = "appendStatic" /\ Step(c, "addIdle", res[c])

LEMMA StaticSplit ==
  ASSUME TypeInv, StaticAction
  PROVE  \E c \in Callers : Moves(c) \/ StaticCreate(c) \/ StaticError(c) \/ StaticAddIdle(c)
<1> USE DEF Moves, factoryVars
<1>1. ASSUME NEW c \in Callers, NEW ip \in StaticIPs, AllocateStatic(c, ip) PROVE Moves(c)
  BY <1>1 DEF AllocateStatic
<1>2. ASSUME NEW c \in Callers, pc[c] # "ready" PROVE Running
  BY <1>2 DEF TypeInv, Hands
<1>3. ASSUME NEW c \in Callers, ListPorts(c) \/ GetIdle(c) \/ ScanMiss(c) PROVE Moves(c)
  BY <1>2, <1>3 DEF ListPorts, GetIdle, ScanMiss, StaticGoto
<1>4. ASSUME NEW c \in Callers, ScanHit(c) PROVE Moves(c)
  <2>1. PICK i \in idle : StaticGoto(c, "acquire", i.res)
    BY <1>4 DEF ScanHit
  <2>2. i.res \in created
    BY DEF TypeInv, TypeOK, ResOf
  <2> QED
    BY <1>2, <1>4, <2>1, <2>2 DEF ScanHit, StaticGoto
<1>5. ASSUME NEW c \in Callers, StaticAppend(c) PROVE Moves(c)
  BY <1>5 DEF StaticAppend, AppendPort
<1> QED
  BY <1>1, <1>3, <1>4, <1>5 DEF StaticAction, StaticStep
-----------------------------------------------------------------------------
LEMMA StaticType == TypeInv /\ StaticAction => TypeInv'
<1> SUFFICES ASSUME TypeInv, StaticAction PROVE TypeInv'
  OBVIOUS
<1> USE PoolAssumption, ConfigType
<1> USE DEF TypeInv, TypeOK, Hands, Holders, Running, CallerPC, poolVars, loopVars, factoryVars, Step
<1>1. PICK c \in Callers : Moves(c) \/ StaticCreate(c) \/ StaticError(c) \/ StaticAddIdle(c)
  BY StaticSplit
<1>2. CASE Moves(c)
  BY <1>2 DEF Moves
<1>3. CASE StaticCreate(c)
  BY <1>3 DEF StaticCreate, StaticCreatable, CreateReturns, Creatable
<1>4. CASE StaticError(c)
  BY <1>4 DEF StaticError, StaticCreatable, CreateFails, Creatable
<1>5. CASE StaticAddIdle(c)
  BY <1>5, PushLemma DEF StaticAddIdle
<1> QED
  BY <1>1, <1>2, <1>3, <1>4, <1>5

LEMMA StaticOwner == TypeInv /\ OneOwner /\ StaticAction => OneOwner'
<1> SUFFICES ASSUME TypeInv, OneOwner, StaticAction PROVE OneOwner'
  OBVIOUS
<1> USE PoolAssumption
<1> USE DEF poolVars, loopVars, factoryVars, Step
<1>0. /\ idle \subseteq Item /\ IsFiniteSet(idle) /\ Unique(idle)
      /\ ResOf(idle) \cup inuse \subseteq created /\ created \subseteq Res /\ NoRes \notin created
      /\ item \in created \cup {NoRes} /\ \A c \in Holders : res[c] \in created
      /\ pc \in [Callers -> CallerPC] /\ res \in [Callers -> Res \cup {NoRes}]
      /\ now \in Nat
  BY DEF TypeInv, TypeOK, Hands, OneOwner, Unique
<1>1. PICK c \in Callers : Moves(c) \/ StaticCreate(c) \/ StaticError(c) \/ StaticAddIdle(c)
  BY StaticSplit
<1>2. CASE Moves(c) \/ StaticError(c)
  <2>1. \A d \in Holders' : d \in Holders /\ res'[d] = res[d]
    BY <1>0, <1>2 DEF Moves, StaticError, Holders
  <2> QED
    BY <1>2, <2>1, OwnerFrame DEF Moves, StaticError
<1>3. CASE StaticCreate(c)
  <2>1. PICK r \in Res \ created : res' = [res EXCEPT ![c] = r]
    BY <1>3 DEF StaticCreate, StaticCreatable, CreateReturns, Creatable
  <2>2. Holders' = Holders \cup {c} /\ UNCHANGED <<idle, inuse, item>>
    BY <1>0, <1>3 DEF StaticCreate, Holders
  <2> QED
    BY <1>0, <2>1, <2>2 DEF OneOwner, Holders
<1>4. CASE StaticAddIdle(c)
  <2>1. Holders' = Holders \ {c} /\ c \in Holders /\ UNCHANGED <<inuse, item>>
    BY <1>0, <1>4 DEF StaticAddIdle, Holders
  <2>2. idle' = Pushed(res[c], now) /\ res[c] \in created /\ res[c] \notin ResOf(idle)
    BY <1>0, <1>4, <2>1 DEF StaticAddIdle, OneOwner
  <2>3. ResOf(idle') = ResOf(idle) \cup {res[c]} /\ Unique(idle')
    BY <1>0, <2>2, PushLemma
  <2>4. \A d \in Holders' : res'[d] = res[d]
    BY <1>0, <1>4 DEF StaticAddIdle, Holders
  <2> QED
    BY <1>0, <2>1, <2>2, <2>3, <2>4 DEF OneOwner, Unique
<1> QED
  BY <1>1, <1>2, <1>3, <1>4

LEMMA StaticBalance == TypeInv /\ OneOwner /\ TokenBalance /\ StaticAction => TokenBalance'
<1> SUFFICES ASSUME TypeInv, OneOwner, TokenBalance, StaticAction PROVE TokenBalance'
  OBVIOUS
<1> USE ConfigType, PoolAssumption
<1> USE DEF poolVars, loopVars, factoryVars, TokenBalance, Running, disposing, size, Step
<1>0. /\ IsFiniteSet(idle) /\ Cardinality(idle) \in Nat /\ Cardinality(inuse) \in Nat
      /\ Cardinality(TokenHolders) \in Nat
      /\ tokenCh \in Nat /\ tokenAcquired \in Nat /\ surplus \in Nat /\ now \in Nat
      /\ idle \subseteq Item /\ created \subseteq Res
  <2>1. IsFiniteSet(TokenHolders)
    BY FS_Subset DEF TokenHolders
  <2> QED
    BY <2>1, FS_CardinalityType DEF TypeInv, TypeOK
<1>1. PICK c \in Callers : Moves(c) \/ StaticCreate(c) \/ StaticError(c) \/ StaticAddIdle(c)
  BY StaticSplit
<1>2. TokenHolders' = TokenHolders
  <2>1. PICK to : pc[c] \notin TokenPC /\ to \notin TokenPC /\ pc' = [pc EXCEPT ![c] = to]
    BY <1>1 DEF Moves, StaticCreate, StaticError, StaticAddIdle, TokenPC
  <2> QED
    BY <2>1, HoldersMove DEF TypeInv
<1>3. CASE Moves(c) \/ StaticCreate(c) \/ StaticError(c)
  BY <1>0, <1>2, <1>3 DEF Moves, StaticCreate, StaticError
<1>4. CASE StaticAddIdle(c)
  <2>1. idle' = Pushed(res[c], now) /\ res[c] \in created /\ res[c] \notin ResOf(idle)
    BY <1>4 DEF StaticAddIdle, OneOwner, Holders, TypeInv, Hands
  <2>2. Cardinality(idle') = Cardinality(idle) + 1
    BY <1>0, <2>1, PushLemma
  <2> QED
    BY <1>0, <1>2, <1>4, <2>2 DEF StaticAddIdle
<1> QED
  BY <1>1, <1>3, <1>4
-----------------------------------------------------------------------------
LEMMA MgrInductive == MgrSpec => []IInv
<1>1. MgrInit => IInv
  BY TypeInit, OwnerInit, BalanceInit DEF IInv, MgrInit
<1>2. IInv /\ [MgrNext]_allVars => IInv'
  BY MgrSplit, TypeStep, OwnerStep, BalanceStep, StaticType, StaticOwner, StaticBalance DEF IInv
<1> QED
  BY <1>1, <1>2, PTL DEF MgrSpec

\* What callers keep of their request is well typed in every state.
THEOREM MgrTypeCorrect == MgrSpec => []MgrTypeOK
<1> USE DEF MgrTypeOK, mgrVars
<1>1. MgrInit => MgrTypeOK
  <2> SUFFICES ASSUME MgrInit PROVE MgrTypeOK
    OBVIOUS
  <2>1. TypeOK
    BY TypeInit DEF MgrInit, TypeInv
  <2> QED
    BY <2>1 DEF MgrInit
<1>2. IInv /\ IInv' /\ MgrTypeOK /\ [MgrNext]_allVars => MgrTypeOK'
  <2> SUFFICES ASSUME IInv, IInv', MgrTypeOK, [MgrNext]_allVars PROVE MgrTypeOK'
    OBVIOUS
  <2>0. TypeOK' /\ idle \subseteq Item
    BY DEF IInv, TypeInv, TypeOK
  <2>1. CASE KeepWant
    BY <2>0, <2>1 DEF KeepWant
  <2>2. CASE UNCHANGED mgrVars
    BY <2>0, <2>2
  <2>3. ASSUME NEW c \in Callers, NEW ip \in StaticIPs, AllocateStatic(c, ip) PROVE MgrTypeOK'
    BY <2>0, <2>3 DEF AllocateStatic
  <2>4. ASSUME NEW c \in Callers, GetIdle(c), ~KeepWant PROVE MgrTypeOK'
    BY <2>0, <2>4 DEF GetIdle, StaticGoto
  <2>5. ASSUME NEW c \in Callers, StaticStep(c), ~GetIdle(c) PROVE KeepWant
    BY <2>5 DEF StaticStep, ListPorts, ScanHit, ScanMiss, StaticCreate, StaticError, StaticAppend,
       StaticAddIdle, StaticGoto
  <2> QED
    BY <2>1, <2>2, <2>3, <2>4, <2>5 DEF MgrNext, allVars, Allocate
<1> QED
  BY <1>1, <1>2, MgrInductive, PTL DEF MgrSpec

\* acquireStaticAddress, which adds its new port to the idle queue before it
\* acquires it and scans that queue without the lock, still never gives a
\* port to two owners.
THEOREM MgrOneOwner == MgrSpec => []OneOwner
<1>1. IInv => OneOwner
  BY DEF IInv
<1> QED
  BY <1>1, MgrInductive, PTL

\* Static creation takes no token: the balance holds with exactly one surplus
\* port for each of them.
THEOREM MgrTokensBalance == MgrSpec => []TokenBalance
<1>1. IInv => TokenBalance
  BY DEF IInv
<1> QED
  BY <1>1, MgrInductive, PTL

LEMMA StaticHeldExist == TypeInv /\ HeldExist /\ StaticAction => HeldExist'
<1> SUFFICES ASSUME TypeInv, HeldExist, StaticAction PROVE HeldExist'
  OBVIOUS
<1>0. pc \in [Callers -> CallerPC] /\ res \in [Callers -> Res \cup {NoRes}]
  BY DEF TypeInv, TypeOK
<1>1. PICK c \in Callers : Moves(c) \/ StaticCreate(c) \/ StaticError(c) \/ StaticAddIdle(c)
  BY StaticSplit
<1> QED
  BY <1>0, <1>1 DEF Moves, StaticCreate, StaticError, StaticAddIdle, Step, HeldExist, Holders,
     CreateReturns, CreateFails, factoryVars

LEMMA StaticImplements == IInv /\ StaticAction => [Abstract!Next]_(Abstract!poolVars)
<1> SUFFICES ASSUME IInv, StaticAction PROVE [Abstract!Next]_(Abstract!poolVars)
  OBVIOUS
<1> USE DEF poolVars, loopVars, factoryVars
<1>0. /\ idle \subseteq Item /\ IsFiniteSet(idle) /\ created \subseteq Res /\ now \in Nat
  BY DEF IInv, TypeInv, TypeOK
<1>1. PICK c \in Callers : Moves(c) \/ StaticCreate(c) \/ StaticError(c) \/ StaticAddIdle(c)
  BY StaticSplit DEF IInv
<1>2. CASE Moves(c)
  BY <1>2, PoolStutter DEF Moves
<1>3. CASE StaticCreate(c)
  <2>1. PICK r \in Creatable : CreateReturns(r)
    BY <1>3 DEF StaticCreate, StaticCreatable
  <2>2. Abstract!Create(r) /\ r \in Res
    BY <1>3, <2>1 DEF StaticCreate, CreateReturns, Creatable, Abstract!Create
  <2> QED
    BY <2>2 DEF Abstract!Next
<1>4. CASE StaticError(c)
  <2>1. StaticCreatable(c) \in SUBSET Creatable
    BY DEF StaticCreatable
  <2> QED
    BY <1>4, <2>1, CreateFailsAbstract DEF StaticError
<1>5. CASE StaticAddIdle(c)
  <2>1. res[c] \in created /\ res[c] \notin ResOf(idle) \cup inuse
    BY <1>5 DEF StaticAddIdle, IInv, TypeInv, Hands, OneOwner, Holders
  <2>2. ResOf(idle') = ResOf(idle) \cup {res[c]}
    BY <1>0, <1>5, <2>1, PushLemma DEF StaticAddIdle
  <2>3. Abstract!AddIdle(res[c])
    BY <1>0, <1>5, <2>1, <2>2 DEF StaticAddIdle, Abstract!AddIdle
  <2> QED
    BY <1>0, <2>1, <2>3 DEF Abstract!Next
<1> QED
  BY <1>1, <1>2, <1>3, <1>4, <1>5

\* The port manager as a whole, static addresses included, implements the
\* abstract pool.
THEOREM MgrImplementsPortPool == MgrSpec => ImplementsPortPool
<1>1. MgrInit => HeldExist /\ Abstract!Init
  BY ImplementsInit DEF MgrInit, Init, HeldExist, Holders
<1>2. IInv /\ HeldExist /\ [MgrNext]_allVars => HeldExist'
  BY MgrSplit, HeldExistStep, StaticHeldExist DEF IInv
<1>3. IInv /\ HeldExist /\ [MgrNext]_allVars => [Abstract!Next]_(Abstract!poolVars)
  BY MgrSplit, ImplementsStep, StaticImplements
<1> QED
  BY <1>1, <1>2, <1>3, MgrInductive, PTL DEF MgrSpec, ImplementsPortPool, Abstract!Spec
-----------------------------------------------------------------------------
(* Dead ports and leaked ports *)

\* The static path drops no port and brings none into the pool that is gone.
LEMMA StaticKeeps ==
  ASSUME TypeInv, HeldExist, StaticAction
  PROVE  Keeps
<1> USE DEF poolVars, loopVars, factoryVars, Step
<1>0. /\ idle \subseteq Item /\ IsFiniteSet(idle) /\ created \subseteq Res /\ now \in Nat
      /\ pc \in [Callers -> CallerPC] /\ res \in [Callers -> Res \cup {NoRes}]
  BY DEF TypeInv, TypeOK
<1>1. PICK c \in Callers : Moves(c) \/ StaticCreate(c) \/ StaticError(c) \/ StaticAddIdle(c)
  BY StaticSplit
<1>2. CASE Moves(c)
  <2>1. Holders' = Holders /\ \A d \in Holders : res'[d] = res[d]
    BY <1>0, <1>2 DEF Moves, Holders
  <2>2. Held' = Held
    BY <2>1, HeldLemma
  <2> QED
    BY <1>2, <2>2 DEF Moves, Keeps, Stock, InHand
<1>3. CASE StaticCreate(c)
  <2>1. PICK r \in Res : CreateReturns(r) /\ res' = [res EXCEPT ![c] = r]
    BY <1>3 DEF StaticCreate, StaticCreatable, Creatable
  <2>2. Holders' = Holders \cup {c} /\ c \notin Holders /\ UNCHANGED <<idle, inuse, loop, item>>
    BY <1>0, <1>3 DEF StaticCreate, Holders
  <2>3. res'[c] = r /\ \A d \in Holders : res'[d] = res[d]
    BY <1>0, <2>1, <2>2 DEF Holders
  <2>4. Held' = Held \cup {r}
    BY <2>2, <2>3, HeldLemma
  <2> QED
    BY <2>1, <2>2, <2>4 DEF CreateReturns, Keeps, Stock, InHand
<1>4. CASE StaticError(c)
  <2>1. Holders' = Holders /\ \A d \in Holders : res'[d] = res[d]
    BY <1>0, <1>4 DEF StaticError, Holders
  <2>2. Held' = Held
    BY <2>1, HeldLemma
  <2>3. CreateFails(StaticCreatable(c)) /\ UNCHANGED <<idle, inuse, loop, item>>
    BY <1>4 DEF StaticError
  <2> QED
    BY <2>2, <2>3, CreateFailsKeeps DEF Keeps, Stock, InHand
<1>5. CASE StaticAddIdle(c)
  <2>1. /\ Holders' = Holders \ {c} /\ c \in Holders
        /\ UNCHANGED <<inuse, loop, item, ports, orphans, factoryLock>>
    BY <1>0, <1>5 DEF StaticAddIdle, Holders
  <2>2. \A d \in Holders' : res'[d] = res[d]
    BY <1>0, <1>5, <2>1 DEF StaticAddIdle, Holders
  <2>3. Held \subseteq Held' \cup {res[c]}
    BY <2>1, <2>2, HeldLemma
  <2>4. res[c] \in ports /\ idle' = Pushed(res[c], now)
    BY <1>5, <2>1 DEF StaticAddIdle, HeldExist
  <2>5. ResOf(idle') = ResOf(idle) \cup {res[c]}
    BY <1>0, <2>4, PushLemma DEF TypeInv, TypeOK
  <2> QED
    BY <2>1, <2>3, <2>4, <2>5 DEF Keeps, Stock, InHand
<1> QED
  BY <1>1, <1>2, <1>3, <1>4, <1>5

LEMMA MgrStock == MgrSpec => []StockInv
<1>1. MgrInit => StockInv
  BY StockInit DEF MgrInit, StockInv
<1>2. IInv /\ StockInv /\ [MgrNext]_allVars => StockInv'
  <2> SUFFICES ASSUME IInv, StockInv, StaticAction PROVE StockInv'
    BY MgrSplit, StockStep
  <2>1. TypeInv /\ HeldExist /\ DeadInv /\ LeakInv
    BY DEF IInv, StockInv
  <2> QED
    BY <2>1, StaticHeldExist, StaticKeeps, KeepsInv DEF StockInv
<1> QED
  BY <1>1, <1>2, MgrInductive, PTL DEF MgrSpec

\* Neither the pool nor acquireStaticAddress, which lets go of its new port
\* between AddIdle and Acquire, ever loses a port that was created.
THEOREM MgrNoneLeaked == MgrSpec => []NoPortLeaked
<1>1. StockInv => NoPortLeaked
  BY StockMeans
<1> QED
  BY <1>1, MgrStock, PTL

\* Ports created past the token channel change nothing about dead ports: the
\* pool holds one at most, and only once the factory's lock is lost.
THEOREM MgrOneDeadPortAtMost == MgrSpec => []AtMostOneDeadPort
<1>1. StockInv => AtMostOneDeadPort
  BY StockMeans
<1> QED
  BY <1>1, MgrStock, PTL
=============================================================================
