-------------------------- MODULE ObjectPoolProofs --------------------------
(***************************************************************************)
(* Proofs about ObjectPool, for any number of ports and callers, any       *)
(* configuration, any clock and any failures of Neutron.                   *)
(***************************************************************************)
EXTENDS ObjectPool, FiniteSetTheorems, TLAPS

\* What the control state says about the data: whoever has a port in hand has
\* one that was created; the counters are positive where the loops run; and
\* nothing is under way before the pool runs.
Hands ==
  /\ loop \in {"dispose", "deleting", "putToken", "putBack", "append", "addIdle"}
       => item \in created
  /\ loop \in {"create", "append", "addIdle", "returnToken"} => tokenAcquired > 0
  /\ loop = "takeTokens" => addition > 0
  /\ \A c \in Holders : res[c] \in created
  /\ ~Running => tokenAcquired = 0 /\ \A c \in Callers : pc[c] = "ready"

TypeInv == TypeOK /\ Hands

Unique(q) == \A i, j \in q : i.res = j.res => i = j
-----------------------------------------------------------------------------
\* The configuration that NewSimpleObjectPool accepts makes sense.
LEMMA ConfigType == minIdle \in Nat /\ maxIdle \in Nat /\ capacity \in Nat
BY ConfigAssumption DEF minIdle, maxIdle, capacity, DefaultMaxIdle, DefaultCapacity

\* Push adds one item, of the resource pushed.
LEMMA PushLemma ==
  ASSUME NEW r \in Res, NEW t \in Nat, idle \subseteq Item, IsFiniteSet(idle)
  PROVE  /\ Pushed(r, t) \subseteq Item
         /\ IsFiniteSet(Pushed(r, t))
         /\ ResOf(Pushed(r, t)) = ResOf(idle) \cup {r}
         /\ r \notin ResOf(idle) => /\ Cardinality(Pushed(r, t)) = Cardinality(idle) + 1
                                    /\ Unique(idle) => Unique(Pushed(r, t))
<1> DEFINE i == [res |-> r, reverse |-> t]
<1>1. i \in Item /\ i.res = r
  BY DEF Item
<1>2. Pushed(r, t) = idle \cup {i}
  BY DEF Pushed
<1>3. r \notin ResOf(idle) => i \notin idle
  BY <1>1 DEF ResOf
<1>4. IsFiniteSet(idle \cup {i}) /\ (i \notin idle => Cardinality(idle \cup {i}) = Cardinality(idle) + 1)
  BY FS_AddElement
<1>5. ResOf(idle \cup {i}) = ResOf(idle) \cup {r}
  BY <1>1 DEF ResOf
<1>6. r \notin ResOf(idle) /\ Unique(idle) => Unique(idle \cup {i})
  BY <1>1 DEF ResOf, Unique
<1>7. idle \cup {i} \subseteq Item
  BY <1>1
<1> QED
  BY <1>2, <1>3, <1>4, <1>5, <1>6, <1>7

\* Pop and Rob remove one item, and with it its resource.
LEMMA RemoveLemma ==
  ASSUME NEW i \in idle, idle \subseteq Item, IsFiniteSet(idle)
  PROVE  /\ idle \ {i} \subseteq Item
         /\ IsFiniteSet(idle \ {i})
         /\ Cardinality(idle \ {i}) = Cardinality(idle) - 1
         /\ i.res \in ResOf(idle)
         /\ ResOf(idle \ {i}) \subseteq ResOf(idle)
         /\ Unique(idle) => /\ Unique(idle \ {i})
                            /\ ResOf(idle \ {i}) = ResOf(idle) \ {i.res}
<1>1. IsFiniteSet(idle \ {i}) /\ Cardinality(idle \ {i}) = Cardinality(idle) - 1
  BY FS_RemoveElement
<1>2. i.res \in ResOf(idle) /\ ResOf(idle \ {i}) \subseteq ResOf(idle)
  BY DEF ResOf
<1>3. Unique(idle) => Unique(idle \ {i})
  BY DEF Unique
<1>4. Unique(idle) => ResOf(idle \ {i}) = ResOf(idle) \ {i.res}
  BY DEF Unique, ResOf
<1> QED
  BY <1>1, <1>2, <1>3, <1>4

\* Peek and Pop return an item of the queue.
LEMMA HeadsLemma == \A q, ord : Heads(q, ord) \subseteq q
BY DEF Heads, Earliest

\* Whichever item Acquire finds, it moves it from the queue to inuse.
LEMMA AcquireIdleTakes ==
  ASSUME NEW c \in Callers, AcquireIdle(c)
  PROVE  \E i \in idle : idle' = idle \ {i} /\ inuse' = inuse \cup {i.res}
BY HeadsLemma DEF AcquireIdle, Robbable

\* The sizes that the pool computes with are numbers.
LEMMA SizeType ==
  ASSUME IsFiniteSet(idle), IsFiniteSet(inuse)
  PROVE  /\ Cardinality(idle) \in Nat /\ Cardinality(inuse) \in Nat /\ size \in Nat
         /\ idle = {} <=> Cardinality(idle) = 0
<1>1. Cardinality(idle) \in Nat /\ Cardinality(inuse) \in Nat
  BY FS_CardinalityType
<1> QED
  BY <1>1, FS_EmptySet DEF size
-----------------------------------------------------------------------------
(* Type correctness *)

LEMMA TypeInit == Init => TypeInv
<1> SUFFICES ASSUME Init PROVE TypeInv
  OBVIOUS
<1> USE DEF Init
<1>1. PICK I \in SUBSET InitialPorts, U \in SUBSET InitialPorts :
         /\ I \cap U = {}
         /\ idle = {[res |-> r, reverse |-> 0] : r \in I}
         /\ inuse = U
  OBVIOUS
<1>2. IsFiniteSet(inuse) /\ inuse \subseteq created
  BY <1>1, PoolAssumption, FS_Subset
<1>3. IsFiniteSet(idle)
  <2>1. IsFiniteSet(I)
    BY <1>1, PoolAssumption, FS_Subset
  <2>2. [r \in I |-> [res |-> r, reverse |-> 0]] \in Surjection(I, idle)
    BY <1>1 DEF Surjection
  <2> QED
    BY <2>1, <2>2, FS_Surjection
<1>4. idle \subseteq Item /\ ResOf(idle) \subseteq created
  BY <1>1, PoolAssumption DEF Item, ResOf
<1>5. TypeOK
  <2>1. pc \in [Callers -> CallerPC] /\ res \in [Callers -> Res \cup {NoRes}]
    BY DEF CallerPC
  <2>2. tokenCh \in 0..capacity /\ loop \in LoopPC
    BY ConfigType DEF LoopPC
  <2>3. ports \subseteq created /\ created \subseteq Res
    BY PoolAssumption
  <2> QED
    BY <1>2, <1>3, <1>4, <2>1, <2>2, <2>3 DEF TypeOK
<1>6. Hands
  BY DEF Hands, Holders, Running
<1> QED
  BY <1>5, <1>6 DEF TypeInv
-----------------------------------------------------------------------------
\* One step per action: most change a few variables only.
LEMMA TypeStep == TypeInv /\ [Next]_vars => TypeInv'
<1> SUFFICES ASSUME TypeInv, [Next]_vars PROVE TypeInv'
  OBVIOUS
<1> USE ConfigType, PoolAssumption
<1> USE DEF TypeInv, TypeOK, Hands, Holders, Running, LoopPC, CallerPC, poolVars, loopVars, callerVars, factoryVars
<1>0. /\ Cardinality(idle) \in Nat /\ Cardinality(inuse) \in Nat /\ size \in Nat
      /\ idle = {} <=> Cardinality(idle) = 0
  BY SizeType
<1>1. CASE PreloadCreate
  BY <1>1, PushLemma DEF PreloadCreate, CreateReturns, Creatable
<1>2. CASE PreloadError
  BY <1>2 DEF PreloadError, CreateFails, Creatable
<1>3. CASE PreloadDone
  BY <1>0, <1>3 DEF PreloadDone
<1>4. CASE ReadIdleOverMax
  BY <1>4 DEF ReadIdleOverMax, Goto
<1>5. CASE ReadIdleNonEmpty
  BY <1>0, <1>5 DEF ReadIdleNonEmpty, Returned
<1>6. CASE ReadSizeIdle
  BY <1>0, <1>6 DEF ReadSizeIdle
<1>7. CASE ReadSizeInuse
  BY <1>7 DEF ReadSizeInuse, Returned
<1>8. CASE TakeHead
  <2>1. PICK i \in idle : idle' = idle \ {i} /\ item' = i.res
    BY <1>8, HeadsLemma DEF TakeHead
  <2>2. /\ idle' \subseteq Item /\ IsFiniteSet(idle')
        /\ item' \in ResOf(idle) /\ ResOf(idle') \subseteq ResOf(idle)
    BY <2>1, RemoveLemma
  <2>3. ordered' \in BOOLEAN
    BY <1>8 DEF TakeHead, OrderedAfterPop
  <2> QED
    BY <1>8, <2>2, <2>3 DEF TakeHead
<1>9. CASE BreakLocked
  BY <1>9 DEF BreakLocked, Returned
<1>10. CASE DisposeStart
  BY <1>10 DEF DisposeStart, DisposeLocks
<1>11. CASE DisposeOk
  BY <1>11 DEF DisposeOk, DisposeReturns
<1>12. CASE DisposeError
  BY <1>12 DEF DisposeError, DisposeFails
<1>13. CASE PutToken
  BY <1>13 DEF PutToken
<1>14. CASE PutBack
  BY <1>14, PushLemma DEF PutBack
<1>15. CASE Wake
  BY <1>15 DEF Wake, Goto
<1>16. CASE NeedAddition
  BY <1>0, <1>16 DEF NeedAddition
<1>17. CASE TakeToken
  BY <1>17 DEF TakeToken
<1>18. CASE RefillCreate
  BY <1>18 DEF RefillCreate, CreateReturns, Creatable
<1>19. CASE RefillError
  BY <1>19 DEF RefillError, CreateFails, Creatable
<1>20. CASE RefillAppend
  BY <1>20 DEF RefillAppend, AppendPort
<1>21. CASE RefillAddIdle
  BY <1>21, PushLemma DEF RefillAddIdle, NextRefill
<1>22. CASE RefillReturnToken
  BY <1>22 DEF RefillReturnToken, NextRefill
<1>23. ASSUME NEW c \in Callers, AcquireStep(c) PROVE TypeInv'
  <2> USE DEF Step
  <2>1. CASE AcquireIdle(c)
    <3>1. PICK i \in idle : idle' = idle \ {i} /\ inuse' = inuse \cup {i.res}
      BY <2>1, AcquireIdleTakes
    <3>2. /\ idle' \subseteq Item /\ IsFiniteSet(idle')
          /\ i.res \in ResOf(idle) /\ ResOf(idle') \subseteq ResOf(idle)
      BY <3>1, RemoveLemma
    <3>3. IsFiniteSet(inuse') /\ inuse' \subseteq created
      BY <3>1, <3>2, FS_AddElement
    <3>4. ordered' \in BOOLEAN
      BY <2>1 DEF AcquireIdle, OrderedAfterPop, OrderedAfterRob
    <3> QED
      BY <2>1, <3>2, <3>3, <3>4 DEF AcquireIdle
  <2>2. CASE AcquireNoneIdle(c)
    BY <2>2 DEF AcquireNoneIdle
  <2>3. CASE AcquireToken(c)
    BY <2>3 DEF AcquireToken
  <2>4. CASE AcquireCtxDone(c)
    BY <2>4 DEF AcquireCtxDone
  <2>5. CASE AcquireCreate(c)
    BY <2>5 DEF AcquireCreate, CreateReturns, Creatable
  <2>6. CASE AcquireError(c)
    BY <2>6 DEF AcquireError, CreateFails, Creatable
  <2>7. CASE AcquireAppend(c)
    BY <2>7 DEF AcquireAppend, AppendPort
  <2>8. CASE AcquireAddInuse(c)
    BY <2>8, FS_AddElement DEF AcquireAddInuse
  <2>9. CASE AcquireReturnToken(c)
    BY <2>9 DEF AcquireReturnToken
  <2> QED
    BY <1>23, <2>1, <2>2, <2>3, <2>4, <2>5, <2>6, <2>7, <2>8, <2>9 DEF AcquireStep
<1>24. ASSUME NEW c \in Callers, NEW r \in created \cup {NoRes}, AcquireCall(c, r) PROVE TypeInv'
  BY <1>24 DEF AcquireCall, Step
<1>25. ASSUME NEW r \in Res, NEW t \in StickTimes, Release(r, t) PROVE TypeInv'
  BY <1>25, PushLemma, FS_RemoveElement DEF Release
<1>26. CASE Tick
  BY <1>26 DEF Tick
<1>27. CASE UNCHANGED vars
  BY <1>27 DEF vars
<1> QED
  BY <1>1, <1>2, <1>3, <1>4, <1>5, <1>6, <1>7, <1>8, <1>9, <1>10, <1>11, <1>12, <1>13, <1>14,
     <1>15, <1>16, <1>17, <1>18, <1>19, <1>20, <1>21, <1>22, <1>23, <1>24, <1>25, <1>26, <1>27
     DEF Next, PoolStep, Loop
-----------------------------------------------------------------------------
(* No port has two owners *)

LEMMA OwnerInit == Init => OneOwner
<1> SUFFICES ASSUME Init PROVE OneOwner
  OBVIOUS
<1>1. PICK I \in SUBSET InitialPorts, U \in SUBSET InitialPorts :
         /\ I \cap U = {}
         /\ idle = {[res |-> r, reverse |-> 0] : r \in I}
         /\ inuse = U
  BY DEF Init
<1>2. ResOf(idle) \subseteq I /\ Unique(idle)
  <2>1. \A i \in idle : i.res \in I /\ i = [res |-> i.res, reverse |-> 0]
    BY <1>1
  <2> QED
    BY <2>1 DEF ResOf, Unique
<1>3. item = NoRes /\ Holders = {}
  BY DEF Init, Holders
<1> QED
  BY <1>1, <1>2, <1>3, PoolAssumption DEF OneOwner, Unique

\* A step that does not touch the queue, inuse, or what is in anyone's hands.
LEMMA OwnerFrame ==
  ASSUME OneOwner, UNCHANGED <<idle, inuse, item>>,
         \A c \in Holders' : c \in Holders /\ res'[c] = res[c]
  PROVE  OneOwner'
BY DEF OneOwner

LEMMA OwnerStep == TypeInv /\ OneOwner /\ [Next]_vars => OneOwner'
<1> SUFFICES ASSUME TypeInv, OneOwner, [Next]_vars PROVE OneOwner'
  OBVIOUS
<1> USE PoolAssumption
<1> USE DEF poolVars, loopVars, callerVars, factoryVars
<1>0. /\ idle \subseteq Item /\ IsFiniteSet(idle) /\ Unique(idle)
      /\ ResOf(idle) \cup inuse \subseteq created /\ created \subseteq Res /\ NoRes \notin created
      /\ item \in created \cup {NoRes} /\ \A c \in Holders : res[c] \in created
      /\ pc \in [Callers -> CallerPC] /\ res \in [Callers -> Res \cup {NoRes}]
      /\ now \in Nat
  BY DEF TypeInv, TypeOK, Hands, OneOwner, Unique
<1>1. CASE PreloadCreate
  <2>1. PICK r \in Res \ created : idle' = Pushed(r, now)
    BY <1>1 DEF PreloadCreate, CreateReturns, Creatable
  <2>2. ResOf(idle') = ResOf(idle) \cup {r} /\ Unique(idle')
    BY <1>0, <2>1, PushLemma
  <2> QED
    BY <1>0, <1>1, <2>2 DEF PreloadCreate, OneOwner, Holders, Unique
<1>2. CASE \/ PreloadError \/ PreloadDone \/ ReadIdleOverMax \/ ReadIdleNonEmpty \/ ReadSizeIdle
           \/ ReadSizeInuse \/ BreakLocked \/ DisposeStart \/ DisposeOk \/ DisposeError
           \/ Wake \/ NeedAddition \/ TakeToken \/ RefillError \/ RefillAppend \/ Tick
  BY <1>2, OwnerFrame DEF PreloadError, PreloadDone, ReadIdleOverMax, ReadIdleNonEmpty, ReadSizeIdle,
     ReadSizeInuse, BreakLocked, DisposeStart, DisposeOk, DisposeError,
     Wake, NeedAddition, TakeToken, RefillError, RefillAppend, Tick, Goto, Holders
<1>3. CASE TakeHead
  <2>1. PICK i \in idle : idle' = idle \ {i} /\ item' = i.res
    BY <1>3, HeadsLemma DEF TakeHead
  <2>2. ResOf(idle') = ResOf(idle) \ {item'} /\ Unique(idle') /\ item' \in ResOf(idle)
    BY <1>0, <2>1, RemoveLemma
  <2> QED
    <3>1. UNCHANGED <<inuse, pc, res>>
      BY <1>3 DEF TakeHead
    <3> QED
      BY <2>2, <3>1 DEF OneOwner, Holders, Unique
<1>4. CASE PutToken \/ RefillReturnToken
  BY <1>0, <1>4 DEF PutToken, RefillReturnToken, NextRefill, OneOwner, Holders
<1>5. CASE PutBack \/ RefillAddIdle
  <2>1. item \in created /\ idle' = Pushed(item, now) /\ item' = NoRes
    BY <1>5 DEF PutBack, RefillAddIdle, NextRefill, TypeInv, Hands
  <2>2. ResOf(idle') = ResOf(idle) \cup {item} /\ Unique(idle')
    BY <1>0, <2>1, PushLemma DEF OneOwner
  <2>3. UNCHANGED <<inuse, pc, res>>
    BY <1>5 DEF PutBack, RefillAddIdle
  <2> QED
    BY <1>0, <2>1, <2>2, <2>3 DEF OneOwner, Holders, Unique
<1>6. CASE RefillCreate
  BY <1>0, <1>6 DEF RefillCreate, CreateReturns, Creatable, OneOwner, Holders
<1>7. ASSUME NEW c \in Callers, AcquireStep(c) PROVE OneOwner'
  <2> USE DEF Step
  <2>1. CASE AcquireIdle(c)
    <3>1. PICK i \in idle : idle' = idle \ {i} /\ inuse' = inuse \cup {i.res}
      BY <2>1, AcquireIdleTakes
    <3>2. ResOf(idle') = ResOf(idle) \ {i.res} /\ Unique(idle') /\ i.res \in ResOf(idle)
      BY <1>0, <3>1, RemoveLemma
    <3>3. \A d \in Holders' : d \in Holders /\ res'[d] = res[d]
      BY <1>0, <2>1 DEF AcquireIdle, Holders
    <3> QED
      <4>1. item' = item
        BY <2>1 DEF AcquireIdle
      <4> QED
        BY <3>1, <3>2, <3>3, <4>1 DEF OneOwner, Unique
  <2>2. CASE \/ AcquireNoneIdle(c) \/ AcquireToken(c) \/ AcquireCtxDone(c) \/ AcquireError(c)
             \/ AcquireAppend(c) \/ AcquireReturnToken(c)
    <3>1. \A d \in Holders' : d \in Holders /\ res'[d] = res[d]
      BY <1>0, <2>2 DEF AcquireNoneIdle, AcquireToken, AcquireCtxDone, AcquireError, AcquireAppend,
         AcquireReturnToken, Holders
    <3> QED
      BY <2>2, <3>1, OwnerFrame DEF AcquireNoneIdle, AcquireToken, AcquireCtxDone, AcquireError,
         AcquireAppend, AcquireReturnToken
  <2>3. CASE AcquireCreate(c)
    <3>1. PICK r \in Res \ created : res' = [res EXCEPT ![c] = r]
      BY <2>3 DEF AcquireCreate, CreateReturns, Creatable
    <3>2. Holders' = Holders \cup {c} /\ UNCHANGED <<idle, inuse, item>>
      BY <1>0, <2>3 DEF AcquireCreate, Holders
    <3> QED
      BY <1>0, <3>1, <3>2 DEF OneOwner, Holders
  <2>4. CASE AcquireAddInuse(c)
    <3>1. Holders' = Holders \ {c} /\ c \in Holders
      BY <1>0, <2>4 DEF AcquireAddInuse, Holders
    <3> QED
      BY <1>0, <2>4, <3>1 DEF AcquireAddInuse, OneOwner, Holders
  <2> QED
    BY <1>7, <2>1, <2>2, <2>3, <2>4 DEF AcquireStep
<1>8. ASSUME NEW c \in Callers, NEW r \in created \cup {NoRes}, AcquireCall(c, r) PROVE OneOwner'
  <2>1. \A d \in Holders' : d \in Holders /\ res'[d] = res[d]
    BY <1>0, <1>8 DEF AcquireCall, Step, Holders
  <2> QED
    BY <1>8, <2>1, OwnerFrame DEF AcquireCall
<1>9. ASSUME NEW r \in Res, NEW t \in StickTimes, Release(r, t) PROVE OneOwner'
  <2>1. idle' = Pushed(r, now + t) /\ r \in inuse /\ inuse' = inuse \ {r} /\ UNCHANGED <<item, pc, res>>
    BY <1>9 DEF Release
  <2>2. now + t \in Nat /\ r \notin ResOf(idle)
    BY <1>0, <2>1 DEF OneOwner
  <2>3. ResOf(idle') = ResOf(idle) \cup {r} /\ Unique(idle')
    BY <1>0, <2>1, <2>2, PushLemma
  <2> QED
    BY <1>0, <2>1, <2>3 DEF OneOwner, Holders, Unique
<1>10. CASE UNCHANGED vars
  BY <1>10, OwnerFrame DEF vars, Holders
<1> QED
  BY <1>1, <1>2, <1>3, <1>4, <1>5, <1>6, <1>7, <1>8, <1>9, <1>10 DEF Next, PoolStep, Loop
-----------------------------------------------------------------------------
(* Tokens are neither lost nor made up *)

LEMMA BalanceInit == Init => TokenBalance
BY DEF Init, TokenBalance, Running

\* How the set of token holders changes when one caller moves.
LEMMA HoldersMove ==
  ASSUME NEW c \in Callers, NEW to, TypeOK, pc' = [pc EXCEPT ![c] = to]
  PROVE  /\ pc[c] \notin TokenPC /\ to \notin TokenPC => TokenHolders' = TokenHolders
         /\ pc[c] \in TokenPC /\ to \in TokenPC => TokenHolders' = TokenHolders
         /\ pc[c] \notin TokenPC /\ to \in TokenPC
              => Cardinality(TokenHolders') = Cardinality(TokenHolders) + 1
         /\ pc[c] \in TokenPC /\ to \notin TokenPC
              => Cardinality(TokenHolders') = Cardinality(TokenHolders) - 1
<1>0. pc \in [Callers -> CallerPC]
  BY DEF TypeOK
<1>1. IsFiniteSet(TokenHolders)
  BY PoolAssumption, FS_Subset DEF TokenHolders
<1>2. (pc[c] \in TokenPC <=> to \in TokenPC) => TokenHolders' = TokenHolders
  BY <1>0 DEF TokenHolders
<1>3. pc[c] \notin TokenPC /\ to \in TokenPC
        => TokenHolders' = TokenHolders \cup {c} /\ c \notin TokenHolders
  BY <1>0 DEF TokenHolders
<1>4. pc[c] \in TokenPC /\ to \notin TokenPC
        => TokenHolders' = TokenHolders \ {c} /\ c \in TokenHolders
  BY <1>0 DEF TokenHolders
<1> QED
  BY <1>1, <1>2, <1>3, <1>4, FS_AddElement, FS_RemoveElement

LEMMA BalanceStep == TypeInv /\ OneOwner /\ TokenBalance /\ [Next]_vars => TokenBalance'
<1> SUFFICES ASSUME TypeInv, OneOwner, TokenBalance, [Next]_vars PROVE TokenBalance'
  OBVIOUS
<1> USE ConfigType, PoolAssumption
<1> USE DEF poolVars, loopVars, callerVars, factoryVars, TokenBalance, Running, disposing, size
<1>0. /\ idle \subseteq Item /\ IsFiniteSet(idle) /\ Cardinality(idle) \in Nat
      /\ IsFiniteSet(inuse) /\ Cardinality(inuse) \in Nat
      /\ IsFiniteSet(TokenHolders) /\ Cardinality(TokenHolders) \in Nat
      /\ ResOf(idle) \subseteq created /\ created \subseteq Res /\ ResOf(idle) \cap inuse = {}
      /\ tokenCh \in Nat /\ tokenAcquired \in Nat /\ surplus \in Nat /\ now \in Nat
  <2>1. IsFiniteSet(TokenHolders)
    BY FS_Subset DEF TokenHolders
  <2> QED
    BY <2>1, FS_CardinalityType DEF TypeInv, TypeOK, OneOwner
<1>1. CASE PreloadCreate \/ PreloadError
  BY <1>1 DEF PreloadCreate, PreloadError
<1>2. CASE PreloadDone
  <2>1. TokenHolders' = {} /\ tokenAcquired = 0
    BY <1>2 DEF PreloadDone, TypeInv, Hands, TokenHolders, TokenPC
  <2>2. Cardinality(TokenHolders') = 0
    BY <2>1, FS_EmptySet
  <2> QED
    BY <1>0, <1>2, <2>1, <2>2 DEF PreloadDone
<1>3. CASE \/ ReadIdleOverMax \/ ReadIdleNonEmpty \/ ReadSizeIdle \/ ReadSizeInuse \/ BreakLocked
           \/ DisposeStart \/ DisposeOk \/ DisposeError \/ Wake \/ NeedAddition \/ RefillCreate
           \/ RefillError \/ RefillAppend \/ Tick
  BY <1>0, <1>3 DEF ReadIdleOverMax, ReadIdleNonEmpty, ReadSizeIdle, ReadSizeInuse, BreakLocked,
     DisposeStart, DisposeOk, DisposeError, Wake, NeedAddition, RefillCreate, RefillError,
     RefillAppend, Tick, Goto, Returned, TokenHolders
<1>4. CASE TakeHead
  <2>1. PICK i \in idle : idle' = idle \ {i}
    BY <1>4, HeadsLemma DEF TakeHead
  <2>2. Cardinality(idle') = Cardinality(idle) - 1
    BY <1>0, <2>1, RemoveLemma
  <2> QED
    BY <1>0, <1>4, <2>2 DEF TakeHead, TokenHolders
<1>5. CASE PutToken \/ TakeToken \/ RefillReturnToken
  <2>1. TokenHolders' = TokenHolders /\ UNCHANGED <<idle, inuse, surplus>>
    BY <1>5 DEF PutToken, TakeToken, RefillReturnToken, TokenHolders
  <2>2. CASE PutToken
    BY <1>0, <2>1, <2>2 DEF PutToken
  <2>3. CASE TakeToken
    BY <1>0, <2>1, <2>3 DEF TakeToken
  <2>4. CASE RefillReturnToken
    BY <1>0, <2>1, <2>4 DEF RefillReturnToken, NextRefill
  <2> QED
    BY <1>5, <2>2, <2>3, <2>4
<1>6. CASE PutBack \/ RefillAddIdle
  <2>1. item \in created /\ idle' = Pushed(item, now) /\ item \notin ResOf(idle)
    BY <1>6 DEF PutBack, RefillAddIdle, TypeInv, Hands, OneOwner
  <2>2. Cardinality(idle') = Cardinality(idle) + 1
    BY <1>0, <2>1, PushLemma
  <2>3. TokenHolders' = TokenHolders /\ UNCHANGED <<inuse, surplus, tokenCh>>
    BY <1>6 DEF PutBack, RefillAddIdle, TokenHolders
  <2>4. CASE PutBack
    BY <1>0, <2>2, <2>3, <2>4 DEF PutBack
  <2>5. CASE RefillAddIdle
    BY <1>0, <2>2, <2>3, <2>5 DEF RefillAddIdle, NextRefill
  <2> QED
    BY <1>6, <2>4, <2>5
<1>7. ASSUME NEW c \in Callers, AcquireStep(c) PROVE TokenBalance'
  <2> USE DEF Step
  <2>1. CASE AcquireIdle(c)
    <3>1. PICK i \in idle : idle' = idle \ {i} /\ inuse' = inuse \cup {i.res}
      BY <2>1, AcquireIdleTakes
    <3>2. Cardinality(idle') = Cardinality(idle) - 1 /\ i.res \notin inuse
      BY <1>0, <3>1, RemoveLemma
    <3>3. Cardinality(inuse') = Cardinality(inuse) + 1
      BY <1>0, <3>1, <3>2, FS_AddElement
    <3>4. TokenHolders' = TokenHolders
      <4>1. PICK to : pc[c] \notin TokenPC /\ to \notin TokenPC /\ pc' = [pc EXCEPT ![c] = to]
        BY <2>1 DEF AcquireIdle, TokenPC
      <4> QED
        BY <4>1, HoldersMove DEF TypeInv
    <3> QED
      BY <1>0, <2>1, <3>2, <3>3, <3>4 DEF AcquireIdle
  <2>2. CASE \/ AcquireNoneIdle(c) \/ AcquireCtxDone(c) \/ AcquireCreate(c) \/ AcquireError(c)
             \/ AcquireAppend(c)
    <3>1. TokenHolders' = TokenHolders
      <4>1. CASE AcquireNoneIdle(c) \/ AcquireCtxDone(c)
        <5>1. PICK to : pc[c] \notin TokenPC /\ to \notin TokenPC /\ pc' = [pc EXCEPT ![c] = to]
          BY <4>1 DEF AcquireNoneIdle, AcquireCtxDone, TokenPC
        <5> QED
          BY <5>1, HoldersMove DEF TypeInv
      <4>2. CASE AcquireCreate(c) \/ AcquireError(c) \/ AcquireAppend(c)
        <5>1. PICK to : pc[c] \in TokenPC /\ to \in TokenPC /\ pc' = [pc EXCEPT ![c] = to]
          BY <4>2 DEF AcquireCreate, AcquireError, AcquireAppend, TokenPC
        <5> QED
          BY <5>1, HoldersMove DEF TypeInv
      <4> QED
        BY <2>2, <4>1, <4>2
    <3> QED
      BY <1>0, <2>2, <3>1 DEF AcquireNoneIdle, AcquireCtxDone, AcquireCreate, AcquireError, AcquireAppend
  <2>3. CASE AcquireToken(c)
    <3>1. Cardinality(TokenHolders') = Cardinality(TokenHolders) + 1
      <4>1. PICK to : pc[c] \notin TokenPC /\ to \in TokenPC /\ pc' = [pc EXCEPT ![c] = to]
        BY <2>3 DEF AcquireToken, TokenPC
      <4> QED
        BY <4>1, HoldersMove DEF TypeInv
    <3> QED
      BY <1>0, <2>3, <3>1 DEF AcquireToken
  <2>4. CASE AcquireAddInuse(c)
    <3>1. Cardinality(TokenHolders') = Cardinality(TokenHolders) - 1
      <4>1. PICK to : pc[c] \in TokenPC /\ to \notin TokenPC /\ pc' = [pc EXCEPT ![c] = to]
        BY <2>4 DEF AcquireAddInuse, TokenPC
      <4> QED
        BY <4>1, HoldersMove DEF TypeInv
    <3>2. Cardinality(inuse') = Cardinality(inuse) + 1
      <4>1. res[c] \notin inuse
        BY <2>4 DEF AcquireAddInuse, OneOwner, Holders
      <4> QED
        BY <1>0, <2>4, <4>1, FS_AddElement DEF AcquireAddInuse
    <3> QED
      BY <1>0, <2>4, <3>1, <3>2 DEF AcquireAddInuse
  <2>5. CASE AcquireReturnToken(c)
    <3>1. Cardinality(TokenHolders') = Cardinality(TokenHolders) - 1
      <4>1. PICK to : pc[c] \in TokenPC /\ to \notin TokenPC /\ pc' = [pc EXCEPT ![c] = to]
        BY <2>5 DEF AcquireReturnToken, TokenPC
      <4> QED
        BY <4>1, HoldersMove DEF TypeInv
    <3> QED
      BY <1>0, <2>5, <3>1 DEF AcquireReturnToken
  <2> QED
    BY <1>7, <2>1, <2>2, <2>3, <2>4, <2>5 DEF AcquireStep
<1>8. ASSUME NEW c \in Callers, NEW r \in created \cup {NoRes}, AcquireCall(c, r) PROVE TokenBalance'
  <2>1. TokenHolders' = TokenHolders
    <3>1. PICK to : pc[c] \notin TokenPC /\ to \notin TokenPC /\ pc' = [pc EXCEPT ![c] = to]
      BY <1>8 DEF AcquireCall, Step, TokenPC
    <3> QED
      BY <3>1, HoldersMove DEF TypeInv
  <2> QED
    BY <1>0, <1>8, <2>1 DEF AcquireCall
<1>9. ASSUME NEW r \in Res, NEW t \in StickTimes, Release(r, t) PROVE TokenBalance'
  <2>1. now + t \in Nat /\ r \notin ResOf(idle)
    BY <1>0, <1>9 DEF Release
  <2>2. Cardinality(idle') = Cardinality(idle) + 1
    BY <1>0, <1>9, <2>1, PushLemma DEF Release
  <2>3. Cardinality(inuse') = Cardinality(inuse) - 1
    BY <1>0, <1>9, FS_RemoveElement DEF Release
  <2> QED
    BY <1>0, <1>9, <2>2, <2>3 DEF Release, TokenHolders
<1>10. CASE UNCHANGED vars
  BY <1>10 DEF vars, TokenHolders
<1> QED
  BY <1>1, <1>2, <1>3, <1>4, <1>5, <1>6, <1>7, <1>8, <1>9, <1>10 DEF Next, PoolStep, Loop
-----------------------------------------------------------------------------
(* The theorems *)

\* The inductive invariant.
IInv == TypeInv /\ OneOwner /\ TokenBalance

LEMMA Inductive == Spec => []IInv
<1>1. Init => IInv
  BY TypeInit, OwnerInit, BalanceInit DEF IInv
<1>2. IInv /\ [Next]_vars => IInv'
  BY TypeStep, OwnerStep, BalanceStep DEF IInv
<1> QED
  BY <1>1, <1>2, PTL DEF Spec

\* Every variable of the pool keeps its type: among others the counters of
\* checkInsufficient never go below zero and a token never overflows tokenCh.
THEOREM TypeCorrect == Spec => []TypeOK
<1>1. IInv => TypeOK
  BY DEF IInv, TypeInv
<1> QED
  BY <1>1, Inductive, PTL

\* Acquire, Release, checkIdle and checkInsufficient never give a port to two
\* owners, however their critical sections interleave and whatever fails.
THEOREM OneOwnerAlways == Spec => []OneOwner
<1>1. IInv => OneOwner
  BY DEF IInv
<1> QED
  BY <1>1, Inductive, PTL

\* The token accounting of pool.go balances on every path, up to the ports
\* that entered the pool without a token.
THEOREM TokensBalance == Spec => []TokenBalance
<1>1. IInv => TokenBalance
  BY DEF IInv
<1> QED
  BY <1>1, Inductive, PTL

\* The pool outgrows its capacity by no more than the surplus ports.
THEOREM CapacityRespected == Spec => []WithinCapacity
<1>1. IInv => WithinCapacity
  <2> SUFFICES ASSUME IInv, Running PROVE size <= capacity + surplus
    BY DEF WithinCapacity
  <2>1. /\ tokenCh \in Nat /\ tokenAcquired \in Nat /\ surplus \in Nat /\ size \in Nat
        /\ disposing \in Nat
    BY SizeType, ConfigType DEF IInv, TypeInv, TypeOK, disposing
  <2>2. Cardinality(TokenHolders) \in Nat
    BY PoolAssumption, FS_Subset, FS_CardinalityType DEF TokenHolders
  <2> QED
    BY <2>1, <2>2, ConfigType DEF IInv, TokenBalance
<1> QED
  BY <1>1, Inductive, PTL

\* checkIdle only disposes of ports that no pod uses, even though Dispose runs
\* outside the pool's lock.
THEOREM InUseKept == Spec => InUseNeverDeleted
<1>1. IInv /\ [Next]_vars => [\A r \in inuse \cap ports : r \in ports']_vars
  <2> SUFFICES ASSUME IInv, Next PROVE \A r \in inuse \cap ports : r \in ports'
    OBVIOUS
  <2>1. CASE DisposeOk \/ DisposeError
    BY <2>1 DEF DisposeOk, DisposeReturns, DisposeError, DisposeFails, IInv, OneOwner
  <2>2. ASSUME ~(DisposeOk \/ DisposeError) PROVE ports \subseteq ports'
    BY <2>2 DEF Next, PoolStep, Loop, AcquireStep, factoryVars,
       PreloadCreate, PreloadError, PreloadDone, ReadIdleOverMax, ReadIdleNonEmpty, ReadSizeIdle,
       ReadSizeInuse, TakeHead, BreakLocked, DisposeStart, DisposeLocks, PutToken, PutBack, Wake,
       Goto, NeedAddition, TakeToken, RefillCreate, RefillError, RefillAppend, RefillAddIdle,
       RefillReturnToken, CreateReturns, CreateFails, AppendPort, AcquireIdle, AcquireNoneIdle,
       AcquireToken, AcquireCtxDone, AcquireCreate, AcquireError, AcquireAppend, AcquireAddInuse,
       AcquireReturnToken, AcquireCall, Release, Tick
  <2> QED
    BY <2>1, <2>2
<1> QED
  BY <1>1, Inductive, PTL DEF Spec, InUseNeverDeleted
-----------------------------------------------------------------------------
(* The pool implements PortPool *)

\* A port that a caller has created exists in Neutron until it is in the pool.
HeldExist == \A c \in Holders : res[c] \in ports

LEMMA HeldExistStep == TypeInv /\ OneOwner /\ HeldExist /\ [Next]_vars => HeldExist'
<1> SUFFICES ASSUME TypeInv, OneOwner, HeldExist, [Next]_vars PROVE HeldExist'
  OBVIOUS
<1> USE DEF HeldExist, Holders, poolVars, loopVars, callerVars, factoryVars
<1>0. pc \in [Callers -> CallerPC] /\ res \in [Callers -> Res \cup {NoRes}]
  BY DEF TypeInv, TypeOK
<1>1. CASE DisposeOk \/ DisposeError
  BY <1>1 DEF DisposeOk, DisposeReturns, DisposeError, DisposeFails, OneOwner
<1>2. CASE Loop /\ ~DisposeOk /\ ~DisposeError
  BY <1>2 DEF Loop, PreloadCreate, PreloadError, PreloadDone, ReadIdleOverMax, ReadIdleNonEmpty,
     ReadSizeIdle, ReadSizeInuse, TakeHead, BreakLocked, DisposeStart, DisposeLocks, PutToken, PutBack,
     Wake, Goto, NeedAddition, TakeToken, RefillCreate, RefillError, RefillAppend, RefillAddIdle,
     RefillReturnToken, CreateReturns, CreateFails, AppendPort
<1>3. ASSUME NEW c \in Callers, AcquireStep(c) PROVE HeldExist'
  BY <1>0, <1>3 DEF AcquireStep, AcquireIdle, AcquireNoneIdle, AcquireToken, AcquireCtxDone,
     AcquireCreate, AcquireError, AcquireAppend, AcquireAddInuse, AcquireReturnToken, Step,
     CreateReturns, CreateFails, AppendPort
<1>4. ASSUME NEW c \in Callers, NEW r \in created \cup {NoRes}, AcquireCall(c, r) PROVE HeldExist'
  BY <1>0, <1>4 DEF AcquireCall, Step
<1>5. ASSUME NEW r \in Res, NEW t \in StickTimes, Release(r, t) PROVE HeldExist'
  BY <1>5 DEF Release
<1>6. CASE Tick \/ UNCHANGED vars
  BY <1>6 DEF Tick, vars
<1> QED
  BY <1>1, <1>2, <1>3, <1>4, <1>5, <1>6 DEF Next, PoolStep

\* A step that concerns neither Neutron nor the two collections is a stutter.
LEMMA PoolStutter ==
  ASSUME UNCHANGED <<ports, created, idle, inuse>>
  PROVE  UNCHANGED Abstract!poolVars
BY DEF Abstract!poolVars

\* A failing Create makes an orphan or nothing.
LEMMA CreateFailsAbstract ==
  ASSUME NEW R \in SUBSET Creatable, CreateFails(R), UNCHANGED <<idle, inuse>>
  PROVE  [Abstract!Next]_(Abstract!poolVars)
<1>1. CASE UNCHANGED <<ports, created>>
  BY <1>1, PoolStutter
<1>2. CASE \E r \in R : ports' = ports \cup {r} /\ created' = created \cup {r}
  <2>1. PICK r \in R : ports' = ports \cup {r} /\ created' = created \cup {r}
    BY <1>2
  <2>2. Abstract!Create(r) /\ r \in Res
    BY <2>1 DEF Creatable, Abstract!Create
  <2> QED
    BY <2>2 DEF Abstract!Next
<1> QED
  BY <1>1, <1>2 DEF CreateFails

LEMMA ImplementsStep == IInv /\ HeldExist /\ [Next]_vars => [Abstract!Next]_(Abstract!poolVars)
<1> SUFFICES ASSUME IInv, HeldExist, [Next]_vars PROVE [Abstract!Next]_(Abstract!poolVars)
  OBVIOUS
<1> USE PoolAssumption
<1> USE DEF poolVars, loopVars, callerVars, factoryVars
<1>0. /\ idle \subseteq Item /\ IsFiniteSet(idle) /\ Unique(idle)
      /\ ResOf(idle) \cup inuse \subseteq created /\ created \subseteq Res /\ ports \subseteq created
      /\ ResOf(idle) \cap inuse = {} /\ item \notin ResOf(idle) \cup inuse
      /\ now \in Nat
  BY DEF IInv, TypeInv, TypeOK, Hands, OneOwner, Unique
<1>1. CASE PreloadCreate
  <2>1. PICK r \in Res : CreateReturns(r) /\ idle' = Pushed(r, now)
    BY <1>1 DEF PreloadCreate
  <2>2. ResOf(idle') = ResOf(idle) \cup {r}
    BY <1>0, <2>1, PushLemma
  <2>3. Abstract!AddIdle(r)
    BY <1>0, <1>1, <2>1, <2>2 DEF PreloadCreate, CreateReturns, Creatable, Abstract!AddIdle
  <2> QED
    BY <2>3 DEF Abstract!Next
<1>2. CASE PreloadError \/ RefillError
  BY <1>2, CreateFailsAbstract DEF PreloadError, RefillError
<1>3. CASE \/ PreloadDone \/ ReadIdleOverMax \/ ReadIdleNonEmpty \/ ReadSizeIdle \/ ReadSizeInuse
           \/ BreakLocked \/ DisposeStart \/ PutToken \/ Wake \/ NeedAddition \/ TakeToken
           \/ RefillAppend \/ RefillReturnToken \/ Tick
  BY <1>3, PoolStutter DEF PreloadDone, ReadIdleOverMax, ReadIdleNonEmpty, ReadSizeIdle,
     ReadSizeInuse, BreakLocked, DisposeStart, DisposeLocks, PutToken, Wake, Goto, NeedAddition,
     TakeToken, RefillAppend, AppendPort, RefillReturnToken, Tick
<1>4. CASE TakeHead
  <2>1. PICK i \in idle : idle' = idle \ {i}
    BY <1>4, HeadsLemma DEF TakeHead
  <2>2. ResOf(idle') = ResOf(idle) \ {i.res} /\ i.res \in ResOf(idle)
    BY <1>0, <2>1, RemoveLemma
  <2>3. Abstract!TakeOut(i.res)
    BY <1>4, <2>2 DEF TakeHead, Abstract!TakeOut
  <2> QED
    BY <1>0, <2>2, <2>3 DEF Abstract!Next
<1>5. CASE DisposeOk \/ DisposeError
  <2>1. UNCHANGED <<created, idle, inuse>> /\ (ports' = ports \/ ports' = ports \ {item})
    BY <1>5 DEF DisposeOk, DisposeError, DisposeReturns, DisposeFails
  <2>2. CASE ports' = ports
    BY <2>1, <2>2, PoolStutter
  <2>3. CASE ports' = ports \ {item} /\ item \in ports
    <3>1. Abstract!Delete(item)
      BY <1>0, <2>1, <2>3 DEF Abstract!Delete
    <3> QED
      BY <1>0, <2>3, <3>1 DEF Abstract!Next
  <2>4. item \notin ports => ports \ {item} = ports
    OBVIOUS
  <2> QED
    BY <2>1, <2>2, <2>3, <2>4
<1>6. CASE PutBack \/ RefillAddIdle
  <2>1. item \in created /\ idle' = Pushed(item, now) /\ UNCHANGED <<ports, created, inuse>>
    BY <1>6 DEF PutBack, RefillAddIdle, IInv, TypeInv, Hands
  <2>2. ResOf(idle') = ResOf(idle) \cup {item}
    BY <1>0, <2>1, PushLemma
  <2>3. Abstract!AddIdle(item)
    BY <1>0, <2>1, <2>2 DEF Abstract!AddIdle
  <2> QED
    BY <1>0, <2>1, <2>3 DEF Abstract!Next
<1>7. CASE RefillCreate
  <2>1. PICK r \in Res : CreateReturns(r)
    BY <1>7 DEF RefillCreate
  <2>2. Abstract!Create(r)
    BY <1>7, <2>1 DEF RefillCreate, CreateReturns, Creatable, Abstract!Create
  <2> QED
    BY <2>2 DEF Abstract!Next
<1>8. ASSUME NEW c \in Callers, AcquireStep(c) PROVE [Abstract!Next]_(Abstract!poolVars)
  <2>1. CASE AcquireIdle(c)
    <3>1. PICK i \in idle : idle' = idle \ {i} /\ inuse' = inuse \cup {i.res}
      BY <2>1, AcquireIdleTakes
    <3>2. ResOf(idle') = ResOf(idle) \ {i.res} /\ i.res \in ResOf(idle)
      BY <1>0, <3>1, RemoveLemma
    <3>3. Abstract!AcquireIdle(i.res)
      BY <2>1, <3>1, <3>2 DEF AcquireIdle, Abstract!AcquireIdle
    <3> QED
      BY <1>0, <3>2, <3>3 DEF Abstract!Next
  <2>2. CASE \/ AcquireNoneIdle(c) \/ AcquireToken(c) \/ AcquireCtxDone(c) \/ AcquireAppend(c)
             \/ AcquireReturnToken(c)
    BY <2>2, PoolStutter DEF AcquireNoneIdle, AcquireToken, AcquireCtxDone, AcquireAppend, AppendPort,
       AcquireReturnToken
  <2>3. CASE AcquireCreate(c)
    <3>1. PICK r \in Res : CreateReturns(r)
      BY <2>3 DEF AcquireCreate
    <3>2. Abstract!Create(r)
      BY <2>3, <3>1 DEF AcquireCreate, CreateReturns, Creatable, Abstract!Create
    <3> QED
      BY <3>2 DEF Abstract!Next
  <2>4. CASE AcquireError(c)
    BY <2>4, CreateFailsAbstract DEF AcquireError
  <2>5. CASE AcquireAddInuse(c)
    <3>1. res[c] \in ports /\ res[c] \notin ResOf(idle) \cup inuse
      BY <2>5 DEF AcquireAddInuse, HeldExist, IInv, OneOwner, Holders
    <3>2. Abstract!AcquireNew(res[c])
      BY <2>5, <3>1 DEF AcquireAddInuse, Abstract!AcquireNew
    <3> QED
      BY <1>0, <3>1, <3>2 DEF Abstract!Next
  <2> QED
    BY <1>8, <2>1, <2>2, <2>3, <2>4, <2>5 DEF AcquireStep
<1>9. ASSUME NEW c \in Callers, NEW r \in created \cup {NoRes}, AcquireCall(c, r)
      PROVE  [Abstract!Next]_(Abstract!poolVars)
  BY <1>9, PoolStutter DEF AcquireCall
<1>10. ASSUME NEW r \in Res, NEW t \in StickTimes, Release(r, t)
       PROVE  [Abstract!Next]_(Abstract!poolVars)
  <2>1. now + t \in Nat
    BY <1>0
  <2>2. ResOf(idle') = ResOf(idle) \cup {r}
    BY <1>0, <1>10, <2>1, PushLemma DEF Release
  <2>3. Abstract!Release(r)
    BY <1>10, <2>2 DEF Release, Abstract!Release
  <2> QED
    BY <2>3 DEF Abstract!Next
<1>11. CASE UNCHANGED vars
  BY <1>11, PoolStutter DEF vars
<1> QED
  BY <1>1, <1>2, <1>3, <1>4, <1>5, <1>6, <1>7, <1>8, <1>9, <1>10, <1>11 DEF Next, PoolStep, Loop

LEMMA ImplementsInit == Init => Abstract!Init
<1> SUFFICES ASSUME Init PROVE Abstract!Init
  OBVIOUS
<1>1. TypeOK /\ OneOwner
  BY TypeInit, OwnerInit DEF TypeInv
<1>2. ResOf(idle) \cup inuse \subseteq created /\ ResOf(idle) \cap inuse = {} /\ created \subseteq Res
  BY <1>1 DEF TypeOK, OneOwner
<1> QED
  BY <1>2 DEF Init, Abstract!Init

\* SimpleObjectPool implements the abstract pool that the daemon relies on:
\* every step of the goroutine, of the callers and of Neutron is a step of
\* PortPool or changes nothing of it.
THEOREM PoolImplementsPortPool == Spec => ImplementsPortPool
<1>1. Init => HeldExist
  BY DEF Init, HeldExist, Holders
<1>2. IInv /\ HeldExist /\ [Next]_vars => HeldExist'
  BY HeldExistStep DEF IInv
<1> QED
  BY <1>1, <1>2, Inductive, ImplementsInit, ImplementsStep, PTL
     DEF Spec, ImplementsPortPool, Abstract!Spec
-----------------------------------------------------------------------------
(* Dead ports and leaked ports *)

\* What the goroutine has in hand: an item it means to delete, until it is
\* deleted, or a port that it has created.
InHand ==
  IF loop \in {"dispose", "deleting", "putBack", "append", "addIdle"} THEN {item} ELSE {}

\* The ports of the pool, and those in the hands of callers.
Stock == ResOf(idle) \cup inuse \cup InHand
Held == {res[c] : c \in Holders}

\* AtMostOneDeadPort, made inductive.  The goroutine may pop the dead port
\* again; it then waits in Dispose for the lock that it lost, so that it
\* never deletes while there is a dead port, and no second one comes about.
DeadInv ==
  /\ \A r, s \in Stock \ ports : r = s
  /\ Stock \ ports # {} => factoryLock = "held" /\ loop # "deleting"
  /\ loop \in {"deleting", "putBack"} => factoryLock = "held"

\* NoPortLeaked, made inductive: once its port is deleted the goroutine's
\* item no longer counts.
LeakInv == ports \ InitialPorts \subseteq Stock \cup Held \cup orphans

\* What every step does that is not one of Dispose: ports are only created,
\* and end up in somebody's hands or are orphans; what comes into the pool
\* exists; and nothing is dropped.
Keeps ==
  /\ ports \subseteq ports'
  /\ Stock' \subseteq Stock \cup ports'
  /\ Stock \cup Held \subseteq Stock' \cup Held'
  /\ orphans \subseteq orphans'
  /\ ports' \subseteq ports \cup Stock' \cup Held' \cup orphans'
  /\ factoryLock' = factoryLock
  /\ loop' \in {"deleting", "putBack"} => loop' = loop

\* A failing Create makes an orphan or nothing.
LEMMA CreateFailsKeeps ==
  ASSUME NEW R, CreateFails(R)
  PROVE  /\ ports \subseteq ports' /\ factoryLock' = factoryLock
         /\ orphans \subseteq orphans' /\ ports' \subseteq ports \cup orphans'
BY DEF CreateFails

\* What callers hold when the hands of all of them stay the same, or when one
\* of them, c, comes to hold something or puts what it holds away.
LEMMA HeldLemma ==
  /\ UNCHANGED <<pc, res>> => Held' = Held
  /\ Holders' = Holders /\ (\A d \in Holders : res'[d] = res[d]) => Held' = Held
  /\ \A c \in Callers :
       /\ Holders' = Holders \cup {c} /\ c \notin Holders /\ (\A d \in Holders : res'[d] = res[d])
            => Held' = Held \cup {res'[c]}
       /\ Holders' = Holders \ {c} /\ c \in Holders /\ (\A d \in Holders' : res'[d] = res[d])
            => Held \subseteq Held' \cup {res[c]}
<1>1. UNCHANGED <<pc, res>> => Held' = Held
  BY DEF Held, Holders
<1>2. ASSUME Holders' = Holders, \A d \in Holders : res'[d] = res[d] PROVE Held' = Held
  BY <1>2 DEF Held
<1>3. ASSUME NEW c \in Callers, Holders' = Holders \cup {c}, c \notin Holders,
             \A d \in Holders : res'[d] = res[d]
      PROVE  Held' = Held \cup {res'[c]}
  BY <1>3 DEF Held
<1>4. ASSUME NEW c \in Callers, Holders' = Holders \ {c}, c \in Holders,
             \A d \in Holders' : res'[d] = res[d]
      PROVE  Held \subseteq Held' \cup {res[c]}
  BY <1>4 DEF Held
<1> QED
  BY <1>1, <1>2, <1>3, <1>4

LEMMA KeepsStep ==
  ASSUME TypeInv, OneOwner, HeldExist, [Next]_vars, ~DisposeStart, ~DisposeOk, ~DisposeError
  PROVE  Keeps
<1> USE DEF poolVars, loopVars, callerVars, factoryVars
<1>0. /\ idle \subseteq Item /\ IsFiniteSet(idle) /\ Unique(idle) /\ now \in Nat
      /\ created \subseteq Res /\ StickTimes \subseteq Nat
      /\ pc \in [Callers -> CallerPC] /\ res \in [Callers -> Res \cup {NoRes}]
  BY PoolAssumption DEF TypeInv, TypeOK, OneOwner, Unique
<1>1. CASE PreloadCreate
  <2>1. PICK r \in Res : CreateReturns(r) /\ idle' = Pushed(r, now)
    BY <1>1 DEF PreloadCreate
  <2>2. ResOf(idle') = ResOf(idle) \cup {r}
    BY <1>0, <2>1, PushLemma
  <2>3. Held' = Held
    BY <1>1, HeldLemma DEF PreloadCreate
  <2>4. UNCHANGED <<inuse, loop, item>>
    BY <1>1 DEF PreloadCreate
  <2> QED
    BY <2>1, <2>2, <2>3, <2>4 DEF CreateReturns, Keeps, Stock, InHand
<1>2. CASE PreloadError \/ RefillError
  <2>1. Held' = Held
    BY <1>2, HeldLemma DEF PreloadError, RefillError
  <2>2. Stock' = Stock /\ loop' \notin {"deleting", "putBack"}
    BY <1>2 DEF PreloadError, RefillError, Stock, InHand
  <2>3. PICK R : CreateFails(R)
    BY <1>2 DEF PreloadError, RefillError
  <2> QED
    BY <2>1, <2>2, <2>3, CreateFailsKeeps DEF Keeps
<1>3. CASE \/ PreloadDone \/ ReadIdleOverMax \/ ReadIdleNonEmpty \/ ReadSizeIdle \/ ReadSizeInuse
           \/ BreakLocked \/ PutToken \/ Wake \/ NeedAddition \/ TakeToken
           \/ RefillAppend \/ RefillReturnToken \/ Tick
  <2>1. Held' = Held
    BY <1>3, HeldLemma DEF PreloadDone, ReadIdleOverMax, ReadIdleNonEmpty, ReadSizeIdle,
       ReadSizeInuse, BreakLocked, PutToken, Wake, Goto, NeedAddition, TakeToken, RefillAppend,
       RefillReturnToken, Tick
  <2>2. UNCHANGED <<idle, inuse, ports, orphans, factoryLock>>
    BY <1>3 DEF PreloadDone, ReadIdleOverMax, ReadIdleNonEmpty, ReadSizeIdle,
       ReadSizeInuse, BreakLocked, PutToken, Wake, Goto, NeedAddition, TakeToken, RefillAppend,
       AppendPort, RefillReturnToken, Tick
  <2>3. InHand' = InHand /\ (loop' \in {"deleting", "putBack"} => loop' = loop)
    BY <1>3 DEF PreloadDone, ReadIdleOverMax, ReadIdleNonEmpty, ReadSizeIdle, Returned, NextRefill,
       ReadSizeInuse, BreakLocked, PutToken, Wake, Goto, NeedAddition, TakeToken, RefillAppend,
       RefillReturnToken, Tick, InHand
  <2> QED
    BY <2>1, <2>2, <2>3 DEF Keeps, Stock
<1>4. CASE TakeHead
  <2>1. PICK i \in idle : idle' = idle \ {i} /\ item' = i.res
    BY <1>4, HeadsLemma DEF TakeHead
  <2>2. ResOf(idle') = ResOf(idle) \ {item'} /\ item' \in ResOf(idle)
    BY <1>0, <2>1, RemoveLemma
  <2>3. Held' = Held
    BY <1>4, HeldLemma DEF TakeHead
  <2>4. UNCHANGED <<inuse, ports, orphans, factoryLock>> /\ loop = "lockIdle" /\ loop' = "dispose"
    BY <1>4 DEF TakeHead
  <2> QED
    BY <2>2, <2>3, <2>4 DEF Keeps, Stock, InHand
<1>5. CASE PutBack \/ RefillAddIdle
  <2>1. /\ loop \in {"putBack", "addIdle"} /\ loop' \in {"idleOverMax", "select", "create"}
        /\ idle' = Pushed(item, now) /\ UNCHANGED <<inuse, ports, orphans, factoryLock>>
    BY <1>5 DEF PutBack, RefillAddIdle, NextRefill
  <2>2. ResOf(idle') = ResOf(idle) \cup {item}
    BY <1>0, <2>1, PushLemma DEF TypeInv, Hands
  <2>3. Held' = Held
    BY <1>5, HeldLemma DEF PutBack, RefillAddIdle
  <2> QED
    BY <2>1, <2>2, <2>3 DEF Keeps, Stock, InHand
<1>6. CASE RefillCreate
  <2>1. Held' = Held
    BY <1>6, HeldLemma DEF RefillCreate
  <2> QED
    BY <1>6, <2>1 DEF RefillCreate, CreateReturns, Keeps, Stock, InHand
<1>7. ASSUME NEW c \in Callers, AcquireStep(c) PROVE Keeps
  <2> USE DEF Step
  <2>0. loop' = loop /\ item' = item
    BY <1>7 DEF AcquireStep, AcquireIdle, AcquireNoneIdle, AcquireToken, AcquireCtxDone,
       AcquireCreate, AcquireError, AcquireAppend, AcquireAddInuse, AcquireReturnToken
  <2>1. CASE AcquireIdle(c)
    <3>1. PICK i \in idle : idle' = idle \ {i} /\ inuse' = inuse \cup {i.res}
      BY <2>1, AcquireIdleTakes
    <3>2. ResOf(idle') = ResOf(idle) \ {i.res} /\ i.res \in ResOf(idle)
      BY <1>0, <3>1, RemoveLemma
    <3>3. Holders' = Holders /\ \A d \in Holders : res'[d] = res[d]
      BY <1>0, <2>1 DEF AcquireIdle, Holders
    <3>4. Held' = Held
      BY <3>3, HeldLemma
    <3>5. UNCHANGED <<ports, orphans, factoryLock>>
      BY <2>1 DEF AcquireIdle
    <3> QED
      BY <2>0, <3>1, <3>2, <3>4, <3>5 DEF Keeps, Stock, InHand
  <2>2. CASE \/ AcquireNoneIdle(c) \/ AcquireToken(c) \/ AcquireCtxDone(c) \/ AcquireError(c)
             \/ AcquireAppend(c) \/ AcquireReturnToken(c)
    <3>1. Holders' = Holders /\ \A d \in Holders : res'[d] = res[d]
      BY <1>0, <2>2 DEF AcquireNoneIdle, AcquireToken, AcquireCtxDone, AcquireError, AcquireAppend,
         AcquireReturnToken, Holders
    <3>2. Held' = Held
      BY <3>1, HeldLemma
    <3>3. UNCHANGED <<idle, inuse>>
      BY <2>2 DEF AcquireNoneIdle, AcquireToken, AcquireCtxDone, AcquireError, AcquireAppend,
         AcquireReturnToken
    <3>4. /\ ports \subseteq ports' /\ factoryLock' = factoryLock
          /\ orphans \subseteq orphans' /\ ports' \subseteq ports \cup orphans'
      BY <2>2, CreateFailsKeeps DEF AcquireNoneIdle, AcquireToken, AcquireCtxDone, AcquireError,
         AcquireAppend, AppendPort, AcquireReturnToken
    <3> QED
      BY <2>0, <3>2, <3>3, <3>4 DEF Keeps, Stock, InHand
  <2>3. CASE AcquireCreate(c)
    <3>1. PICK r \in Res : CreateReturns(r) /\ res' = [res EXCEPT ![c] = r]
      BY <2>3 DEF AcquireCreate
    <3>2. Holders' = Holders \cup {c} /\ c \notin Holders /\ UNCHANGED <<idle, inuse>>
      BY <1>0, <2>3 DEF AcquireCreate, Holders
    <3>3. res'[c] = r /\ \A d \in Holders : res'[d] = res[d]
      BY <1>0, <3>1, <3>2 DEF Holders
    <3>4. Held' = Held \cup {r}
      BY <3>2, <3>3, HeldLemma
    <3> QED
      BY <2>0, <3>1, <3>2, <3>4 DEF CreateReturns, Keeps, Stock, InHand
  <2>4. CASE AcquireAddInuse(c)
    <3>1. Holders' = Holders \ {c} /\ c \in Holders /\ UNCHANGED <<idle, ports, orphans, factoryLock>>
      BY <1>0, <2>4 DEF AcquireAddInuse, Holders
    <3>2. \A d \in Holders' : res'[d] = res[d]
      BY <1>0, <2>4, <3>1 DEF AcquireAddInuse, Holders
    <3>3. Held \subseteq Held' \cup {res[c]}
      BY <3>1, <3>2, HeldLemma
    <3>4. res[c] \in ports /\ inuse' = inuse \cup {res[c]}
      BY <2>4, <3>1 DEF AcquireAddInuse, HeldExist
    <3> QED
      BY <2>0, <3>1, <3>3, <3>4 DEF Keeps, Stock, InHand
  <2> QED
    BY <1>7, <2>1, <2>2, <2>3, <2>4 DEF AcquireStep
<1>8. ASSUME NEW c \in Callers, NEW r \in created \cup {NoRes}, AcquireCall(c, r) PROVE Keeps
  <2>1. Holders' = Holders /\ \A d \in Holders : res'[d] = res[d]
    BY <1>0, <1>8 DEF AcquireCall, Step, Holders
  <2>2. Held' = Held
    BY <2>1, HeldLemma
  <2> QED
    BY <1>8, <2>2 DEF AcquireCall, Keeps, Stock, InHand
<1>9. ASSUME NEW r \in Res, NEW t \in StickTimes, Release(r, t) PROVE Keeps
  <2>1. /\ idle' = Pushed(r, now + t) /\ r \in inuse /\ inuse' = inuse \ {r}
        /\ UNCHANGED <<item, ports, orphans, factoryLock>>
        /\ loop' = loop \/ (loop = "select" /\ loop' = "idleOverMax")
    BY <1>9 DEF Release
  <2>2. ResOf(idle') = ResOf(idle) \cup {r}
    BY <1>0, <2>1, PushLemma
  <2>3. Held' = Held
    BY <1>9, HeldLemma DEF Release
  <2> QED
    BY <2>1, <2>2, <2>3 DEF Keeps, Stock, InHand
<1>10. CASE UNCHANGED vars
  <2>1. Held' = Held
    BY <1>10, HeldLemma DEF vars
  <2> QED
    BY <1>10, <2>1 DEF vars, Keeps, Stock, InHand
<1> QED
  BY <1>1, <1>2, <1>3, <1>4, <1>5, <1>6, <1>7, <1>8, <1>9, <1>10 DEF Next, PoolStep, Loop

\* The three steps of Dispose.  The item is in nobody else's hands, so that
\* deleting it takes no port from the rest of the pool.
LEMMA DisposeStep ==
  ASSUME TypeInv, OneOwner, HeldExist, DeadInv, LeakInv, DisposeStart \/ DisposeOk \/ DisposeError
  PROVE  DeadInv' /\ LeakInv'
<1> USE DEF poolVars, loopVars, callerVars, factoryVars
<1>1. UNCHANGED <<idle, inuse, item, orphans>> /\ Held' = Held
  BY HeldLemma DEF DisposeStart, DisposeOk, DisposeError, DisposeLocks, DisposeReturns, DisposeFails
<1>2. item \notin ResOf(idle) \cup inuse \cup Held
  BY DEF OneOwner, Held
<1>3. CASE DisposeStart
  BY <1>1, <1>3 DEF DisposeStart, DisposeLocks, DeadInv, LeakInv, Stock, InHand
<1>4. CASE DisposeOk
  BY <1>1, <1>2, <1>4 DEF DisposeOk, DisposeReturns, DeadInv, LeakInv, Stock, InHand
<1>5. CASE DisposeError
  <2>1. /\ loop = "deleting" /\ loop' = "putBack" /\ factoryLock' = factoryLock
        /\ ports' = ports \/ ports' = ports \ {item}
    BY <1>5 DEF DisposeError, DisposeFails
  <2>2. Stock' = Stock /\ Stock \subseteq ports /\ item \in Stock
    BY <1>1, <2>1 DEF DeadInv, Stock, InHand
  <2> QED
    BY <1>1, <2>1, <2>2 DEF DeadInv, LeakInv
<1> QED
  BY <1>3, <1>4, <1>5

\* A step that keeps everything preserves both invariants.
LEMMA KeepsInv ==
  ASSUME DeadInv, LeakInv, Keeps
  PROVE  DeadInv' /\ LeakInv'
BY DEF DeadInv, LeakInv, Keeps

LEMMA StockInit == Init => HeldExist /\ DeadInv /\ LeakInv
<1> SUFFICES ASSUME Init PROVE HeldExist /\ DeadInv /\ LeakInv
  OBVIOUS
<1>1. TypeOK
  BY TypeInit DEF TypeInv
<1>2. Stock \subseteq ports /\ HeldExist
  BY <1>1 DEF Init, TypeOK, Stock, InHand, HeldExist, Holders
<1> QED
  BY <1>2 DEF Init, DeadInv, LeakInv

StockInv == HeldExist /\ DeadInv /\ LeakInv

LEMMA StockStep == IInv /\ StockInv /\ [Next]_vars => StockInv'
<1> SUFFICES ASSUME IInv, StockInv, [Next]_vars PROVE StockInv'
  OBVIOUS
<1>1. TypeInv /\ OneOwner /\ HeldExist /\ DeadInv /\ LeakInv
  BY DEF IInv, StockInv
<1>2. HeldExist'
  BY <1>1, HeldExistStep
<1>3. DeadInv' /\ LeakInv'
  BY <1>1, KeepsStep, KeepsInv, DisposeStep
<1> QED
  BY <1>2, <1>3 DEF StockInv

\* What the invariants say of the properties.
LEMMA StockMeans == StockInv => AtMostOneDeadPort /\ NoPortLeaked
<1> SUFFICES ASSUME StockInv PROVE AtMostOneDeadPort /\ NoPortLeaked
  OBVIOUS
<1> DEFINE dead == (ResOf(idle) \cup inuse) \ ports
<1>1. Cardinality(dead) <= 1 /\ (dead # {} => factoryLock = "held")
  <2>1. dead \subseteq Stock \ ports
    BY DEF Stock
  <2>2. CASE dead = {}
    BY <2>2, FS_EmptySet
  <2>3. CASE dead # {}
    <3>1. PICK r \in dead : TRUE
      BY <2>3
    <3>2. dead = {r}
      BY <2>1, <3>1 DEF StockInv, DeadInv
    <3>3. Cardinality({r}) = 1
      BY FS_Singleton
    <3>4. factoryLock = "held"
      BY <2>1, <3>1 DEF StockInv, DeadInv
    <3> QED
      BY <3>2, <3>3, <3>4
  <2> QED
    BY <2>2, <2>3
<1>2. NoPortLeaked
  BY DEF StockInv, LeakInv, NoPortLeaked, Stock, InHand, Held
<1> QED
  BY <1>1, <1>2 DEF AtMostOneDeadPort

\* However often Dispose fails after its delete took effect, the pool never
\* holds two ports that are gone from Neutron: the first failure loses the
\* factory's lock, and with it every further delete.
THEOREM OneDeadPortAtMost == Spec => []AtMostOneDeadPort
<1>1. Init => StockInv
  BY StockInit DEF StockInv
<1>2. IInv /\ StockInv /\ [Next]_vars => StockInv'
  BY StockStep
<1>3. StockInv => AtMostOneDeadPort
  BY StockMeans
<1> QED
  BY <1>1, <1>2, <1>3, Inductive, PTL DEF Spec

\* Acquire, Release, checkIdle and checkInsufficient lose no port on any path:
\* a port that the pool created is in it, in somebody's hands, or deleted.
THEOREM NoneLeaked == Spec => []NoPortLeaked
<1>1. Init => StockInv
  BY StockInit DEF StockInv
<1>2. IInv /\ StockInv /\ [Next]_vars => StockInv'
  BY StockStep
<1>3. StockInv => NoPortLeaked
  BY StockMeans
<1> QED
  BY <1>1, <1>2, <1>3, Inductive, PTL DEF Spec
=============================================================================
