-------------------------- MODULE CreatePortProofs --------------------------
(***************************************************************************)
(* Proofs about CreatePort, for any number of calls and any ports.         *)
(*                                                                         *)
(* Calls are independent because Neutron never gives an id twice (Owners); *)
(* with that, where a call is says what it has: the port that it made, its *)
(* tag, and the goroutines that nobody has received from.                  *)
(***************************************************************************)
EXTENDS CreatePort, TLAPS

Ended == {"append", "returned", "failed"}

\* A port that was made is the port of one call at most.
Owners ==
  /\ \A c \in Calls : port[c] # None => port[c] \in created
  /\ \A c, d \in Calls : c # d /\ port[c] # None => port[d] # port[c]

\* No two ports that exist have the same address.
Addresses == \A r, s \in ports : r # s => IPof[r] # IPof[s]

\* What a call has, by how far it has come.
CallInv(c) ==
  /\ pc[c] \in {"new", "create"} => port[c] = None
  /\ pc[c] \in {"subnet", "network", "cleanup", "tag", "append", "returned"} =>
       port[c] \in ports
  /\ pc[c] \in {"append", "returned"} => port[c] \in tagged
  /\ pc[c] \in {"network", "tag", "append", "returned"} => look[c]["subnet"] = "none"
  /\ pc[c] \in {"tag", "append", "returned"} => look[c]["network"] = "none"
  /\ pc[c] \notin {"failed", "dead"} => port[c] \notin orphans

\* OrphansExplained, for one port.
Explained(r) ==
  r \in tagged \cup orphans \/ \E c \in Calls : pc[c] \in UnderWay /\ port[c] = r

IInv ==
  /\ TypeOK /\ Owners /\ Addresses
  /\ \A c \in Calls : CallInv(c)
  /\ \A r \in ports : Explained(r)
-----------------------------------------------------------------------------
CallStep(c) ==
  \/ Start(c) \/ (\E l \in Lookups : LookupEnds(c, l))
  \/ PortsCreate(c) \/ PortsCreateFails(c)
  \/ Receive(c, "subnet", "network") \/ Receive(c, "network", "tag")
  \/ CleanUp(c) \/ AddTag(c) \/ AddTagFails(c) \/ Append(c)

\* A step is one of one call, or the daemon stops, or the pool disposes of a
\* port, which touches nothing but the lock.
LockStep == factoryLock' \in {"free", "held"} /\ UNCHANGED <<ports, created, orphans, pc, port, look, tagged>>

LEMMA NextSplit == Next => (\E c \in Calls : CallStep(c)) \/ Crash \/ LockStep
<1>1. DisposeStarts \/ DisposeEnds => LockStep
  BY DEF DisposeStarts, DisposeLocks, DisposeEnds, LockStep
<1> QED
  BY <1>1, Zenon DEF Next, CallStep, Step
-----------------------------------------------------------------------------
(* Type correctness *)

LEMMA TypeStep ==
  ASSUME TypeOK, Owners, NEW c \in Calls, CallInv(c), CallStep(c)
  PROVE  TypeOK'
<1> USE CreatePortAssumption
    DEF TypeOK, Owners, CallInv, UnderWay, Lookups, factoryVars
<1>1. CASE Start(c)
  BY <1>1 DEF Start, Goto
<1>2. CASE \E l \in Lookups : LookupEnds(c, l)
  BY <1>2 DEF LookupEnds
<1>3. CASE PortsCreate(c)
  BY <1>3 DEF PortsCreate, Made, Goto, Creatable
<1>4. CASE PortsCreateFails(c)
  <2>1. CASE Goto(c, "failed") /\ UNCHANGED <<ports, created, port, orphans>>
    BY <1>4, <2>1 DEF PortsCreateFails, Goto
  <2>2. CASE \E r \in Creatable : Made(c, r) /\ EndsUnclean(c, r)
    BY <1>4, <2>2 DEF PortsCreateFails, Made, EndsUnclean, Goto, Creatable
  <2> QED
    BY <1>4, <2>1, <2>2 DEF PortsCreateFails
<1>5. CASE Receive(c, "subnet", "network")
  BY <1>5 DEF Receive, Goto
<1>6. CASE Receive(c, "network", "tag")
  BY <1>6 DEF Receive, Goto
<1>7. CASE CleanUp(c)
  BY <1>7 DEF CleanUp, EndsUnclean, Goto
<1>8. CASE AddTag(c)
  BY <1>8 DEF AddTag, Goto
<1>9. CASE AddTagFails(c)
  BY <1>9 DEF AddTagFails, EndsUnclean, Goto
<1>10. CASE Append(c)
  BY <1>10 DEF Append, AppendPort, Goto
<1> QED
  BY <1>1, <1>2, <1>3, <1>4, <1>5, <1>6, <1>7, <1>8, <1>9, <1>10 DEF CallStep

LEMMA TypeCrash ==
  ASSUME TypeOK, Owners, Crash
  PROVE  TypeOK'
  BY DEF TypeOK, Owners, Crash, UnderWay, Lookups, factoryVars
-----------------------------------------------------------------------------
(* Calls do not share ports, and ports do not share addresses *)

LEMMA OwnersStep ==
  ASSUME TypeOK, Owners, NEW c \in Calls, CallInv(c), CallStep(c)
  PROVE  Owners'
<1> USE CreatePortAssumption DEF TypeOK, Owners, CallInv, factoryVars
<1>1. CASE Start(c)
  BY <1>1 DEF Start, Goto
<1>2. CASE \E l \in Lookups : LookupEnds(c, l)
  BY <1>2 DEF LookupEnds
<1>3. CASE PortsCreate(c)
  BY <1>3 DEF PortsCreate, Made, Goto, Creatable
<1>4. CASE PortsCreateFails(c)
  BY <1>4 DEF PortsCreateFails, Made, EndsUnclean, Goto, Creatable
<1>5. CASE Receive(c, "subnet", "network")
  BY <1>5 DEF Receive, Goto
<1>6. CASE Receive(c, "network", "tag")
  BY <1>6 DEF Receive, Goto
<1>7. CASE CleanUp(c)
  BY <1>7 DEF CleanUp, EndsUnclean, Goto
<1>8. CASE AddTag(c)
  BY <1>8 DEF AddTag, Goto
<1>9. CASE AddTagFails(c)
  BY <1>9 DEF AddTagFails, EndsUnclean, Goto
<1>10. CASE Append(c)
  BY <1>10 DEF Append, AppendPort, Goto
<1> QED
  BY <1>1, <1>2, <1>3, <1>4, <1>5, <1>6, <1>7, <1>8, <1>9, <1>10 DEF CallStep

LEMMA AddressesStep ==
  ASSUME TypeOK, Addresses, NEW c \in Calls, CallStep(c)
  PROVE  Addresses'
<1> USE DEF TypeOK, Addresses, factoryVars
<1>1. CASE Start(c)
  BY <1>1 DEF Start, Goto
<1>2. CASE \E l \in Lookups : LookupEnds(c, l)
  BY <1>2 DEF LookupEnds
<1>3. CASE PortsCreate(c)
  BY <1>3 DEF PortsCreate, Made, Goto, Creatable
<1>4. CASE PortsCreateFails(c)
  BY <1>4 DEF PortsCreateFails, Made, EndsUnclean, Goto, Creatable
<1>5. CASE Receive(c, "subnet", "network")
  BY <1>5 DEF Receive, Goto
<1>6. CASE Receive(c, "network", "tag")
  BY <1>6 DEF Receive, Goto
<1>7. CASE CleanUp(c)
  BY <1>7 DEF CleanUp, EndsUnclean, Goto
<1>8. CASE AddTag(c)
  BY <1>8 DEF AddTag, Goto
<1>9. CASE AddTagFails(c)
  BY <1>9 DEF AddTagFails, EndsUnclean, Goto
<1>10. CASE Append(c)
  BY <1>10 DEF Append, AppendPort, Goto
<1> QED
  BY <1>1, <1>2, <1>3, <1>4, <1>5, <1>6, <1>7, <1>8, <1>9, <1>10 DEF CallStep
-----------------------------------------------------------------------------
(* What a call has *)

LEMMA OwnStep ==
  ASSUME TypeOK, TypeOK', Owners, NEW c \in Calls, CallInv(c), CallStep(c)
  PROVE  CallInv(c)'
<1> USE CreatePortAssumption DEF TypeOK, Owners, CallInv, factoryVars, Lookups
<1>1. CASE Start(c)
  BY <1>1 DEF Start, Goto
<1>2. CASE \E l \in Lookups : LookupEnds(c, l)
  BY <1>2 DEF LookupEnds
<1>3. CASE PortsCreate(c)
  BY <1>3 DEF PortsCreate, Made, Goto, Creatable
<1>4. CASE PortsCreateFails(c)
  BY <1>4 DEF PortsCreateFails, Made, EndsUnclean, Goto, Creatable
<1>5. CASE Receive(c, "subnet", "network")
  BY <1>5 DEF Receive, Goto
<1>6. CASE Receive(c, "network", "tag")
  BY <1>6 DEF Receive, Goto
<1>7. CASE CleanUp(c)
  BY <1>7 DEF CleanUp, EndsUnclean, Goto
<1>8. CASE AddTag(c)
  BY <1>8 DEF AddTag, Goto
<1>9. CASE AddTagFails(c)
  BY <1>9 DEF AddTagFails, EndsUnclean, Goto
<1>10. CASE Append(c)
  BY <1>10 DEF Append, AppendPort, Goto
<1> QED
  BY <1>1, <1>2, <1>3, <1>4, <1>5, <1>6, <1>7, <1>8, <1>9, <1>10 DEF CallStep

\* The other calls keep their ports: CleanUp deletes the port of its own call.
LEMMA OtherStep ==
  ASSUME TypeOK, TypeOK', Owners, NEW c \in Calls, CallInv(c), CallStep(c),
         NEW d \in Calls, d # c, CallInv(d)
  PROVE  CallInv(d)'
<1> USE CreatePortAssumption DEF TypeOK, Owners, CallInv, factoryVars, Lookups
<1>1. CASE Start(c)
  BY <1>1 DEF Start, Goto
<1>2. CASE \E l \in Lookups : LookupEnds(c, l)
  BY <1>2 DEF LookupEnds
<1>3. CASE PortsCreate(c)
  BY <1>3 DEF PortsCreate, Made, Goto, Creatable
<1>4. CASE PortsCreateFails(c)
  BY <1>4 DEF PortsCreateFails, Made, EndsUnclean, Goto, Creatable
<1>5. CASE Receive(c, "subnet", "network")
  BY <1>5 DEF Receive, Goto
<1>6. CASE Receive(c, "network", "tag")
  BY <1>6 DEF Receive, Goto
<1>7. CASE CleanUp(c)
  BY <1>7 DEF CleanUp, EndsUnclean, Goto
<1>8. CASE AddTag(c)
  BY <1>8 DEF AddTag, Goto
<1>9. CASE AddTagFails(c)
  BY <1>9 DEF AddTagFails, EndsUnclean, Goto
<1>10. CASE Append(c)
  BY <1>10 DEF Append, AppendPort, Goto
<1> QED
  BY <1>1, <1>2, <1>3, <1>4, <1>5, <1>6, <1>7, <1>8, <1>9, <1>10 DEF CallStep

LEMMA ExplainedStep ==
  ASSUME TypeOK, TypeOK', Owners, NEW c \in Calls, CallInv(c), CallStep(c),
         \A r \in ports : Explained(r)
  PROVE  \A r \in ports' : Explained(r)'
<1> USE CreatePortAssumption DEF TypeOK, Owners, CallInv, Explained, UnderWay, factoryVars
<1>1. CASE Start(c)
  BY <1>1 DEF Start, Goto
<1>2. CASE \E l \in Lookups : LookupEnds(c, l)
  BY <1>2 DEF LookupEnds
<1>3. CASE PortsCreate(c)
  BY <1>3 DEF PortsCreate, Made, Goto, Creatable
<1>4. CASE PortsCreateFails(c)
  BY <1>4 DEF PortsCreateFails, Made, EndsUnclean, Goto, Creatable
<1>5. CASE Receive(c, "subnet", "network")
  BY <1>5 DEF Receive, Goto
<1>6. CASE Receive(c, "network", "tag")
  BY <1>6 DEF Receive, Goto
<1>7. CASE CleanUp(c)
  BY <1>7 DEF CleanUp, EndsUnclean, Goto
<1>8. CASE AddTag(c)
  BY <1>8 DEF AddTag, Goto
<1>9. CASE AddTagFails(c)
  BY <1>9 DEF AddTagFails, EndsUnclean, Goto
<1>10. CASE Append(c)
  BY <1>10 DEF Append, AppendPort, Goto
<1> QED
  BY <1>1, <1>2, <1>3, <1>4, <1>5, <1>6, <1>7, <1>8, <1>9, <1>10 DEF CallStep

LEMMA CrashStep ==
  ASSUME IInv, Crash
  PROVE  IInv'
<1> USE DEF IInv
<1>1. TypeOK'
  BY TypeCrash
<1>2. Owners' /\ Addresses'
  BY DEF Crash, Owners, Addresses, factoryVars
<1>3. ASSUME NEW c \in Calls
      PROVE  CallInv(c)'
  <2>1. ASSUME pc'[c] \notin {"failed", "dead"}
        PROVE  port'[c] \notin orphans'
    <3>1. pc[c] \notin UnderWay /\ pc[c] \notin {"failed", "dead"} /\ port' = port
      BY <2>1 DEF Crash, TypeOK
    <3>2. port[c] \notin {port[d] : d \in {e \in Calls : pc[e] \in UnderWay}} \ {None}
      BY <3>1 DEF Owners
    <3> QED
      BY <3>1, <3>2 DEF Crash, CallInv
  <2> QED
    BY <1>1, <2>1 DEF Crash, CallInv, TypeOK, UnderWay, Lookups
<1>4. ASSUME NEW r \in ports'
      PROVE  Explained(r)'
  <2>1. r \in ports /\ Explained(r) /\ r # None
    BY CreatePortAssumption DEF Crash, TypeOK, factoryVars
  <2>2. CASE r \in tagged \cup orphans
    BY <2>2 DEF Crash, Explained
  <2>3. CASE \E c \in Calls : pc[c] \in UnderWay /\ port[c] = r
    <3>1. PICK c \in Calls : pc[c] \in UnderWay /\ port[c] = r
      BY <2>3
    <3>2. r \in orphans'
      BY <2>1, <3>1 DEF Crash
    <3> QED
      BY <3>2 DEF Explained
  <2> QED
    BY <2>1, <2>2, <2>3 DEF Explained
<1> QED
  BY <1>1, <1>2, <1>3, <1>4
-----------------------------------------------------------------------------
LEMMA InvInit == Init => IInv
  BY DEF Init, IInv, TypeOK, Owners, Addresses, CallInv, UnderWay, Lookups

LEMMA Inductive == IInv /\ [Next]_vars => IInv'
<1> SUFFICES ASSUME IInv, [Next]_vars PROVE IInv'
  OBVIOUS
<1> USE DEF IInv
<1>1. CASE UNCHANGED vars
  BY <1>1 DEF vars, factoryVars, TypeOK, Owners, Addresses, CallInv, Explained
<1>2. CASE \E c \in Calls : CallStep(c)
  <2> PICK c \in Calls : CallStep(c)
    BY <1>2
  <2>1. TypeOK'
    BY TypeStep
  <2>2. Owners' /\ Addresses'
    BY OwnersStep, AddressesStep
  <2>3. \A d \in Calls : CallInv(d)'
    BY <2>1, OwnStep, OtherStep
  <2>4. \A r \in ports' : Explained(r)'
    BY <2>1, ExplainedStep
  <2> QED
    BY <2>1, <2>2, <2>3, <2>4
<1>3. CASE LockStep
  BY <1>3 DEF LockStep, TypeOK, Owners, Addresses, CallInv, Explained
<1> QED
  BY <1>1, <1>2, <1>3, NextSplit, CrashStep

LEMMA InvAlways == Spec => []IInv
  BY InvInit, Inductive, PTL DEF Spec

\* Every variable keeps its values; in particular a tag and a mark are only
\* ever given to ports that Neutron made.
THEOREM CreateTypeCorrect == Spec => []TypeOK
<1>1. IInv => TypeOK
  BY DEF IInv
<1> QED
  BY <1>1, InvAlways, PTL

\* However calls of Create, their lookups and crashes interleave, a call that
\* returned a port has one that exists, is tagged and is nobody else's, and
\* has received from both its goroutines.
THEOREM ReturnedComplete == Spec => []ReturnedIsComplete
<1>1. IInv => ReturnedIsComplete
  BY CreatePortAssumption
     DEF IInv, TypeOK, Owners, CallInv, ReturnedIsComplete, Lookups
<1> QED
  BY <1>1, InvAlways, PTL

\* An existing port without the tag is always one that a call is working on,
\* or one of a call that a failed request or a crash has ended.
THEOREM OrphansAlwaysExplained == Spec => []OrphansExplained
<1>1. IInv => OrphansExplained
  BY DEF IInv, Explained, OrphansExplained
<1> QED
  BY <1>1, InvAlways, PTL
-----------------------------------------------------------------------------
(* One step of PortFactory for each call *)

FactoryStep ==
  \/ Factory!CreateFails(Factory!Creatable)
  \/ \E r \in Res : Factory!CreateReturns(r)

LEMMA SettledIs ==
  \A r : r \in Settled <=> r \in ports /\ \E c \in Calls : pc[c] \in Ended /\ port[c] = r
  BY DEF Settled, Ended

LEMMA SettledIsNext ==
  \A r : r \in Settled' <=> r \in ports' /\ \E c \in Calls : pc'[c] \in Ended /\ port'[c] = r
  BY DEF Settled, Ended

\* A call that has not ended and whose port exists has a port that PortFactory
\* could make now.
LEMMA StillCreatable ==
  ASSUME IInv, NEW c \in Calls, pc[c] \notin Ended, port[c] \in ports
  PROVE  port[c] \in Factory!Creatable
<1>1. port[c] \in Res /\ port[c] # None
  BY CreatePortAssumption DEF IInv, TypeOK
<1>2. port[c] \notin Settled
  BY <1>1, SettledIs DEF IInv, Owners
<1>3. \A p \in Settled : IPof[p] # IPof[port[c]]
  BY <1>2, SettledIs DEF IInv, Addresses
<1> QED
  BY <1>1, <1>2, <1>3 DEF Factory!Creatable

\* The two ways in which the port of a call becomes known: with the result, or
\* to nobody.
LEMMA Joins ==
  ASSUME NEW r \in Factory!Creatable, r \in Res, r \notin orphans,
         Settled' = Settled \cup {r}, UNCHANGED <<orphans, factoryLock>>
  PROVE  FactoryStep
<1>1. Lost' = Lost
  BY DEF Lost
<1> QED
  BY <1>1 DEF FactoryStep, Factory!CreateReturns

LEMMA JoinsLost ==
  ASSUME "orphan" \in Faults, NEW r \in Factory!Creatable,
         Settled' = Settled \cup {r}, orphans' = orphans \cup {r}, UNCHANGED factoryLock,
         r \notin Settled
  PROVE  FactoryStep
<1>1. \A s : s \in Lost' <=> s \in Lost \cup {r}
  BY DEF Lost
<1>2. Lost' = Lost \cup {r}
  BY <1>1, Zenon
<1> QED
  BY <1>2 DEF FactoryStep, Factory!CreateFails

\* Where a call that has made nothing, or whose port is gone, ends.
LEMMA SettledKept ==
  ASSUME \A r : r \in Settled' <=> r \in Settled, UNCHANGED orphans
  PROVE  UNCHANGED <<Settled, Lost>>
<1>1. Settled' = Settled
  BY Zenon
<1> QED
  BY <1>1 DEF Lost

LEMMA RefinesStep ==
  ASSUME "orphan" \in Faults, IInv, NEW c \in Calls, CallStep(c)
  PROVE  FactoryStep \/ UNCHANGED <<Settled, Lost>>
<1>0. TypeOK /\ Owners /\ CallInv(c)
  BY DEF IInv
<1>a. UNCHANGED factoryLock
  BY DEF CallStep, Start, LookupEnds, PortsCreate, PortsCreateFails, Receive, CleanUp,
         AddTag, AddTagFails, Append, AppendPort, factoryVars
<1>b. ASSUME port[c] \in ports, pc[c] \notin Ended, UNCHANGED <<ports, port>>,
             Goto(c, "failed") \/ Goto(c, "append")
      PROVE  /\ Settled' = Settled \cup {port[c]} /\ port[c] \notin Settled
             /\ port[c] \in Factory!Creatable /\ port[c] \in Res
  <2>1. pc'[c] \in Ended /\ \A d \in Calls \ {c} : pc'[d] = pc[d]
    BY <1>0, <1>b DEF TypeOK, Ended, Goto
  <2>2. \A r : r \in Settled' <=> r \in Settled \cup {port[c]}
    BY <1>b, <2>1, SettledIs, SettledIsNext
  <2>3. port[c] \in Factory!Creatable /\ port[c] \in Res
    BY <1>0, <1>b, StillCreatable DEF TypeOK
  <2>4. Settled' = Settled \cup {port[c]}
    BY <2>2, Zenon
  <2> QED
    BY <2>3, <2>4 DEF Factory!Creatable
<1>c. ASSUME UNCHANGED <<ports, port, orphans>>,
             \A d \in Calls : pc'[d] \in Ended <=> pc[d] \in Ended
      PROVE  UNCHANGED <<Settled, Lost>>
  <2>1. \A r : r \in Settled' <=> r \in Settled
    BY <1>c, SettledIs, SettledIsNext
  <2> QED
    BY <1>c, <2>1, SettledKept
<1> USE <1>0 DEF TypeOK, Ended
<1>1. CASE Start(c) \/ (\E l \in Lookups : LookupEnds(c, l))
  BY <1>1, <1>c DEF Start, LookupEnds, Goto, factoryVars
<1>2. CASE Receive(c, "subnet", "network") \/ Receive(c, "network", "tag") \/ Append(c)
  BY <1>2, <1>c DEF Receive, Append, AppendPort, Goto, factoryVars
<1>3. CASE PortsCreate(c)
  <2>1. \A r : r \in Settled' <=> r \in Settled
    BY <1>3, SettledIs, SettledIsNext, CreatePortAssumption
       DEF PortsCreate, Made, Goto, Creatable, Owners, CallInv
  <2> QED
    BY <1>3, <2>1, SettledKept DEF PortsCreate
<1>4. CASE PortsCreateFails(c)
  <2>1. CASE Goto(c, "failed") /\ UNCHANGED <<ports, port, orphans>>
    <3>1. \A r : r \in Settled' <=> r \in Settled
      BY <1>4, <2>1, SettledIs, SettledIsNext, CreatePortAssumption
         DEF PortsCreateFails, EndsUnclean, Goto, CallInv
    <3> QED
      BY <2>1, <3>1, SettledKept
  <2>2. CASE \E r \in Creatable : Made(c, r) /\ EndsUnclean(c, r)
    <3>1. PICK r \in Creatable : Made(c, r) /\ EndsUnclean(c, r)
      BY <2>2
    <3>2. /\ pc'[c] \in Ended /\ port'[c] = r /\ port[c] = None
          /\ \A d \in Calls \ {c} : pc'[d] = pc[d] /\ port'[d] = port[d]
          /\ ports' = ports \cup {r} /\ orphans' = orphans \cup {r}
      BY <1>4, <3>1 DEF PortsCreateFails, Made, EndsUnclean, Goto, CallInv
    <3>3. r \in Res /\ r \notin created /\ \A p \in ports : IPof[p] # IPof[r]
      BY DEF Creatable
    <3>4. None \notin ports /\ \A d \in Calls : port[d] # r
      BY <1>0, <3>3, CreatePortAssumption DEF Owners
    <3>5. ASSUME NEW s
          PROVE  s \in Settled' <=> s \in Settled \cup {r}
      <4>1. s \in Settled' => s \in Settled \cup {r}
        BY <3>2, SettledIs, SettledIsNext
      <4>2. s \in Settled => s \in Settled'
        BY <3>2, <3>4, SettledIs, SettledIsNext
      <4>3. r \in Settled'
        BY <3>2, SettledIsNext
      <4> QED
        BY <4>1, <4>2, <4>3
    <3>6. r \in Factory!Creatable
      BY <3>3, SettledIs DEF Factory!Creatable
    <3>7. Settled' = Settled \cup {r}
      BY <3>5, Zenon
    <3> QED
      BY <1>a, <3>2, <3>6, <3>7, JoinsLost DEF Factory!Creatable
  <2> QED
    BY <1>4, <2>1, <2>2 DEF PortsCreateFails
<1>5. CASE CleanUp(c)
  <2>1. CASE ports' = ports \ {port[c]} /\ Goto(c, "failed") /\ UNCHANGED orphans
    <3>1. port[c] # None
      BY <1>5, CreatePortAssumption DEF CleanUp, CallInv
    <3>2. \A r : r \in Settled' <=> r \in Settled
      BY <1>5, <2>1, <3>1, SettledIs, SettledIsNext
         DEF CleanUp, Goto, Owners
    <3> QED
      BY <2>1, <3>2, SettledKept
  <2>2. CASE EndsUnclean(c, port[c]) /\ UNCHANGED ports
    BY <1>5, <2>2, <1>a, <1>b, JoinsLost DEF CleanUp, EndsUnclean, CallInv
  <2> QED
    BY <1>5, <2>1, <2>2 DEF CleanUp
<1>6. CASE AddTag(c)
  BY <1>6, <1>a, <1>b, Joins DEF AddTag, CallInv, factoryVars
<1>7. CASE AddTagFails(c)
  BY <1>7, <1>a, <1>b, JoinsLost DEF AddTagFails, EndsUnclean, CallInv
<1> QED
  BY <1>1, <1>2, <1>3, <1>4, <1>5, <1>6, <1>7 DEF CallStep

\* Seen from the pool, which only knows of a port when Create has returned,
\* every call is the one atomic step of PortFactory: a port that is new and
\* has a free address, or a failure that may leave one behind.  CreatePort
\* lets AddTag fail, so "orphan" is among the failures of PortFactory.
THEOREM CreateImplementsFactory ==
  ASSUME "orphan" \in Faults
  PROVE  Spec => ImplementsFactory
<1>1. ASSUME IInv, [Next]_vars
      PROVE  [FactoryStep \/ Crash]_<<Settled, Lost>>
  <2>1. CASE UNCHANGED vars
    BY <2>1 DEF vars, factoryVars, Settled, Lost
  <2>2. CASE \E c \in Calls : CallStep(c)
    BY <1>1, <2>2, RefinesStep
  <2>3. CASE LockStep
    BY <2>3 DEF LockStep, Settled, Lost
  <2> QED
    BY <1>1, <2>1, <2>2, <2>3, NextSplit
<1>2. IInv /\ [Next]_vars =>
        [\/ Factory!CreateFails(Factory!Creatable)
         \/ \E r \in Res : Factory!CreateReturns(r)
         \/ Crash]_<<Settled, Lost>>
  BY <1>1 DEF FactoryStep
<1> QED
  BY <1>2, InvAlways, PTL DEF Spec, ImplementsFactory
=============================================================================
