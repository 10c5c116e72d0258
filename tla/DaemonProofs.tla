---------------------------- MODULE DaemonProofs ----------------------------
(***************************************************************************)
(* Proofs about Daemon, for any pods, ports, handlers and scenarios.       *)
(*                                                                         *)
(* A pod with one request at a time has one handler that reads and writes  *)
(* its record (AloneInv), or none, and then the record is at rest          *)
(* (QuietInv).  The ports of the other pods are all in stale (CrossedInv). *)
(* What is left is that the ports which are not stale have one owner each, *)
(* and are in use as long as they have it (Owned).                         *)
(***************************************************************************)
EXTENDS Daemon, TLAPS

Free(p) == \A h \in Handlers : pod[h] # p

\* Where a handler is says for whom it works and what it owes to the memory.
HandlerInv(h) ==
  /\ pc[h] = "free" <=> pod[h] = None
  /\ pc[h] = "putMemory" => todo[h] = [key |-> pod[h], value |-> port[h]]
  /\ pc[h] = "deleteMemory" => todo[h] = [key |-> pod[h], value |-> None]
  /\ pc[h] \notin {"putMemory", "deleteMemory"} => todo[h] = Store!NoWrite
  /\ pc[h] \in {"put", "putMemory", "addReply"} => port[h] # None
  /\ pc[h] \in {"delete", "deleteMemory"} => pod[h] \notin sticky

\* What the record of a pod may still name when its port was given back.
Leftover(p) == {None} \cup (IF p \in sticky THEN stale ELSE {})

\* The handler of a pod with one request at a time.
AloneInv(h) == pod[h] \in Pods \ crossed =>
  /\ \A g \in Handlers : pod[g] = pod[h] => g = h
  /\ holds[pod[h]] = None /\ life[pod[h]] \in {"busy", "broken"}
  /\ pc[h] \in {"add", "allocate", "put", "putMemory", "delReply"} =>
       memory[pod[h]] \in Leftover(pod[h])
  /\ pc[h] \in {"release", "delete", "deleteMemory", "addReply"} =>
       memory[pod[h]] = port[h]
  /\ pc[h] = "putMemory" => disk[pod[h]] = port[h]
  /\ pc[h] = "deleteMemory" => disk[pod[h]] = None
  /\ pc[h] \notin {"putMemory", "deleteMemory"} => disk[pod[h]] = memory[pod[h]]

\* A pod that no handler works for.
QuietInv(p) == p \notin crossed /\ Free(p) =>
  /\ disk[p] = memory[p]
  /\ holds[p] # None => life[p] = "up" /\ memory[p] = holds[p]
  /\ life[p] = "down" => memory[p] \in Leftover(p)

\* The ports of a pod that had two requests at a time are not counted on.
CrossedInv ==
  /\ \A p \in crossed : {memory[p], disk[p], holds[p]} \subseteq stale \cup {None}
  /\ \A h \in Handlers : pod[h] \in crossed => port[h] \in stale \cup {None}

\* The record of p names a port that was not given back.
Recorded(p, r) ==
  /\ memory[p] = r
  /\ p \in crossed \/ \A h \in Handlers : pod[h] = p => pc[h] \notin {"delete", "deleteMemory"}

\* A handler is about to give the port to p.
Given(p, r) ==
  \E h \in Handlers : pod[h] = p /\ port[h] = r /\ pc[h] \in {"put", "putMemory", "addReply"}

Has(p, r) == Recorded(p, r) \/ Given(p, r)

Owned ==
  \A p \in Pods, r \in Res \ stale : Has(p, r) =>
    /\ r \in inuse
    /\ \A q \in Pods \ {p} : ~Has(q, r)

\* NoPortForgotten, for one port, without the records about to be deleted.
Remembered(r) ==
  \/ \E p \in Pods : Recorded(p, r)
  \/ \E h \in Handlers : pc[h] \in {"put", "putMemory"} /\ port[h] = r

RecordInv ==
  /\ \A h \in Handlers : HandlerInv(h) /\ AloneInv(h)
  /\ \A p \in Pods : QuietInv(p)
  /\ CrossedInv

IInv ==
  /\ TypeOK /\ idle \cap inuse = {}
  /\ RecordInv /\ Owned
  /\ \A r \in inuse \ strays : Remembered(r)
-----------------------------------------------------------------------------
Act(h) ==
  \/ GetPodFails(h) \/ GetPodResource(h)
  \/ AllocatePort(h) \/ AllocateFails(h) \/ PutRecord(h) \/ PutFails(h) \/ PutMemory(h)
  \/ AddReply(h) \/ AddReplyFails(h)
  \/ ReleasePort(h) \/ ReleaseInvalid(h) \/ DeleteRecord(h) \/ DeleteFails(h)
  \/ DeleteMemory(h) \/ DelReply(h) \/ GiveUp(h)

Cmd(h, p) == CmdAdd(h, p) \/ CmdDel(h, p)

LEMMA ActIs == \A h \in Handlers : Handle(h) \/ PutFails(h) <=> Act(h)
  BY DEF Act, Handle

\* What a step does to the history variables, whatever it strays.
Keeps ==
  /\ stale \subseteq stale' /\ sticky' = sticky /\ crossed \subseteq crossed'
  /\ \A p \in crossed' \ crossed :
       \E h, g \in Handlers : h # g /\ pod'[h] = p /\ pod'[g] = p
  /\ \A p \in Pods \ crossed' : \A h, g \in Handlers : pod'[h] = p /\ pod'[g] = p => h = g
  /\ \A g \in Handlers : Outlives(g) => port[g] \in stale' \cup {None}
  /\ \A g \in Handlers : pod'[g] \in crossed' => port'[g] \in stale' \cup {None}
  /\ \A p \in crossed' : {memory'[p], disk'[p]} \subseteq stale' \cup {None}
  /\ strays' \subseteq inuse' /\ strays \cap inuse' \subseteq strays'
  /\ \A p \in sticky \cup crossed : memory'[p] # memory[p] /\ memory[p] \in inuse' => memory[p] \in strays'

LEMMA HistoryKeeps ==
  ASSUME NEW STATE more, History(more)
  PROVE  Keeps
  BY DEF History, Keeps

LEMMA StrayPort ==
  ASSUME NEW STATE more, History(more)
  PROVE  more \cap inuse' \subseteq strays'
  BY DEF History
-----------------------------------------------------------------------------
(* Type correctness *)

StepType ==
  /\ created' \subseteq Res /\ ports' \subseteq created'
  /\ idle' \subseteq Res /\ inuse' \subseteq Res
  /\ Store!StoreTypeOK'
  /\ pc' \in [Handlers -> HandlerPC]
  /\ pod' \in [Handlers -> Pods \cup {None}]
  /\ port' \in [Handlers -> Res \cup {None}]
  /\ life' \in [Pods -> {"down", "busy", "up", "broken"}]
  /\ holds' \in [Pods -> Res \cup {None}]
  /\ late' \subseteq Handlers /\ giveUps' \in Nat
  /\ idle' \cap inuse' = {}

LEMMA ActType ==
  ASSUME TypeOK, idle \cap inuse = {}, NEW h \in Handlers, HandlerInv(h), Act(h)
  PROVE  StepType
<1> USE DaemonAssumption
    DEF TypeOK, StepType, HandlerInv, HandlerPC, Store!StoreTypeOK, Store!Write,
        poolVars, storeVars, handlerVars, kubeletVars
<1>1. CASE GetPodFails(h)
  BY <1>1 DEF GetPodFails, Answer
<1>2. CASE GetPodResource(h)
  BY <1>2 DEF GetPodResource, Goto
<1>3. CASE AllocatePort(h)
  BY <1>3 DEF AllocatePort, Goto, Pool!AcquireIdle, Pool!AcquireNew
<1>4. CASE AllocateFails(h)
  BY <1>4 DEF AllocateFails, Answer
<1>5. CASE PutRecord(h)
  BY <1>5 DEF PutRecord, Goto, Store!Put, Store!WriteDisk, Store!NoWrite
<1>6. CASE PutFails(h)
  BY <1>6 DEF PutFails, Answer, Store!UpdateFails, Store!storeVars
<1>7. CASE PutMemory(h)
  BY <1>7 DEF PutMemory, Goto, Store!WriteMemory, Store!NoWrite
<1>8. CASE AddReply(h)
  BY <1>8 DEF AddReply, Answer
<1>9. CASE AddReplyFails(h)
  BY <1>9 DEF AddReplyFails, Answer
<1>10. CASE ReleasePort(h)
  BY <1>10 DEF ReleasePort, Goto, AfterRelease, Pool!Release
<1>11. CASE ReleaseInvalid(h)
  BY <1>11 DEF ReleaseInvalid, Answer
<1>12. CASE DeleteRecord(h)
  BY <1>12 DEF DeleteRecord, Goto, Store!Delete, Store!WriteDisk, Store!NoWrite
<1>13. CASE DeleteFails(h)
  BY <1>13 DEF DeleteFails, Answer, Store!UpdateFails, Store!storeVars
<1>14. CASE DeleteMemory(h)
  BY <1>14 DEF DeleteMemory, Goto, Store!WriteMemory, Store!NoWrite
<1>15. CASE DelReply(h)
  BY <1>15 DEF DelReply, Answer
<1>16. CASE GiveUp(h)
  BY <1>16 DEF GiveUp
<1> QED
  BY <1>1, <1>2, <1>3, <1>4, <1>5, <1>6, <1>7, <1>8,
     <1>9, <1>10, <1>11, <1>12, <1>13, <1>14, <1>15, <1>16 DEF Act

LEMMA HistoryType ==
  ASSUME TypeOK, StepType, NEW STATE more, History(more)
  PROVE  TypeOK'
<1>1. stale' \subseteq Res
  <2>1. \A g \in Handlers : port[g] \in Res \cup {None} /\ port'[g] \in Res \cup {None}
    BY DEF TypeOK, StepType
  <2>2. \A p \in Pods : memory'[p] \in Res \cup {None} /\ disk'[p] \in Res \cup {None}
    BY DEF StepType, Store!StoreTypeOK
  <2>3. crossed' \subseteq Pods /\ stale \subseteq Res
    BY DEF TypeOK, History
  <2> QED
    BY <2>1, <2>2, <2>3 DEF History
<1>2. crossed' \subseteq Pods /\ sticky' \subseteq Pods /\ strays' \subseteq inuse'
  BY DEF TypeOK, History
<1> QED
  BY <1>1, <1>2 DEF TypeOK, StepType
-----------------------------------------------------------------------------
(* What a step of a handler leaves alone *)

Frame(h) ==
  /\ pod[h] \in Pods /\ pod'[h] \in {pod[h], None}
  /\ \A g \in Handlers \ {h} :
       pc'[g] = pc[g] /\ pod'[g] = pod[g] /\ port'[g] = port[g] /\ todo'[g] = todo[g]
  /\ \A q \in Pods \ {pod[h]} :
       memory'[q] = memory[q] /\ disk'[q] = disk[q] /\ life'[q] = life[q] /\ holds'[q] = holds[q]

LEMMA ActFrame ==
  ASSUME TypeOK, NEW h \in Handlers, HandlerInv(h), Act(h)
  PROVE  Frame(h)
<1> USE DEF TypeOK, Frame, HandlerInv, HandlerPC, Store!StoreTypeOK, Store!Write,
        poolVars, storeVars, handlerVars, kubeletVars
<1>1. CASE GetPodFails(h)
  BY <1>1 DEF GetPodFails, Answer
<1>2. CASE GetPodResource(h)
  BY <1>2 DEF GetPodResource, Goto
<1>3. CASE AllocatePort(h)
  BY <1>3 DEF AllocatePort, Goto, Pool!AcquireIdle, Pool!AcquireNew
<1>4. CASE AllocateFails(h)
  BY <1>4 DEF AllocateFails, Answer
<1>5. CASE PutRecord(h)
  BY <1>5 DEF PutRecord, Goto, Store!Put, Store!WriteDisk, Store!NoWrite
<1>6. CASE PutFails(h)
  BY <1>6 DEF PutFails, Answer, Store!UpdateFails, Store!storeVars
<1>7. CASE PutMemory(h)
  BY <1>7 DEF PutMemory, Goto, Store!WriteMemory, Store!NoWrite
<1>8. CASE AddReply(h)
  BY <1>8 DEF AddReply, Answer
<1>9. CASE AddReplyFails(h)
  BY <1>9 DEF AddReplyFails, Answer
<1>10. CASE ReleasePort(h)
  BY <1>10 DEF ReleasePort, Goto, AfterRelease, Pool!Release
<1>11. CASE ReleaseInvalid(h)
  BY <1>11 DEF ReleaseInvalid, Answer
<1>12. CASE DeleteRecord(h)
  BY <1>12 DEF DeleteRecord, Goto, Store!Delete, Store!WriteDisk, Store!NoWrite
<1>13. CASE DeleteFails(h)
  BY <1>13 DEF DeleteFails, Answer, Store!UpdateFails, Store!storeVars
<1>14. CASE DeleteMemory(h)
  BY <1>14 DEF DeleteMemory, Goto, Store!WriteMemory, Store!NoWrite
<1>15. CASE DelReply(h)
  BY <1>15 DEF DelReply, Answer
<1>16. CASE GiveUp(h)
  BY <1>16 DEF GiveUp
<1> QED
  BY <1>1, <1>2, <1>3, <1>4, <1>5, <1>6, <1>7, <1>8,
     <1>9, <1>10, <1>11, <1>12, <1>13, <1>14, <1>15, <1>16 DEF Act
-----------------------------------------------------------------------------
(* The records, under a step of a handler *)

\* A handler that goes on or returns does not make requests cross.
LEMMA NoneCrosses ==
  ASSUME TypeOK', RecordInv, NEW h \in Handlers, Frame(h), Keeps
  PROVE  crossed' = crossed
<1> SUFFICES ASSUME NEW p \in crossed', p \notin crossed PROVE FALSE
  BY DEF Keeps
<1>1. PICK f, g \in Handlers : f # g /\ pod'[f] = p /\ pod'[g] = p
  BY DEF Keeps
<1>2. p \in Pods /\ p # None
  BY DaemonAssumption DEF TypeOK
<1>3. pod[f] = p /\ pod[g] = p
  BY <1>1, <1>2 DEF Frame
<1> QED
  BY <1>1, <1>2, <1>3 DEF RecordInv, AloneInv

LEMMA OwnHandler ==
  ASSUME TypeOK, TypeOK', RecordInv, NEW h \in Handlers, Act(h), Frame(h), Keeps
  PROVE  HandlerInv(h)'
<1>0. HandlerInv(h)
  BY DEF RecordInv
<1> USE <1>0, DaemonAssumption
    DEF TypeOK, Keeps, HandlerInv, HandlerPC, Store!StoreTypeOK, Store!NoWrite,
        poolVars, storeVars, handlerVars, kubeletVars
<1>1. CASE GetPodFails(h)
  BY <1>1 DEF GetPodFails, Answer
<1>2. CASE GetPodResource(h)
  BY <1>2 DEF GetPodResource, Goto
<1>3. CASE AllocatePort(h)
  BY <1>3 DEF AllocatePort, Goto, Pool!AcquireIdle, Pool!AcquireNew
<1>4. CASE AllocateFails(h)
  BY <1>4 DEF AllocateFails, Answer
<1>5. CASE PutRecord(h)
  BY <1>5 DEF PutRecord, Goto, Store!Put, Store!WriteDisk, Store!NoWrite
<1>6. CASE PutFails(h)
  BY <1>6 DEF PutFails, Answer, Store!UpdateFails, Store!storeVars
<1>7. CASE PutMemory(h)
  BY <1>7 DEF PutMemory, Goto, Store!WriteMemory, Store!NoWrite
<1>8. CASE AddReply(h)
  BY <1>8 DEF AddReply, Answer
<1>9. CASE AddReplyFails(h)
  BY <1>9 DEF AddReplyFails, Answer
<1>10. CASE ReleasePort(h)
  BY <1>10 DEF ReleasePort, Goto, AfterRelease, Pool!Release
<1>11. CASE ReleaseInvalid(h)
  BY <1>11 DEF ReleaseInvalid, Answer
<1>12. CASE DeleteRecord(h)
  BY <1>12 DEF DeleteRecord, Goto, Store!Delete, Store!WriteDisk, Store!NoWrite
<1>13. CASE DeleteFails(h)
  BY <1>13 DEF DeleteFails, Answer, Store!UpdateFails, Store!storeVars
<1>14. CASE DeleteMemory(h)
  BY <1>14 DEF DeleteMemory, Goto, Store!WriteMemory, Store!NoWrite
<1>15. CASE DelReply(h)
  BY <1>15 DEF DelReply, Answer
<1>16. CASE GiveUp(h)
  BY <1>16 DEF GiveUp
<1> QED
  BY <1>1, <1>2, <1>3, <1>4, <1>5, <1>6, <1>7, <1>8,
     <1>9, <1>10, <1>11, <1>12, <1>13, <1>14, <1>15, <1>16 DEF Act

LEMMA OwnAlone ==
  ASSUME TypeOK, TypeOK', RecordInv, NEW h \in Handlers, Act(h), Frame(h), Keeps
  PROVE  AloneInv(h)'
<1>0. HandlerInv(h) /\ AloneInv(h) /\ crossed' = crossed
  BY NoneCrosses DEF RecordInv
<1> USE <1>0, DaemonAssumption
    DEF TypeOK, Keeps, Frame, HandlerInv, HandlerPC, AloneInv, Leftover, Outlives,
        Store!StoreTypeOK, poolVars, storeVars, handlerVars, kubeletVars
<1>1. CASE GetPodFails(h)
  BY <1>1 DEF GetPodFails, Answer
<1>2. CASE GetPodResource(h)
  BY <1>2 DEF GetPodResource, Goto
<1>3. CASE AllocatePort(h)
  BY <1>3 DEF AllocatePort, Goto, Pool!AcquireIdle, Pool!AcquireNew
<1>4. CASE AllocateFails(h)
  BY <1>4 DEF AllocateFails, Answer
<1>5. CASE PutRecord(h)
  BY <1>5 DEF PutRecord, Goto, Store!Put, Store!WriteDisk, Store!NoWrite
<1>6. CASE PutFails(h)
  BY <1>6 DEF PutFails, Answer, Store!UpdateFails, Store!storeVars
<1>7. CASE PutMemory(h)
  BY <1>7 DEF PutMemory, Goto, Store!WriteMemory, Store!NoWrite
<1>8. CASE AddReply(h)
  BY <1>8 DEF AddReply, Answer
<1>9. CASE AddReplyFails(h)
  BY <1>9 DEF AddReplyFails, Answer
<1>10. CASE ReleasePort(h)
  BY <1>10 DEF ReleasePort, Goto, AfterRelease, Pool!Release
<1>11. CASE ReleaseInvalid(h)
  BY <1>11 DEF ReleaseInvalid, Answer
<1>12. CASE DeleteRecord(h)
  BY <1>12 DEF DeleteRecord, Goto, Store!Delete, Store!WriteDisk, Store!NoWrite
<1>13. CASE DeleteFails(h)
  BY <1>13 DEF DeleteFails, Answer, Store!UpdateFails, Store!storeVars
<1>14. CASE DeleteMemory(h)
  BY <1>14 DEF DeleteMemory, Goto, Store!WriteMemory, Store!NoWrite
<1>15. CASE DelReply(h)
  BY <1>15 DEF DelReply, Answer
<1>16. CASE GiveUp(h)
  BY <1>16 DEF GiveUp
<1> QED
  BY <1>1, <1>2, <1>3, <1>4, <1>5, <1>6, <1>7, <1>8,
     <1>9, <1>10, <1>11, <1>12, <1>13, <1>14, <1>15, <1>16 DEF Act

LEMMA OwnQuiet ==
  ASSUME TypeOK, TypeOK', RecordInv, NEW h \in Handlers, Act(h), Frame(h), Keeps,
         NEW p \in Pods, pod[h] = p
  PROVE  QuietInv(p)'
<1>0. HandlerInv(h) /\ AloneInv(h) /\ crossed' = crossed
  BY NoneCrosses DEF RecordInv
<1> USE <1>0, DaemonAssumption
    DEF TypeOK, Keeps, Frame, HandlerInv, HandlerPC, AloneInv, QuietInv, Free, Leftover,
        Outlives, Store!StoreTypeOK, poolVars, storeVars, handlerVars, kubeletVars
<1>1. CASE GetPodFails(h)
  BY <1>1 DEF GetPodFails, Answer
<1>2. CASE GetPodResource(h)
  BY <1>2 DEF GetPodResource, Goto
<1>3. CASE AllocatePort(h)
  BY <1>3 DEF AllocatePort, Goto, Pool!AcquireIdle, Pool!AcquireNew
<1>4. CASE AllocateFails(h)
  BY <1>4 DEF AllocateFails, Answer
<1>5. CASE PutRecord(h)
  BY <1>5 DEF PutRecord, Goto, Store!Put, Store!WriteDisk, Store!NoWrite
<1>6. CASE PutFails(h)
  BY <1>6 DEF PutFails, Answer, Store!UpdateFails, Store!storeVars
<1>7. CASE PutMemory(h)
  BY <1>7 DEF PutMemory, Goto, Store!WriteMemory, Store!NoWrite
<1>8. CASE AddReply(h)
  BY <1>8 DEF AddReply, Answer
<1>9. CASE AddReplyFails(h)
  BY <1>9 DEF AddReplyFails, Answer
<1>10. CASE ReleasePort(h)
  BY <1>10 DEF ReleasePort, Goto, AfterRelease, Pool!Release
<1>11. CASE ReleaseInvalid(h)
  BY <1>11 DEF ReleaseInvalid, Answer
<1>12. CASE DeleteRecord(h)
  BY <1>12 DEF DeleteRecord, Goto, Store!Delete, Store!WriteDisk, Store!NoWrite
<1>13. CASE DeleteFails(h)
  BY <1>13 DEF DeleteFails, Answer, Store!UpdateFails, Store!storeVars
<1>14. CASE DeleteMemory(h)
  BY <1>14 DEF DeleteMemory, Goto, Store!WriteMemory, Store!NoWrite
<1>15. CASE DelReply(h)
  BY <1>15 DEF DelReply, Answer
<1>16. CASE GiveUp(h)
  BY <1>16 DEF GiveUp
<1> QED
  BY <1>1, <1>2, <1>3, <1>4, <1>5, <1>6, <1>7, <1>8,
     <1>9, <1>10, <1>11, <1>12, <1>13, <1>14, <1>15, <1>16 DEF Act

LEMMA CrossedHolds ==
  ASSUME TypeOK, TypeOK', RecordInv, NEW h \in Handlers, Act(h), Frame(h), Keeps
  PROVE  \A p \in crossed' : holds'[p] \in stale' \cup {None}
<1>0. CrossedInv /\ crossed' = crossed
  BY NoneCrosses DEF RecordInv
<1> USE <1>0
    DEF TypeOK, Keeps, CrossedInv, poolVars, storeVars, handlerVars, kubeletVars
<1>1. CASE GetPodFails(h)
  BY <1>1 DEF GetPodFails, Answer
<1>2. CASE GetPodResource(h)
  BY <1>2 DEF GetPodResource, Goto
<1>3. CASE AllocatePort(h)
  BY <1>3 DEF AllocatePort, Goto, Pool!AcquireIdle, Pool!AcquireNew
<1>4. CASE AllocateFails(h)
  BY <1>4 DEF AllocateFails, Answer
<1>5. CASE PutRecord(h)
  BY <1>5 DEF PutRecord, Goto, Store!Put, Store!WriteDisk, Store!NoWrite
<1>6. CASE PutFails(h)
  BY <1>6 DEF PutFails, Answer, Store!UpdateFails, Store!storeVars
<1>7. CASE PutMemory(h)
  BY <1>7 DEF PutMemory, Goto, Store!WriteMemory, Store!NoWrite
<1>8. CASE AddReply(h)
  BY <1>8 DEF AddReply, Answer
<1>9. CASE AddReplyFails(h)
  BY <1>9 DEF AddReplyFails, Answer
<1>10. CASE ReleasePort(h)
  BY <1>10 DEF ReleasePort, Goto, AfterRelease, Pool!Release
<1>11. CASE ReleaseInvalid(h)
  BY <1>11 DEF ReleaseInvalid, Answer
<1>12. CASE DeleteRecord(h)
  BY <1>12 DEF DeleteRecord, Goto, Store!Delete, Store!WriteDisk, Store!NoWrite
<1>13. CASE DeleteFails(h)
  BY <1>13 DEF DeleteFails, Answer, Store!UpdateFails, Store!storeVars
<1>14. CASE DeleteMemory(h)
  BY <1>14 DEF DeleteMemory, Goto, Store!WriteMemory, Store!NoWrite
<1>15. CASE DelReply(h)
  BY <1>15 DEF DelReply, Answer
<1>16. CASE GiveUp(h)
  BY <1>16 DEF GiveUp
<1> QED
  BY <1>1, <1>2, <1>3, <1>4, <1>5, <1>6, <1>7, <1>8,
     <1>9, <1>10, <1>11, <1>12, <1>13, <1>14, <1>15, <1>16 DEF Act
\* The other handlers and pods do not notice.
LEMMA OthersRecord ==
  ASSUME TypeOK, TypeOK', RecordInv, NEW h \in Handlers, Frame(h), Keeps
  PROVE  /\ \A g \in Handlers \ {h} : HandlerInv(g)' /\ AloneInv(g)'
         /\ \A q \in Pods \ {pod[h]} : QuietInv(q)'
<1>0. crossed' = crossed
  BY NoneCrosses
<1>1. ASSUME NEW g \in Handlers \ {h}
      PROVE  HandlerInv(g)' /\ AloneInv(g)'
  <2>1. HandlerInv(g) /\ AloneInv(g) /\ AloneInv(h)
    BY DEF RecordInv
  <2>2. HandlerInv(g)'
    BY <2>1 DEF Frame, Keeps, HandlerInv, Store!NoWrite
  <2>3. ASSUME pod'[g] \in Pods \ crossed'
        PROVE  pod[g] \in Pods \ {pod[h]}
    BY <1>0, <2>1, <2>3 DEF Frame, AloneInv
  <2>4. AloneInv(g)'
    BY <1>0, <2>1, <2>3 DEF Frame, Keeps, AloneInv, Leftover
  <2> QED
    BY <2>2, <2>4
<1>2. ASSUME NEW q \in Pods \ {pod[h]}
      PROVE  QuietInv(q)'
  <2>1. QuietInv(q) /\ (Free(q)' => Free(q))
    BY DEF RecordInv, Free, Frame
  <2> QED
    BY <1>0, <2>1 DEF Frame, Keeps, QuietInv, Leftover
<1> QED
  BY <1>1, <1>2

LEMMA ActRecord ==
  ASSUME TypeOK, TypeOK', RecordInv, NEW h \in Handlers, Act(h), Frame(h), Keeps
  PROVE  RecordInv'
<1>1. \A g \in Handlers : HandlerInv(g)' /\ AloneInv(g)'
  BY OwnHandler, OwnAlone, OthersRecord
<1>2. \A q \in Pods : QuietInv(q)'
  BY OwnQuiet, OthersRecord DEF Frame
<1>3. CrossedInv'
  BY CrossedHolds DEF Keeps, CrossedInv
<1> QED
  BY <1>1, <1>2, <1>3 DEF RecordInv
-----------------------------------------------------------------------------
(* The records, under a request, the pool and a restart *)

LEMMA CmdType ==
  ASSUME TypeOK, idle \cap inuse = {}, NEW h \in Handlers, NEW p \in Pods, Cmd(h, p)
  PROVE  StepType
  BY DEF TypeOK, StepType, Cmd, CmdAdd, CmdDel, Call, HandlerPC, Store!StoreTypeOK,
         poolVars, storeVars

\* What a request changes.
CmdEffect(h, p) ==
  /\ pc[h] = "free" /\ pod[h] = None /\ pod'[h] = p
  /\ pc'[h] \in {"add", "del"} /\ (pc'[h] = "add" => life[p] = "down")
  /\ UNCHANGED <<port, memory, disk, todo, inuse>>
  /\ \A g \in Handlers \ {h} : pc'[g] = pc[g] /\ pod'[g] = pod[g]
  /\ \A q \in Pods \ {p} : life'[q] = life[q] /\ holds'[q] = holds[q]
  /\ life'[p] = "busy" /\ holds'[p] \in {None, holds[p]}
  /\ holds'[p] = holds[p] => life[p] = "down" \/ holds[p] = None

LEMMA CmdDoes ==
  ASSUME TypeOK, RecordInv, NEW h \in Handlers, NEW p \in Pods, Cmd(h, p)
  PROVE  CmdEffect(h, p)
<1>1. HandlerInv(h)
  BY DEF RecordInv
<1> USE <1>1 DEF Call, TypeOK, HandlerInv, CmdEffect, storeVars, poolVars
<1>2. CASE CmdAdd(h, p)
  BY <1>2 DEF CmdAdd
<1>3. CASE CmdDel(h, p)
  BY <1>3 DEF CmdDel
<1> QED
  BY <1>2, <1>3 DEF Cmd

LEMMA CmdRecord ==
  ASSUME TypeOK, TypeOK', RecordInv, NEW h \in Handlers, NEW p \in Pods, Cmd(h, p), Keeps
  PROVE  RecordInv'
<1>0. CmdEffect(h, p)
  BY CmdDoes
<1> USE DaemonAssumption, <1>0 DEF CmdEffect
<1>1. \A q \in Pods \ {p} : q \in crossed' => q \in crossed
  BY DEF Keeps, RecordInv, AloneInv
<1>2. p \notin crossed' => Free(p) /\ QuietInv(p)
  BY DEF Keeps, RecordInv, Free
<1>3. ASSUME NEW g \in Handlers
      PROVE  HandlerInv(g)'
  <2>1. HandlerInv(g)
    BY DEF RecordInv
  <2> QED
    BY <2>1 DEF Keeps, HandlerInv, Store!NoWrite
<1>4. AloneInv(h)'
  BY <1>2 DEF Keeps, AloneInv, QuietInv, Leftover
<1>5. ASSUME NEW g \in Handlers \ {h}
      PROVE  AloneInv(g)'
  <2>1. AloneInv(g)
    BY DEF RecordInv
  <2>2. pod'[g] \in Pods \ crossed' => pod[g] \in Pods \ (crossed \cup {p})
    BY DEF Keeps
  <2> QED
    BY <2>1, <2>2 DEF Keeps, AloneInv, Leftover
<1>6. ASSUME NEW q \in Pods
      PROVE  QuietInv(q)'
  <2>1. QuietInv(q) /\ (Free(q)' => Free(q) /\ q # p)
    BY DEF RecordInv, Free
  <2> QED
    BY <2>1 DEF Keeps, QuietInv, Leftover
<1>7. CrossedInv'
  <2>1. ASSUME NEW q \in crossed'
        PROVE  holds'[q] \in stale' \cup {None}
    <3>1. CASE q \in crossed
      BY <3>1 DEF TypeOK, Keeps, RecordInv, CrossedInv
    <3>2. CASE q \notin crossed
      <4>1. q = p
        BY <1>1, <3>2 DEF TypeOK
      <4>2. PICK g \in Handlers : pod[g] = p
        BY <3>2, <4>1 DEF Keeps
      <4> QED
        BY <3>2, <4>1, <4>2 DEF RecordInv, AloneInv
    <3> QED
      BY <3>1, <3>2
  <2> QED
    BY <2>1 DEF Keeps, CrossedInv
<1> QED
  BY <1>3, <1>4, <1>5, <1>6, <1>7 DEF RecordInv

\* A step that moves no handler.
LEMMA StillRecord ==
  ASSUME TypeOK', RecordInv, Keeps,
         UNCHANGED <<disk, memory, todo, pc, pod, port, life, holds>>
  PROVE  RecordInv' /\ crossed' = crossed
<1>1. crossed' = crossed
  <2> SUFFICES ASSUME NEW p \in crossed', p \notin crossed PROVE FALSE
    BY DEF Keeps
  <2> QED
    BY DEF Keeps, TypeOK, RecordInv, AloneInv
<1>2. ASSUME NEW h \in Handlers
      PROVE  HandlerInv(h)' /\ AloneInv(h)'
  <2>1. HandlerInv(h) /\ AloneInv(h)
    BY DEF RecordInv
  <2>2. HandlerInv(h)'
    BY <2>1 DEF Keeps, HandlerInv, Store!NoWrite
  <2>3. AloneInv(h)'
    BY <1>1, <2>1 DEF Keeps, AloneInv, Leftover
  <2> QED
    BY <2>2, <2>3
<1>3. ASSUME NEW p \in Pods
      PROVE  QuietInv(p)'
  <2>1. QuietInv(p)
    BY DEF RecordInv
  <2> QED
    BY <1>1, <2>1 DEF Keeps, QuietInv, Free, Leftover
<1>4. CrossedInv'
  BY <1>1 DEF Keeps, RecordInv, CrossedInv
<1> QED
  BY <1>1, <1>2, <1>3, <1>4 DEF RecordInv

LEMMA PoolType ==
  ASSUME TypeOK, idle \cap inuse = {}, PoolMoves
  PROVE  StepType /\ inuse' = inuse
<1> PICK r \in Res : Pool!Create(r) \/ Pool!AddIdle(r) \/ Pool!TakeOut(r) \/ Pool!Delete(r)
  BY DEF PoolMoves
<1> QED
  BY DEF TypeOK, StepType, PoolMoves, Pool!Create, Pool!AddIdle, Pool!TakeOut, Pool!Delete,
         Store!StoreTypeOK, storeVars, handlerVars, kubeletVars

\* A restart throws the handlers away and reads the memory from the disk.
LEMMA RestartType ==
  ASSUME TypeOK, Restart, RestartHistory
  PROVE  TypeOK' /\ idle' \cap inuse' = {}
<1>1. PICK found \in SUBSET ports : /\ inuse' = found \cap {disk[p] : p \in Pods}
                                    /\ idle' = found \ {disk[p] : p \in Pods}
  BY DEF Restart, PoolStarts
<1>2. stale' \subseteq Res
  <2>1. \A g \in Handlers : port[g] \in Res \cup {None}
    BY DEF TypeOK
  <2>2. \A p \in Pods : disk[p] \in Res \cup {None}
    BY DEF TypeOK, Store!StoreTypeOK
  <2> QED
    BY <2>1, <2>2 DEF RestartHistory, TypeOK
<1> QED
  BY <1>1, <1>2
     DEF TypeOK, Restart, RestartHistory, PoolStarts, HandlerPC, Store!Restart, Store!StoreTypeOK

LEMMA RestartRecord ==
  ASSUME TypeOK, RecordInv, Restart, RestartHistory
  PROVE  RecordInv'
<1>0. /\ memory' = disk /\ disk' = disk /\ holds' = holds
      /\ crossed' = crossed /\ sticky' = sticky /\ stale \subseteq stale'
      /\ \A h \in Handlers : pc'[h] = "free" /\ pod'[h] = None /\ port'[h] = None
                             /\ todo'[h] = Store!NoWrite
      /\ \A p \in Pods : life'[p] = IF life[p] = "busy" THEN "broken" ELSE life[p]
  BY DEF Restart, RestartHistory, Store!Restart
<1> USE <1>0, DaemonAssumption
<1>1. ASSUME NEW h \in Handlers
      PROVE  HandlerInv(h)' /\ AloneInv(h)'
  BY DEF HandlerInv, AloneInv, Store!NoWrite
<1>2. ASSUME NEW p \in Pods
      PROVE  QuietInv(p)'
  <2>1. QuietInv(p) /\ \A h \in Handlers : AloneInv(h)
    BY DEF RecordInv
  <2>2. CASE Free(p)
    BY <2>1, <2>2 DEF QuietInv, Leftover
  <2>3. CASE ~Free(p)
    <3>1. PICK h \in Handlers : pod[h] = p
      BY <2>3 DEF Free
    <3> QED
      BY <2>1, <3>1 DEF QuietInv, AloneInv
  <2> QED
    BY <2>2, <2>3
<1>3. CrossedInv'
  BY DEF TypeOK, RecordInv, CrossedInv
<1> QED
  BY <1>1, <1>2, <1>3 DEF RecordInv
-----------------------------------------------------------------------------
(* Every port that is not stale has one owner *)

\* A pod with one handler has what the handler is about to give to it, or what
\* its record names.
LEMMA HasAlone ==
  ASSUME NEW h \in Handlers, NEW p, NEW r, p \notin crossed,
         pod[h] = p, \A g \in Handlers : pod[g] = p => g = h
  PROVE  Has(p, r) <=> \/ memory[p] = r /\ pc[h] \notin {"delete", "deleteMemory"}
                       \/ port[h] = r /\ pc[h] \in {"put", "putMemory", "addReply"}
  BY DEF Has, Recorded, Given

LEMMA HasAloneNext ==
  ASSUME NEW h \in Handlers, NEW p, NEW r, p \notin crossed',
         pod'[h] = p, \A g \in Handlers : pod'[g] = p => g = h
  PROVE  Has(p, r)' <=> \/ memory'[p] = r /\ pc'[h] \notin {"delete", "deleteMemory"}
                        \/ port'[h] = r /\ pc'[h] \in {"put", "putMemory", "addReply"}
  BY DEF Has, Recorded, Given

\* What a step of a handler adds to what its pod has is a port that was not in
\* use, and what it takes out of use is the port that it gives back.
LEMMA OwnHas ==
  ASSUME TypeOK, TypeOK', idle \cap inuse = {}, RecordInv, NEW h \in Handlers, Act(h),
         Frame(h), Keeps, NEW p \in Pods \ crossed, pod[h] = p, NEW r \in Res \ stale'
  PROVE  /\ Has(p, r)' /\ ~Has(p, r) => r \in inuse' \ inuse
         /\ r \in inuse \ inuse' => Has(p, r) /\ ~Has(p, r)'
<1>0. HandlerInv(h) /\ AloneInv(h) /\ crossed' = crossed
  BY NoneCrosses DEF RecordInv
<1>a. Has(p, r) <=> \/ memory[p] = r /\ pc[h] \notin {"delete", "deleteMemory"}
                    \/ port[h] = r /\ pc[h] \in {"put", "putMemory", "addReply"}
  BY <1>0, HasAlone DEF AloneInv
<1>b. pod'[h] = p =>
        (Has(p, r)' <=> \/ memory'[p] = r /\ pc'[h] \notin {"delete", "deleteMemory"}
                        \/ port'[h] = r /\ pc'[h] \in {"put", "putMemory", "addReply"})
  <2>1. \A g \in Handlers : pod'[h] = p /\ pod'[g] = p => g = h
    BY <1>0 DEF Keeps
  <2> QED
    BY <1>0, <2>1, HasAloneNext
<1>c. pod'[h] # p => (Has(p, r)' <=> memory'[p] = r)
  <2>1. pod'[h] # p => \A g \in Handlers : pod'[g] # p
    BY <1>0 DEF Frame, AloneInv
  <2> QED
    BY <1>0, <2>1 DEF Has, Recorded, Given
<1> USE <1>0, <1>a, <1>b, <1>c, DaemonAssumption
    DEF TypeOK, Keeps, HandlerInv, HandlerPC, AloneInv, Leftover, Outlives,
        Store!StoreTypeOK, poolVars, storeVars, handlerVars, kubeletVars
<1>1. CASE GetPodFails(h)
  BY <1>1 DEF GetPodFails, Answer
<1>2. CASE GetPodResource(h)
  BY <1>2 DEF GetPodResource, Goto
<1>3. CASE AllocatePort(h)
  BY <1>3 DEF AllocatePort, Goto, Pool!AcquireIdle, Pool!AcquireNew
<1>4. CASE AllocateFails(h)
  BY <1>4 DEF AllocateFails, Answer
<1>5. CASE PutRecord(h)
  BY <1>5 DEF PutRecord, Goto, Store!Put, Store!WriteDisk, Store!NoWrite
<1>6. CASE PutFails(h)
  BY <1>6 DEF PutFails, Answer, Store!UpdateFails, Store!storeVars
<1>7. CASE PutMemory(h)
  BY <1>7 DEF PutMemory, Goto, Store!WriteMemory, Store!NoWrite
<1>8. CASE AddReply(h)
  BY <1>8 DEF AddReply, Answer
<1>9. CASE AddReplyFails(h)
  BY <1>9 DEF AddReplyFails, Answer
<1>10. CASE ReleasePort(h)
  BY <1>10 DEF ReleasePort, Goto, AfterRelease, Pool!Release
<1>11. CASE ReleaseInvalid(h)
  BY <1>11 DEF ReleaseInvalid, Answer
<1>12. CASE DeleteRecord(h)
  BY <1>12 DEF DeleteRecord, Goto, Store!Delete, Store!WriteDisk, Store!NoWrite
<1>13. CASE DeleteFails(h)
  BY <1>13 DEF DeleteFails, Answer, Store!UpdateFails, Store!storeVars
<1>14. CASE DeleteMemory(h)
  BY <1>14 DEF DeleteMemory, Goto, Store!WriteMemory, Store!NoWrite
<1>15. CASE DelReply(h)
  BY <1>15 DEF DelReply, Answer
<1>16. CASE GiveUp(h)
  BY <1>16 DEF GiveUp
<1> QED
  BY <1>1, <1>2, <1>3, <1>4, <1>5, <1>6, <1>7, <1>8,
     <1>9, <1>10, <1>11, <1>12, <1>13, <1>14, <1>15, <1>16 DEF Act

\* Nothing changes for the other pods.
LEMMA OthersHas ==
  ASSUME NEW h \in Handlers, Frame(h), crossed' = crossed,
         NEW q \in Pods \ {pod[h]}, NEW r
  PROVE  Has(q, r)' <=> Has(q, r)
<1>1. memory'[q] = memory[q] /\ pod'[h] # q
  BY DaemonAssumption DEF Frame
<1>2. Recorded(q, r)' <=> Recorded(q, r)
  BY <1>1 DEF Frame, Recorded
<1>3. Given(q, r)' <=> Given(q, r)
  BY <1>1 DEF Frame, Given
<1> QED
  BY <1>2, <1>3 DEF Has

\* What a pod that had two requests at a time has is stale.
LEMMA CrossedHas ==
  ASSUME TypeOK, CrossedInv, NEW p \in crossed, NEW r \in Res, Has(p, r)
  PROVE  r \in stale
  BY DaemonAssumption DEF TypeOK, CrossedInv, Has, Recorded, Given

LEMMA CrossedHasNext ==
  ASSUME TypeOK', CrossedInv', NEW p \in crossed', NEW r \in Res, Has(p, r)'
  PROVE  r \in stale'
  BY DaemonAssumption DEF TypeOK, CrossedInv, Has, Recorded, Given

\* Taking a port out of use takes it from its owner: for a crossed pod it is
\* stale anyway.
LEMMA CrossedRelease ==
  ASSUME TypeOK, TypeOK', RecordInv, NEW h \in Handlers, Act(h), Keeps,
         pod[h] \in crossed, NEW r \in inuse, r \notin inuse'
  PROVE  r \in stale
<1>0. port[h] \in stale \cup {None}
  BY DEF RecordInv, CrossedInv
<1> USE <1>0, DaemonAssumption DEF TypeOK, poolVars
<1>1. CASE GetPodFails(h)
  BY <1>1 DEF GetPodFails, Answer
<1>2. CASE GetPodResource(h)
  BY <1>2 DEF GetPodResource, Goto
<1>3. CASE AllocatePort(h)
  BY <1>3 DEF AllocatePort, Goto, Pool!AcquireIdle, Pool!AcquireNew
<1>4. CASE AllocateFails(h)
  BY <1>4 DEF AllocateFails, Answer
<1>5. CASE PutRecord(h)
  BY <1>5 DEF PutRecord, Goto, Store!Put, Store!WriteDisk, Store!NoWrite
<1>6. CASE PutFails(h)
  BY <1>6 DEF PutFails, Answer, Store!UpdateFails, Store!storeVars
<1>7. CASE PutMemory(h)
  BY <1>7 DEF PutMemory, Goto, Store!WriteMemory, Store!NoWrite
<1>8. CASE AddReply(h)
  BY <1>8 DEF AddReply, Answer
<1>9. CASE AddReplyFails(h)
  BY <1>9 DEF AddReplyFails, Answer
<1>10. CASE ReleasePort(h)
  BY <1>10 DEF ReleasePort, Goto, AfterRelease, Pool!Release
<1>11. CASE ReleaseInvalid(h)
  BY <1>11 DEF ReleaseInvalid, Answer
<1>12. CASE DeleteRecord(h)
  BY <1>12 DEF DeleteRecord, Goto, Store!Delete, Store!WriteDisk, Store!NoWrite
<1>13. CASE DeleteFails(h)
  BY <1>13 DEF DeleteFails, Answer, Store!UpdateFails, Store!storeVars
<1>14. CASE DeleteMemory(h)
  BY <1>14 DEF DeleteMemory, Goto, Store!WriteMemory, Store!NoWrite
<1>15. CASE DelReply(h)
  BY <1>15 DEF DelReply, Answer
<1>16. CASE GiveUp(h)
  BY <1>16 DEF GiveUp
<1> QED
  BY <1>1, <1>2, <1>3, <1>4, <1>5, <1>6, <1>7, <1>8,
     <1>9, <1>10, <1>11, <1>12, <1>13, <1>14, <1>15, <1>16 DEF Act

\* Only AllocatePort takes ports into use.
LEMMA TakenAlone ==
  ASSUME TypeOK, idle \cap inuse = {}, NEW h \in Handlers, Act(h), NEW r \in inuse' \ inuse
  PROVE  pc'[h] = "put" /\ port'[h] = r /\ pod'[h] = pod[h]
<1> USE DEF TypeOK, poolVars
<1>1. CASE GetPodFails(h)
  BY <1>1 DEF GetPodFails, Answer
<1>2. CASE GetPodResource(h)
  BY <1>2 DEF GetPodResource, Goto
<1>3. CASE AllocatePort(h)
  BY <1>3 DEF AllocatePort, Goto, Pool!AcquireIdle, Pool!AcquireNew
<1>4. CASE AllocateFails(h)
  BY <1>4 DEF AllocateFails, Answer
<1>5. CASE PutRecord(h)
  BY <1>5 DEF PutRecord, Goto, Store!Put, Store!WriteDisk, Store!NoWrite
<1>6. CASE PutFails(h)
  BY <1>6 DEF PutFails, Answer, Store!UpdateFails, Store!storeVars
<1>7. CASE PutMemory(h)
  BY <1>7 DEF PutMemory, Goto, Store!WriteMemory, Store!NoWrite
<1>8. CASE AddReply(h)
  BY <1>8 DEF AddReply, Answer
<1>9. CASE AddReplyFails(h)
  BY <1>9 DEF AddReplyFails, Answer
<1>10. CASE ReleasePort(h)
  BY <1>10 DEF ReleasePort, Goto, AfterRelease, Pool!Release
<1>11. CASE ReleaseInvalid(h)
  BY <1>11 DEF ReleaseInvalid, Answer
<1>12. CASE DeleteRecord(h)
  BY <1>12 DEF DeleteRecord, Goto, Store!Delete, Store!WriteDisk, Store!NoWrite
<1>13. CASE DeleteFails(h)
  BY <1>13 DEF DeleteFails, Answer, Store!UpdateFails, Store!storeVars
<1>14. CASE DeleteMemory(h)
  BY <1>14 DEF DeleteMemory, Goto, Store!WriteMemory, Store!NoWrite
<1>15. CASE DelReply(h)
  BY <1>15 DEF DelReply, Answer
<1>16. CASE GiveUp(h)
  BY <1>16 DEF GiveUp
<1> QED
  BY <1>1, <1>2, <1>3, <1>4, <1>5, <1>6, <1>7, <1>8,
     <1>9, <1>10, <1>11, <1>12, <1>13, <1>14, <1>15, <1>16 DEF Act

LEMMA ActOwned ==
  ASSUME TypeOK, TypeOK', idle \cap inuse = {}, RecordInv, RecordInv', Owned,
         NEW h \in Handlers, Act(h), Frame(h), Keeps
  PROVE  Owned'
<1>0. crossed' = crossed /\ stale \subseteq stale' /\ pod[h] \in Pods
  BY NoneCrosses DEF Keeps, Frame
<1>1. ASSUME NEW p \in Pods, NEW r \in Res \ stale', Has(p, r)'
      PROVE  p \notin crossed /\ (Has(p, r) \/ (p = pod[h] /\ r \in inuse' \ inuse))
  <2>1. p \notin crossed
    BY <1>0, <1>1, CrossedHasNext DEF RecordInv
  <2>2. CASE p = pod[h]
    BY <1>1, <2>1, <2>2, OwnHas
  <2>3. CASE p # pod[h]
    BY <1>0, <1>1, <2>1, <2>3, OthersHas
  <2> QED
    BY <2>1, <2>2, <2>3
<1>2. ASSUME NEW p \in Pods, NEW r \in Res \ stale', Has(p, r)'
      PROVE  r \in inuse'
  <2>1. CASE Has(p, r) /\ r \notin inuse'
    <3>1. r \in inuse
      BY <1>0, <2>1 DEF Owned
    <3>2. CASE pod[h] \in crossed
      BY <1>0, <2>1, <3>1, <3>2, CrossedRelease
    <3>3. CASE pod[h] \notin crossed
      <4>1. Has(pod[h], r) /\ pod[h] # p
        BY <1>0, <1>2, <2>1, <3>1, <3>3, OwnHas
      <4> QED
        BY <1>0, <2>1, <4>1 DEF Owned
    <3> QED
      BY <3>2, <3>3
  <2> QED
    BY <1>1, <1>2, <2>1
<1>3. ASSUME NEW p \in Pods, NEW q \in Pods \ {p}, NEW r \in Res \ stale', Has(p, r)', Has(q, r)'
      PROVE  FALSE
  <2>1. Has(p, r) \/ (p = pod[h] /\ r \in inuse' \ inuse)
    BY <1>1, <1>3
  <2>2. Has(q, r) \/ (q = pod[h] /\ r \in inuse' \ inuse)
    BY <1>1, <1>3
  <2> QED
    BY <1>0, <1>3, <2>1, <2>2 DEF Owned
<1> QED
  BY <1>2, <1>3 DEF Owned
LEMMA OwnedShrinks ==
  ASSUME TypeOK, Owned, stale \subseteq stale', inuse' = inuse,
         \A p \in Pods, r \in Res \ stale' : Has(p, r)' => Has(p, r)
  PROVE  Owned'
<1>1. ASSUME NEW p \in Pods, NEW r \in Res \ stale', Has(p, r)'
      PROVE  r \in inuse' /\ \A q \in Pods \ {p} : ~Has(q, r)'
  BY <1>1 DEF Owned
<1> QED
  BY <1>1 DEF Owned

LEMMA CmdOwned ==
  ASSUME TypeOK, TypeOK', RecordInv, RecordInv', Owned,
         NEW h \in Handlers, NEW p \in Pods, Cmd(h, p), Keeps
  PROVE  Owned'
<1>0. CmdEffect(h, p)
  BY CmdDoes
<1> USE DEF CmdEffect
<1>1. ASSUME NEW q \in Pods, NEW r \in Res \ stale', Has(q, r)'
      PROVE  Has(q, r)
  <2>1. q \notin crossed'
    BY <1>1, CrossedHasNext DEF RecordInv
  <2>2. Recorded(q, r)' => Recorded(q, r)
    BY <1>0, <2>1, DaemonAssumption DEF Keeps, Recorded
  <2>3. Given(q, r)' => Given(q, r)
    BY <1>0 DEF Given
  <2> QED
    BY <1>1, <2>2, <2>3 DEF Has
<1> QED
  BY <1>0, <1>1, OwnedShrinks DEF Keeps

LEMMA RestartOwned ==
  ASSUME TypeOK, TypeOK', RecordInv, RecordInv', Owned, Restart, RestartHistory
  PROVE  Owned'
<1>0. /\ memory' = disk /\ stale \subseteq stale' /\ crossed' = crossed
      /\ \A h \in Handlers : pc'[h] = "free"
      /\ \A p \in Pods : disk[p] \in inuse' \cup stale' \cup {None}
      /\ \A h \in Handlers : pc[h] = "delete" => port[h] \in stale' \cup {None}
  BY DEF Restart, RestartHistory, Store!Restart
<1>1. \A p \in Pods, r \in Res : Has(p, r)' => disk[p] = r
  BY <1>0 DEF Has, Recorded, Given
<1>2. ASSUME NEW p \in Pods, NEW r \in Res \ stale', disk[p] = r
      PROVE  Has(p, r)
  <2>0. r # None
    BY DaemonAssumption
  <2>1. p \notin crossed
    BY <1>0, <1>2, <2>0 DEF RecordInv, CrossedInv
  <2>2. CASE Free(p)
    <3>1. memory[p] = r
      BY <1>2, <2>1, <2>2 DEF RecordInv, QuietInv
    <3> QED
      BY <2>2, <3>1 DEF Has, Recorded, Free
  <2>3. CASE ~Free(p)
    <3>1. PICK h \in Handlers : pod[h] = p
      BY <2>3 DEF Free
    <3>2. HandlerInv(h) /\ AloneInv(h)
      BY DEF RecordInv
    <3>3. pc[h] # "delete" /\ pc[h] # "deleteMemory"
      BY <1>0, <1>2, <2>0, <2>1, <3>1, <3>2 DEF AloneInv
    <3> QED
      BY <1>2, <2>1, <3>1, <3>2, <3>3, HasAlone DEF AloneInv
  <2> QED
    BY <2>2, <2>3
<1>3. ASSUME NEW p \in Pods, NEW r \in Res \ stale', Has(p, r)'
      PROVE  r \in inuse' /\ \A q \in Pods \ {p} : ~Has(q, r)'
  <2>1. disk[p] = r /\ Has(p, r)
    BY <1>1, <1>2, <1>3
  <2>2. r \in inuse'
    BY <1>0, <2>1, DaemonAssumption
  <2>3. ASSUME NEW q \in Pods \ {p}, Has(q, r)'
        PROVE  FALSE
    <3>1. Has(q, r)
      BY <1>1, <1>2, <2>3
    <3> QED
      BY <1>0, <2>1, <3>1 DEF Owned
  <2> QED
    BY <2>2, <2>3
<1> QED
  BY <1>3 DEF Owned
-----------------------------------------------------------------------------
(* No port in use is forgotten *)

\* What the pod of a handler remembers, it still does, or the port was given
\* back, or it strays.
LEMMA OwnRemembered ==
  ASSUME TypeOK, TypeOK', RecordInv, NEW h \in Handlers, Act(h), Frame(h), Keeps,
         NEW p \in Pods, pod[h] = p, NEW r \in inuse' \ strays',
         PutFails(h) => port[h] # r,
         Recorded(p, r) \/ (pc[h] \in {"put", "putMemory"} /\ port[h] = r)
  PROVE  Remembered(r)'
<1>0. HandlerInv(h) /\ AloneInv(h) /\ crossed' = crossed /\ r # None
  BY NoneCrosses, DaemonAssumption DEF RecordInv, TypeOK
<1>a. SUFFICES \/ memory'[p] = r /\ (p \in crossed \/ pc'[h] \notin {"delete", "deleteMemory"})
               \/ pc'[h] \in {"put", "putMemory"} /\ port'[h] = r
  <2>1. ASSUME memory'[p] = r, p \in crossed \/ pc'[h] \notin {"delete", "deleteMemory"}
        PROVE  Recorded(p, r)'
    BY <1>0, <2>1 DEF Keeps, Recorded, Frame, AloneInv
  <2> QED
    BY <2>1 DEF Remembered
<1> USE <1>0
    DEF TypeOK, Keeps, HandlerInv, HandlerPC, AloneInv, Leftover, Recorded,
        Store!StoreTypeOK, poolVars, storeVars, handlerVars, kubeletVars
<1>1. CASE GetPodFails(h)
  BY <1>1 DEF GetPodFails, Answer
<1>2. CASE GetPodResource(h)
  BY <1>2 DEF GetPodResource, Goto
<1>3. CASE AllocatePort(h)
  BY <1>3 DEF AllocatePort, Goto, Pool!AcquireIdle, Pool!AcquireNew
<1>4. CASE AllocateFails(h)
  BY <1>4 DEF AllocateFails, Answer
<1>5. CASE PutRecord(h)
  BY <1>5 DEF PutRecord, Goto, Store!Put, Store!WriteDisk, Store!NoWrite
<1>6. CASE PutFails(h)
  BY <1>6 DEF PutFails, Answer, Store!UpdateFails, Store!storeVars
<1>7. CASE PutMemory(h)
  BY <1>7 DEF PutMemory, Goto, Store!WriteMemory, Store!NoWrite
<1>8. CASE AddReply(h)
  BY <1>8 DEF AddReply, Answer
<1>9. CASE AddReplyFails(h)
  BY <1>9 DEF AddReplyFails, Answer
<1>10. CASE ReleasePort(h)
  BY <1>10 DEF ReleasePort, Goto, AfterRelease, Pool!Release
<1>11. CASE ReleaseInvalid(h)
  BY <1>11 DEF ReleaseInvalid, Answer
<1>12. CASE DeleteRecord(h)
  BY <1>12 DEF DeleteRecord, Goto, Store!Delete, Store!WriteDisk, Store!NoWrite
<1>13. CASE DeleteFails(h)
  BY <1>13 DEF DeleteFails, Answer, Store!UpdateFails, Store!storeVars
<1>14. CASE DeleteMemory(h)
  BY <1>14 DEF DeleteMemory, Goto, Store!WriteMemory, Store!NoWrite
<1>15. CASE DelReply(h)
  BY <1>15 DEF DelReply, Answer
<1>16. CASE GiveUp(h)
  BY <1>16 DEF GiveUp
<1> QED
  BY <1>1, <1>2, <1>3, <1>4, <1>5, <1>6, <1>7, <1>8,
     <1>9, <1>10, <1>11, <1>12, <1>13, <1>14, <1>15, <1>16 DEF Act

LEMMA ActRemembered ==
  ASSUME TypeOK, TypeOK', idle \cap inuse = {}, RecordInv, NEW h \in Handlers, Act(h),
         Frame(h), Keeps, PutFails(h) => {port[h]} \cap inuse' \subseteq strays',
         \A r \in inuse \ strays : Remembered(r)
  PROVE  \A r \in inuse' \ strays' : Remembered(r)'
<1> SUFFICES ASSUME NEW r \in inuse' \ strays' PROVE Remembered(r)'
  OBVIOUS
<1>0. crossed' = crossed /\ pod[h] \in Pods
  BY NoneCrosses DEF Frame
<1>1. CASE r \notin inuse
  BY <1>1, TakenAlone DEF Remembered
<1>2. CASE r \in inuse
  <2>1. Remembered(r) /\ (PutFails(h) => port[h] # r)
    BY <1>2 DEF Keeps
  <2>2. CASE Recorded(pod[h], r) \/ (pc[h] \in {"put", "putMemory"} /\ port[h] = r)
    BY <1>0, <2>1, <2>2, OwnRemembered
  <2>3. CASE \E q \in Pods \ {pod[h]} : Recorded(q, r)
    <3>1. PICK q \in Pods \ {pod[h]} : Recorded(q, r)
      BY <2>3
    <3>2. Recorded(q, r)'
      BY <1>0, <3>1, DaemonAssumption DEF Recorded, Frame
    <3> QED
      BY <3>2 DEF Remembered
  <2>4. CASE \E g \in Handlers \ {h} : pc[g] \in {"put", "putMemory"} /\ port[g] = r
    BY <2>4 DEF Remembered, Frame
  <2> QED
    BY <2>1, <2>2, <2>3, <2>4 DEF Remembered
<1> QED
  BY <1>1, <1>2

LEMMA CmdRemembered ==
  ASSUME TypeOK, RecordInv, NEW h \in Handlers, NEW p \in Pods, Cmd(h, p), Keeps,
         \A r \in inuse \ strays : Remembered(r)
  PROVE  \A r \in inuse' \ strays' : Remembered(r)'
<1>0. CmdEffect(h, p)
  BY CmdDoes
<1> USE DEF CmdEffect
<1>1. ASSUME NEW r, NEW q \in Pods, Recorded(q, r)
      PROVE  Recorded(q, r)'
  BY <1>0, <1>1 DEF Keeps, Recorded
<1>2. ASSUME NEW r \in inuse' \ strays'
      PROVE  Remembered(r)'
  <2>1. Remembered(r)
    BY <1>0, <1>2 DEF Keeps
  <2> QED
    BY <1>0, <1>1, <2>1 DEF Remembered
<1> QED
  BY <1>2

LEMMA RestartRemembered ==
  ASSUME Restart, RestartHistory
  PROVE  \A r \in inuse' \ strays' : Remembered(r)'
<1>1. memory' = disk /\ \A h \in Handlers : pc'[h] = "free"
  BY DEF Restart, Store!Restart
<1>2. inuse' \subseteq {disk[p] : p \in Pods}
  BY DEF Restart, PoolStarts
<1> QED
  BY <1>1, <1>2 DEF Remembered, Recorded
-----------------------------------------------------------------------------
(* The invariant and the theorems *)

LEMMA InvInit == Init => IInv
<1> SUFFICES ASSUME Init PROVE IInv
  OBVIOUS
<1> USE DaemonAssumption
<1>1. PICK s \in Scenarios : sticky = s.sticky /\ giveUps = s.giveUps
  BY DEF Init, ConvertPod
<1>2. /\ disk = [p \in Pods |-> None] /\ memory = disk /\ raced = {}
      /\ todo = [h \in Handlers |-> Store!NoWrite]
  BY DEF Init, Store!StoreInit
<1>3. TypeOK /\ idle \cap inuse = {}
  BY <1>1, <1>2 DEF Init, TypeOK, HandlerPC, Store!StoreTypeOK, Store!NoWrite
<1>4. RecordInv
  BY <1>2 DEF Init, RecordInv, HandlerInv, AloneInv, QuietInv, CrossedInv, Leftover
<1>5. Owned
  BY <1>2 DEF Init, Owned, Has, Recorded, Given
<1>6. \A r \in inuse \ strays : Remembered(r)
  BY DEF Init
<1> QED
  BY <1>3, <1>4, <1>5, <1>6 DEF IInv

LEMMA ActInv ==
  ASSUME IInv, NEW h \in Handlers, Act(h), NEW STATE more, History(more),
         PutFails(h) => port[h] \in more
  PROVE  IInv'
<1> USE DEF IInv
<1>1. Frame(h) /\ Keeps /\ StepType
  BY ActFrame, HistoryKeeps, ActType DEF RecordInv
<1>2. TypeOK' /\ idle' \cap inuse' = {}
  BY <1>1, HistoryType DEF StepType
<1>3. RecordInv'
  BY <1>1, <1>2, ActRecord
<1>4. Owned'
  BY <1>1, <1>2, <1>3, ActOwned
<1>5. PutFails(h) => {port[h]} \cap inuse' \subseteq strays'
  BY StrayPort
<1>6. \A r \in inuse' \ strays' : Remembered(r)'
  BY <1>1, <1>2, <1>5, ActRemembered
<1> QED
  BY <1>2, <1>3, <1>4, <1>6

LEMMA CmdInv ==
  ASSUME IInv, NEW h \in Handlers, NEW p \in Pods, Cmd(h, p), History({})
  PROVE  IInv'
<1> USE DEF IInv
<1>1. Keeps /\ StepType
  BY HistoryKeeps, CmdType
<1>2. TypeOK' /\ idle' \cap inuse' = {}
  BY <1>1, HistoryType DEF StepType
<1>3. RecordInv'
  BY <1>1, <1>2, CmdRecord
<1>4. Owned'
  BY <1>1, <1>2, <1>3, CmdOwned
<1>5. \A r \in inuse' \ strays' : Remembered(r)'
  BY <1>1, CmdRemembered
<1> QED
  BY <1>2, <1>3, <1>4, <1>5

LEMMA PoolInv ==
  ASSUME IInv, PoolMoves, History({})
  PROVE  IInv'
<1> USE DEF IInv
<1>1. Keeps /\ StepType /\ inuse' = inuse
  BY HistoryKeeps, PoolType
<1>2. TypeOK' /\ idle' \cap inuse' = {}
  BY <1>1, HistoryType DEF StepType
<1>3. UNCHANGED <<disk, memory, todo, pc, pod, port, life, holds>>
  BY DEF PoolMoves, storeVars, handlerVars, kubeletVars
<1>4. RecordInv' /\ crossed' = crossed
  BY <1>1, <1>2, <1>3, StillRecord
<1>5. \A p \in Pods, r \in Res : Has(p, r)' => Has(p, r)
  BY <1>3, <1>4 DEF Has, Recorded, Given
<1>6. Owned'
  BY <1>1, <1>5, OwnedShrinks DEF Keeps
<1>7. ASSUME NEW r \in inuse' \ strays'
      PROVE  Remembered(r)'
  <2>1. Remembered(r)
    BY <1>1 DEF Keeps
  <2> QED
    BY <1>3, <1>4, <2>1 DEF Remembered, Recorded
<1> QED
  BY <1>2, <1>4, <1>6, <1>7

LEMMA StutterInv ==
  ASSUME IInv, UNCHANGED vars
  PROVE  IInv'
<1> USE DEF IInv, vars, poolVars, storeVars, handlerVars, kubeletVars
<1>1. TypeOK' /\ idle' \cap inuse' = {}
  BY DEF TypeOK, Store!StoreTypeOK
<1>2. RecordInv'
  BY DEF RecordInv, HandlerInv, AloneInv, QuietInv, CrossedInv, Leftover, Free, Store!NoWrite
<1>3. Owned'
  BY DEF Owned, Has, Recorded, Given
<1>4. \A r \in inuse' \ strays' : Remembered(r)'
  BY DEF Remembered, Recorded
<1> QED
  BY <1>1, <1>2, <1>3, <1>4

LEMMA Inductive == IInv /\ [Next]_vars => IInv'
<1> SUFFICES ASSUME IInv, [Next]_vars PROVE IInv'
  OBVIOUS
<1>1. ASSUME NEW h \in Handlers, NEW p \in Pods, CmdAdd(h, p) \/ CmdDel(h, p), History({})
      PROVE  IInv'
  BY <1>1, CmdInv DEF Cmd
<1>2. ASSUME NEW h \in Handlers, Handle(h), History({})
      PROVE  IInv'
  <2>1. Act(h) /\ ~PutFails(h)
    <3>1. pc'[h] = "free" /\ pc[h] = "put" => ~Handle(h)
      BY DEF IInv, TypeOK, Handle, GetPodFails, GetPodResource, AllocatePort, AllocateFails,
             PutRecord, PutMemory, AddReply, AddReplyFails, ReleasePort, ReleaseInvalid,
             DeleteRecord, DeleteFails, DeleteMemory, DelReply, GiveUp, Goto
    <3> QED
      BY <1>2, <3>1, ActIs DEF PutFails, Answer, IInv, TypeOK
  <2> QED
    BY <1>2, <2>1, ActInv
<1>3. ASSUME NEW h \in Handlers, PutFails(h), History({port[h]})
      PROVE  IInv'
  BY <1>3, ActIs, ActInv
<1>4. ASSUME Restart, RestartHistory
      PROVE  IInv'
  <2>1. TypeOK' /\ idle' \cap inuse' = {}
    BY <1>4, RestartType DEF IInv
  <2>2. RecordInv'
    BY <1>4, RestartRecord DEF IInv
  <2>3. Owned'
    BY <1>4, <2>1, <2>2, RestartOwned DEF IInv
  <2> QED
    BY <1>4, <2>1, <2>2, <2>3, RestartRemembered DEF IInv
<1> QED
  BY <1>1, <1>2, <1>3, <1>4, PoolInv, StutterInv DEF Next

LEMMA InvAlways == Spec => []IInv
  BY InvInit, Inductive, PTL DEF Spec

\* Every variable of the daemon, its pool and its store keeps its values; a
\* handler is always at one of the steps of AllocateIP and ReleaseIP.
THEOREM DaemonTypeCorrect == Spec => []TypeOK
<1>1. IInv => TypeOK
  BY DEF IInv
<1> QED
  BY <1>1, InvAlways, PTL

\* Whatever fails, is repeated or restarted, the database and its copy name the
\* port of every running pod that never had two requests at a time.
THEOREM RecordsKept == Spec => []RecordKept
<1>1. IInv => RecordKept
  <2> SUFFICES ASSUME IInv, NEW p \in Pods \ crossed, holds[p] # None
               PROVE  memory[p] = holds[p] /\ disk[p] = holds[p]
    BY DEF RecordKept
  <2>1. Free(p)
    BY DEF IInv, RecordInv, AloneInv, Free
  <2> QED
    BY <2>1 DEF IInv, RecordInv, QuietInv
<1> QED
  BY <1>1, InvAlways, PTL

\* Two running pods never have the same port, and the port of a running pod is
\* in use in the pool, unless it is stale: the record of a sticky pod, of a
\* failed delete or of crossed requests is all that can break this.
THEOREM PortsExclusive == Spec => []ExclusivePort
<1>1. ASSUME IInv, NEW p \in Pods, holds[p] \notin stale \cup {None}
      PROVE  holds[p] \in Res /\ Has(p, holds[p])
  <2>1. p \notin crossed
    BY <1>1 DEF IInv, RecordInv, CrossedInv
  <2>2. Free(p)
    BY <1>1, <2>1 DEF IInv, RecordInv, AloneInv, Free
  <2>3. memory[p] = holds[p]
    BY <1>1, <2>1, <2>2 DEF IInv, RecordInv, QuietInv
  <2> QED
    BY <1>1, <2>2, <2>3 DEF IInv, TypeOK, Has, Recorded, Free
<1>2. IInv => ExclusivePort
  <2> SUFFICES ASSUME IInv, NEW p \in Pods, holds[p] \notin stale \cup {None}
               PROVE  holds[p] \in inuse /\ \A q \in Pods \ {p} : holds[q] # holds[p]
    BY DEF ExclusivePort
  <2> QED
    BY <1>1 DEF IInv, Owned
<1> QED
  BY <1>2, InvAlways, PTL

\* A port that is in use is named by a record, or by a handler that is about to
\* write one, unless its record could not be written or was replaced.
THEOREM NoneForgotten == Spec => []NoPortForgotten
<1>1. IInv => NoPortForgotten
  BY DEF IInv, Remembered, Recorded, NoPortForgotten
<1> QED
  BY <1>1, InvAlways, PTL
-----------------------------------------------------------------------------
(* The daemon implements Leases *)

\* The lease of a pod with one handler, with none, and with several; in a
\* state and in the next one.
LEMMA LeaseAlone ==
  ASSUME NEW h \in Handlers, NEW p \in Pods,
         pod[h] = p, \A g \in Handlers : pod[g] = p => g = h
  PROVE  LeaseOf(p) = IF pc[h] \in {"put", "putMemory", "addReply"} THEN port[h]
                      ELSE IF pc[h] \in {"delete", "deleteMemory"} THEN None
                      ELSE memory[p]
<1> DEFINE at(labels) == {g \in Handlers : pod[g] = p /\ pc[g] \in labels}
           adding == at({"put", "putMemory", "addReply"})
<1>1. \A labels : at(labels) = IF pc[h] \in labels THEN {h} ELSE {}
  OBVIOUS
<1>2. LeaseOf(p) = IF adding # {} THEN port[CHOOSE g \in adding : TRUE]
                    ELSE IF at({"delete", "deleteMemory"}) # {} THEN None
                    ELSE memory[p]
  BY DEF LeaseOf
<1>3. adding # {} => adding = {h} /\ (CHOOSE g \in adding : TRUE) = h
  BY <1>1
<1> QED
  BY <1>1, <1>2, <1>3

LEMMA LeaseAloneNext ==
  ASSUME NEW h \in Handlers, NEW p \in Pods,
         pod'[h] = p, \A g \in Handlers : pod'[g] = p => g = h
  PROVE  LeaseOf(p)' = IF pc'[h] \in {"put", "putMemory", "addReply"} THEN port'[h]
                      ELSE IF pc'[h] \in {"delete", "deleteMemory"} THEN None
                      ELSE memory'[p]
<1> DEFINE at(labels) == {g \in Handlers : pod'[g] = p /\ pc'[g] \in labels}
           adding == at({"put", "putMemory", "addReply"})
<1>1. \A labels : at(labels) = IF pc'[h] \in labels THEN {h} ELSE {}
  OBVIOUS
<1>2. LeaseOf(p)' = IF adding # {} THEN port'[CHOOSE g \in adding : TRUE]
                    ELSE IF at({"delete", "deleteMemory"}) # {} THEN None
                    ELSE memory'[p]
  BY DEF LeaseOf
<1>3. adding # {} => adding = {h} /\ (CHOOSE g \in adding : TRUE) = h
  BY <1>1
<1> QED
  BY <1>1, <1>2, <1>3

LEMMA LeaseFree ==
  ASSUME NEW p \in Pods, \A g \in Handlers : pod[g] # p
  PROVE  LeaseOf(p) = memory[p]
  BY DEF LeaseOf

LEMMA LeaseFreeNext ==
  ASSUME NEW p \in Pods, \A g \in Handlers : pod'[g] # p
  PROVE  LeaseOf(p)' = memory'[p]
  BY DEF LeaseOf

LEMMA LeaseCrossed ==
  ASSUME CrossedInv, NEW p \in crossed
  PROVE  LeaseOf(p) \in stale \cup {None}
<1> DEFINE adding == {h \in Handlers : pod[h] = p /\ pc[h] \in {"put", "putMemory", "addReply"}}
<1>1. LeaseOf(p) \in {None, memory[p]}
      \/ (adding # {} /\ LeaseOf(p) = port[CHOOSE h \in adding : TRUE])
  BY DEF LeaseOf
<1>2. adding # {} => (CHOOSE h \in adding : TRUE) \in adding
  OBVIOUS
<1> QED
  BY <1>1, <1>2 DEF CrossedInv

LEMMA LeaseCrossedNext ==
  ASSUME CrossedInv', NEW p \in crossed'
  PROVE  LeaseOf(p)' \in stale' \cup {None}
<1> DEFINE adding == {h \in Handlers : pod'[h] = p /\ pc'[h] \in {"put", "putMemory", "addReply"}}
<1>1. LeaseOf(p)' \in {None, memory'[p]}
      \/ (adding # {} /\ LeaseOf(p)' = port'[CHOOSE h \in adding : TRUE])
  BY DEF LeaseOf
<1>2. adding # {} => (CHOOSE h \in adding : TRUE) \in adding
  OBVIOUS
<1> QED
  BY <1>1, <1>2 DEF CrossedInv

\* A lease is a port that the pod has.
LEMMA LeaseHas ==
  ASSUME TypeOK, RecordInv, NEW p \in Pods, NEW r \in Res, leases[p] = r
  PROVE  r \notin stale /\ Has(p, r)
<1>1. LeaseOf(p) = r /\ r \notin stale /\ r # None
  BY DaemonAssumption DEF leases
<1>2. p \notin crossed
  BY <1>1, LeaseCrossed DEF RecordInv
<1>3. CASE Free(p)
  BY <1>1, <1>3, LeaseFree DEF Free, Has, Recorded
<1>4. CASE ~Free(p)
  <2>1. PICK h \in Handlers : pod[h] = p
    BY <1>4 DEF Free
  <2>2. \A g \in Handlers : pod[g] = p => g = h
    BY <1>2, <2>1 DEF RecordInv, AloneInv
  <2> QED
    BY <1>1, <1>2, <2>1, <2>2, LeaseAlone, HasAlone
<1> QED
  BY <1>1, <1>3, <1>4

\* A pod keeps its lease or loses it.
Loses(p) == leases'[p] \in {leases[p], None}

\* A step of the daemon as a step of Leases, whoever asked for it.
Shares ==
  \/ \A p \in Pods : Loses(p)
  \/ \E p \in Pods : leases'[p] \in Res /\ Abstract!Grant(p, leases'[p])

LEMMA LosesIf ==
  ASSUME NEW p \in Pods, stale \subseteq stale',
         LeaseOf(p)' \in stale' \cup {None, LeaseOf(p)}
  PROVE  Loses(p)
<1>1. leases'[p] = IF LeaseOf(p)' \in stale' THEN None ELSE LeaseOf(p)'
  BY DEF leases
<1>2. leases[p] = IF LeaseOf(p) \in stale THEN None ELSE LeaseOf(p)
  BY DEF leases
<1> QED
  BY <1>1, <1>2 DEF Loses

\* The leases of the other pods are the same, but for ports that become stale.
LEMMA OthersLease ==
  ASSUME TypeOK, TypeOK', RecordInv, RecordInv', NEW h \in Handlers, Frame(h), Keeps,
         NEW q \in Pods \ {pod[h]}
  PROVE  Loses(q) /\ (q \notin crossed => LeaseOf(q)' = LeaseOf(q))
<1>0. crossed' = crossed /\ stale \subseteq stale' /\ memory'[q] = memory[q] /\ pod'[h] # q
  BY NoneCrosses, DaemonAssumption DEF Keeps, Frame
<1>1. CASE q \in crossed
  BY <1>0, <1>1, LeaseCrossedNext, LosesIf DEF RecordInv
<1>2. CASE q \notin crossed
  <2>1. CASE Free(q)
    <3>1. \A g \in Handlers : pod[g] # q /\ pod'[g] # q
      BY <1>0, <2>1 DEF Free, Frame
    <3>2. LeaseOf(q)' = LeaseOf(q)
      BY <1>0, <3>1, LeaseFree, LeaseFreeNext
    <3> QED
      BY <1>0, <3>2, LosesIf
  <2>2. CASE ~Free(q)
    <3>1. PICK g \in Handlers : pod[g] = q
      BY <2>2 DEF Free
    <3>2. g # h /\ pod'[g] = q /\ pc'[g] = pc[g] /\ port'[g] = port[g]
      BY <3>1 DEF Frame
    <3>3. \A f \in Handlers : (pod[f] = q => f = g) /\ (pod'[f] = q => f = g)
      BY <1>0, <1>2, <3>1, <3>2 DEF RecordInv, AloneInv
    <3>4. LeaseOf(q)' = LeaseOf(q)
      BY <1>0, <3>1, <3>2, <3>3, LeaseAlone, LeaseAloneNext
    <3> QED
      BY <1>0, <3>4, LosesIf
  <2> QED
    BY <2>1, <2>2
<1> QED
  BY <1>1, <1>2

\* The lease of the handler's own pod: only AllocatePort gives a new one.
LEMMA OwnLease ==
  ASSUME TypeOK, TypeOK', RecordInv, NEW h \in Handlers, Act(h), Frame(h), Keeps,
         NEW p \in Pods \ crossed, pod[h] = p, ~AllocatePort(h)
  PROVE  LeaseOf(p)' \in stale' \cup {None, LeaseOf(p)}
<1>0. HandlerInv(h) /\ AloneInv(h) /\ crossed' = crossed
  BY NoneCrosses DEF RecordInv
<1>a. LeaseOf(p) = IF pc[h] \in {"put", "putMemory", "addReply"} THEN port[h]
                   ELSE IF pc[h] \in {"delete", "deleteMemory"} THEN None ELSE memory[p]
  BY <1>0, LeaseAlone DEF AloneInv
<1>b. pod'[h] = p =>
        LeaseOf(p)' = IF pc'[h] \in {"put", "putMemory", "addReply"} THEN port'[h]
                      ELSE IF pc'[h] \in {"delete", "deleteMemory"} THEN None ELSE memory'[p]
  <2>1. \A g \in Handlers : pod'[h] = p /\ pod'[g] = p => g = h
    BY <1>0 DEF Keeps
  <2> QED
    BY <2>1, LeaseAloneNext
<1>c. pod'[h] # p => LeaseOf(p)' = memory'[p]
  <2>1. pod'[h] # p => \A g \in Handlers : pod'[g] # p
    BY <1>0 DEF Frame, AloneInv
  <2> QED
    BY <2>1, LeaseFreeNext
<1> USE <1>0, <1>a, <1>b, <1>c, DaemonAssumption
    DEF TypeOK, Keeps, HandlerInv, HandlerPC, AloneInv, Leftover, Outlives,
        Store!StoreTypeOK, poolVars, storeVars, handlerVars, kubeletVars
<1>1. CASE GetPodFails(h)
  BY <1>1 DEF GetPodFails, Answer
<1>2. CASE GetPodResource(h)
  BY <1>2 DEF GetPodResource, Goto
<1>3. CASE AllocatePort(h)
  BY <1>3
<1>4. CASE AllocateFails(h)
  BY <1>4 DEF AllocateFails, Answer
<1>5. CASE PutRecord(h)
  BY <1>5 DEF PutRecord, Goto, Store!Put, Store!WriteDisk, Store!NoWrite
<1>6. CASE PutFails(h)
  BY <1>6 DEF PutFails, Answer, Store!UpdateFails, Store!storeVars
<1>7. CASE PutMemory(h)
  BY <1>7 DEF PutMemory, Goto, Store!WriteMemory, Store!NoWrite
<1>8. CASE AddReply(h)
  BY <1>8 DEF AddReply, Answer
<1>9. CASE AddReplyFails(h)
  BY <1>9 DEF AddReplyFails, Answer
<1>10. CASE ReleasePort(h)
  BY <1>10 DEF ReleasePort, Goto, AfterRelease, Pool!Release
<1>11. CASE ReleaseInvalid(h)
  BY <1>11 DEF ReleaseInvalid, Answer
<1>12. CASE DeleteRecord(h)
  BY <1>12 DEF DeleteRecord, Goto, Store!Delete, Store!WriteDisk, Store!NoWrite
<1>13. CASE DeleteFails(h)
  BY <1>13 DEF DeleteFails, Answer, Store!UpdateFails, Store!storeVars
<1>14. CASE DeleteMemory(h)
  BY <1>14 DEF DeleteMemory, Goto, Store!WriteMemory, Store!NoWrite
<1>15. CASE DelReply(h)
  BY <1>15 DEF DelReply, Answer
<1>16. CASE GiveUp(h)
  BY <1>16 DEF GiveUp
<1> QED
  BY <1>1, <1>2, <1>3, <1>4, <1>5, <1>6, <1>7, <1>8,
     <1>9, <1>10, <1>11, <1>12, <1>13, <1>14, <1>15, <1>16 DEF Act
\* AllocatePort makes no port stale, unless the pod's requests cross.
LEMMA AllocateStale ==
  ASSUME TypeOK, TypeOK', RecordInv, NEW h \in Handlers, AllocatePort(h), Frame(h),
         pod[h] \notin crossed, crossed' = crossed, History({})
  PROVE  stale' = stale
<1>0. /\ UNCHANGED <<memory, disk>> /\ pc[h] = "allocate" /\ pod'[h] = pod[h]
      /\ \A g \in Handlers \ {h} : pc'[g] = pc[g] /\ pod'[g] = pod[g] /\ port'[g] = port[g]
  BY DEF AllocatePort, Goto, storeVars, Frame
<1>1. \A g \in Handlers : ~Outlives(g)
  BY <1>0 DEF Outlives
<1>2. \A g \in Handlers : pod'[g] \in crossed' => port'[g] \in stale \cup {None}
  BY <1>0 DEF RecordInv, CrossedInv
<1>3. \A p \in crossed' : memory'[p] \in stale \cup {None} /\ disk'[p] \in stale \cup {None}
  BY <1>0 DEF RecordInv, CrossedInv
<1> QED
  BY <1>1, <1>2, <1>3 DEF History

\* AllocatePort is Grant.
LEMMA AllocateLease ==
  ASSUME IInv, TypeOK', RecordInv', NEW h \in Handlers, AllocatePort(h), Frame(h), Keeps,
         pod[h] \notin crossed, History({})
  PROVE  Shares
<1> DEFINE p == pod[h]
           r == port'[h]
<1>0. TypeOK /\ RecordInv /\ Owned /\ p \in Pods /\ crossed' = crossed
  BY NoneCrosses DEF IInv, Frame
<1>1. stale' = stale
  BY <1>0, AllocateStale
<1>2. r \in Res /\ r \notin inuse /\ pc'[h] = "put" /\ pod'[h] = p
  BY <1>0 DEF IInv, TypeOK, AllocatePort, Goto, Pool!AcquireIdle, Pool!AcquireNew
<1>3. \A g \in Handlers : pod'[g] = p => g = h
  BY <1>0, <1>2 DEF Keeps
<1>4. \A q \in Pods : q = p => LeaseOf(q)' = r
  BY <1>2, <1>3, LeaseAloneNext
<1>5. \A q \in Pods \ {p} : leases'[q] = leases[q]
  <2>1. ASSUME NEW q \in Pods \ {p}
        PROVE  leases'[q] = leases[q]
    <3>1. leases'[q] = (IF LeaseOf(q)' \in stale' THEN None ELSE LeaseOf(q)')
      BY DEF leases
    <3>2. leases[q] = (IF LeaseOf(q) \in stale THEN None ELSE LeaseOf(q))
      BY DEF leases
    <3>3. CASE q \in crossed
      <4>1. LeaseOf(q) \in stale \cup {None}
        BY <1>0, <3>3, LeaseCrossed DEF RecordInv
      <4>2. LeaseOf(q)' \in stale' \cup {None}
        BY <1>0, <3>3, LeaseCrossedNext DEF RecordInv
      <4> QED
        BY <3>1, <3>2, <4>1, <4>2
    <3>4. CASE q \notin crossed
      <4>1. LeaseOf(q)' = LeaseOf(q)
        BY <1>0, <3>4, OthersLease
      <4> QED
        BY <1>1, <3>1, <3>2, <4>1
    <3> QED
      BY <3>3, <3>4
  <2> QED
    BY <2>1
<1>6. leases'[p] = IF r \in stale' THEN None ELSE r
  BY <1>0, <1>4 DEF leases
<1>7. CASE r \in stale'
  BY <1>5, <1>6, <1>7 DEF Shares, Loses
<1>8. CASE r \notin stale'
  <2>1. \A q \in Pods \ {p} : leases[q] # r
    BY <1>0, <1>2, LeaseHas DEF Owned
  <2>2. leases' = [leases EXCEPT ![p] = r]
    BY <1>0, <1>5, <1>6, <1>8 DEF leases
  <2>3. Abstract!Grant(p, leases'[p])
    BY <1>6, <1>8, <2>1, <2>2 DEF Abstract!Grant
  <2> QED
    BY <1>0, <1>2, <1>6, <1>8, <2>3 DEF Shares
<1> QED
  BY <1>7, <1>8

LEMMA ActLease ==
  ASSUME IInv, IInv', NEW h \in Handlers, Act(h), NEW STATE more, History(more),
         AllocatePort(h) => History({})
  PROVE  Shares
<1>0. TypeOK /\ RecordInv /\ TypeOK' /\ RecordInv'
  BY DEF IInv
<1>1. Frame(h) /\ Keeps
  BY <1>0, ActFrame, HistoryKeeps DEF RecordInv
<1>2. crossed' = crossed /\ stale \subseteq stale' /\ pod[h] \in Pods
  BY <1>0, <1>1, NoneCrosses DEF Keeps, Frame
<1>3. \A q \in Pods \ {pod[h]} : Loses(q)
  BY <1>0, <1>1, OthersLease
<1>4. ASSUME NEW p \in Pods, p = pod[h], p \in crossed \/ ~AllocatePort(h)
      PROVE  Loses(p)
  <2>1. CASE p \in crossed
    BY <1>0, <1>2, <2>1, LeaseCrossedNext, LosesIf DEF RecordInv
  <2>2. CASE p \notin crossed
    BY <1>0, <1>1, <1>2, <1>4, <2>2, OwnLease, LosesIf
  <2> QED
    BY <2>1, <2>2
<1>5. CASE pod[h] \in crossed \/ ~AllocatePort(h)
  <2>1. \A p \in Pods : Loses(p)
    BY <1>3, <1>4, <1>5
  <2> QED
    BY <2>1 DEF Shares
<1>6. CASE pod[h] \notin crossed /\ AllocatePort(h)
  BY <1>0, <1>1, <1>6, AllocateLease
<1> QED
  BY <1>5, <1>6

LEMMA CmdLease ==
  ASSUME IInv, IInv', NEW h \in Handlers, NEW p \in Pods, Cmd(h, p), History({})
  PROVE  \A q \in Pods : Loses(q)
<1> SUFFICES ASSUME NEW q \in Pods PROVE Loses(q)
  OBVIOUS
<1>0. CmdEffect(h, p)
  BY CmdDoes DEF IInv
<1> USE DEF CmdEffect
<1>1. Keeps /\ q # None
  BY HistoryKeeps, DaemonAssumption
<1>2. CASE q \in crossed'
  BY <1>1, <1>2, LeaseCrossedNext, LosesIf DEF Keeps, IInv, RecordInv
<1>3. CASE q \notin crossed'
  <2>1. \A f, g \in Handlers : pod'[f] = q /\ pod'[g] = q => f = g
    BY <1>1, <1>3 DEF Keeps
  <2>2. CASE \E g \in Handlers : pod[g] = q
    <3>1. PICK g \in Handlers : pod[g] = q
      BY <2>2
    <3>2. g # h /\ pod'[g] = q /\ pc'[g] = pc[g] /\ port'[g] = port[g]
      BY <1>0, <1>1, <3>1
    <3>3. \A f \in Handlers : (pod[f] = q => f = g) /\ (pod'[f] = q => f = g)
      BY <1>0, <1>1, <2>1, <3>2
    <3>4. LeaseOf(q)' = LeaseOf(q)
      BY <1>0, <3>1, <3>2, <3>3, LeaseAlone, LeaseAloneNext
    <3> QED
      BY <1>1, <3>4, LosesIf DEF Keeps
  <2>3. CASE ~(\E g \in Handlers : pod[g] = q)
    <3>1. LeaseOf(q) = memory[q]
      BY <2>3, LeaseFree
    <3>2. CASE q = p
      BY <1>0, <1>1, <2>1, <3>1, <3>2, LeaseAloneNext, LosesIf DEF Keeps
    <3>3. CASE q # p
      <4>1. \A g \in Handlers : pod'[g] # q
        BY <1>0, <2>3, <3>3
      <4> QED
        BY <1>0, <1>1, <3>1, <4>1, LeaseFreeNext, LosesIf DEF Keeps
    <3> QED
      BY <3>2, <3>3
  <2> QED
    BY <2>2, <2>3
<1> QED
  BY <1>2, <1>3

LEMMA RestartLease ==
  ASSUME IInv, IInv', Restart, RestartHistory
  PROVE  \A p \in Pods : Loses(p)
<1> SUFFICES ASSUME NEW p \in Pods PROVE Loses(p)
  OBVIOUS
<1>0. /\ memory' = disk /\ stale \subseteq stale' /\ crossed' = crossed
      /\ \A h \in Handlers : pod'[h] = None
      /\ \A h \in Handlers : pc[h] = "delete" => port[h] \in stale' \cup {None}
  BY DEF Restart, RestartHistory, Store!Restart
<1>1. LeaseOf(p)' = disk[p]
  BY <1>0, DaemonAssumption, LeaseFreeNext
<1>2. CASE p \in crossed
  BY <1>0, <1>2, LeaseCrossedNext, LosesIf DEF IInv, RecordInv
<1>3. CASE p \notin crossed /\ Free(p)
  <2>1. LeaseOf(p) = memory[p]
    BY <1>3, LeaseFree DEF Free
  <2> QED
    BY <1>0, <1>1, <1>3, <2>1, LosesIf DEF IInv, RecordInv, QuietInv
<1>4. CASE p \notin crossed /\ ~Free(p)
  <2>1. PICK h \in Handlers : pod[h] = p
    BY <1>4 DEF Free
  <2>2. HandlerInv(h) /\ AloneInv(h)
    BY DEF IInv, RecordInv
  <2>3. LeaseOf(p) = IF pc[h] \in {"put", "putMemory", "addReply"} THEN port[h]
                     ELSE IF pc[h] \in {"delete", "deleteMemory"} THEN None ELSE memory[p]
    BY <1>4, <2>1, <2>2, LeaseAlone DEF AloneInv
  <2>4. disk[p] \in stale' \cup {None, LeaseOf(p)}
    BY <1>0, <1>4, <2>1, <2>2, <2>3 DEF AloneInv, Leftover
  <2> QED
    BY <1>0, <1>1, <2>4, LosesIf
<1> QED
  BY <1>2, <1>3, <1>4

\* The lease of a pod stays what it is, but for a port that becomes stale.
Stays(p) == leases'[p] = leases[p] \/ (leases[p] \in stale' /\ leases'[p] = None)

LEMMA StaysIf ==
  ASSUME NEW p \in Pods, stale \subseteq stale', LeaseOf(p)' = LeaseOf(p)
  PROVE  Stays(p)
<1>1. leases'[p] = IF LeaseOf(p)' \in stale' THEN None ELSE LeaseOf(p)'
  BY DEF leases
<1>2. leases[p] = IF LeaseOf(p) \in stale THEN None ELSE LeaseOf(p)
  BY DEF leases
<1> QED
  BY <1>1, <1>2 DEF Stays

LEMMA CrossedStays ==
  ASSUME IInv, IInv', NEW p \in Pods, p \in crossed, p \in crossed'
  PROVE  Stays(p)
<1>1. leases'[p] = IF LeaseOf(p)' \in stale' THEN None ELSE LeaseOf(p)'
  BY DEF leases
<1>2. leases[p] = IF LeaseOf(p) \in stale THEN None ELSE LeaseOf(p)
  BY DEF leases
<1>3. LeaseOf(p) \in stale \cup {None}
  BY LeaseCrossed DEF IInv, RecordInv
<1>4. LeaseOf(p)' \in stale' \cup {None}
  BY LeaseCrossedNext DEF IInv, RecordInv
<1> QED
  BY <1>1, <1>2, <1>3, <1>4 DEF Stays

\* The lease of a pod that no handler works for is its record, at rest: a step
\* for another pod, the arrival of a request, and a restart leave it.
LEMMA FreeStays ==
  ASSUME IInv, IInv', Next, NEW p \in Pods, Free(p)
  PROVE  Stays(p)
<1>0. TypeOK /\ RecordInv /\ TypeOK' /\ RecordInv' /\ p # None
  BY DaemonAssumption DEF IInv
<1>1. LeaseOf(p) = memory[p]
  BY LeaseFree DEF Free
<1>2. ASSUME NEW h \in Handlers, NEW q \in Pods, Cmd(h, q), History({})
      PROVE  Stays(p)
  <2>1. CmdEffect(h, q) /\ Keeps
    BY <1>0, <1>2, CmdDoes, HistoryKeeps
  <2>2. \A g \in Handlers \ {h} : pod'[g] # p
    BY <2>1 DEF CmdEffect, Free
  <2>3. LeaseOf(p)' = memory'[p]
    BY <2>1, <2>2, LeaseAloneNext, LeaseFreeNext DEF CmdEffect
  <2> QED
    BY <1>1, <2>1, <2>3, StaysIf DEF CmdEffect, Keeps
<1>3. ASSUME NEW h \in Handlers, Act(h), Keeps
      PROVE  Stays(p)
  <2>1. Frame(h) /\ pod[h] # p
    BY <1>0, <1>3, ActFrame DEF RecordInv, Free
  <2>2. CASE p \in crossed
    BY <1>3, <2>2, CrossedStays DEF Keeps
  <2>3. CASE p \notin crossed
    BY <1>0, <1>3, <2>1, <2>3, OthersLease, StaysIf DEF Keeps
  <2> QED
    BY <2>2, <2>3
<1>4. ASSUME PoolMoves, History({})
      PROVE  Stays(p)
  <2>1. LeaseOf(p)' = LeaseOf(p)
    BY <1>4 DEF PoolMoves, storeVars, handlerVars, LeaseOf
  <2> QED
    BY <1>4, <2>1, HistoryKeeps, StaysIf DEF Keeps
<1>5. ASSUME Restart, RestartHistory
      PROVE  Stays(p)
  <2>1. /\ memory' = disk /\ stale \subseteq stale' /\ crossed' = crossed
        /\ \A h \in Handlers : pod'[h] = None
    BY <1>5 DEF Restart, RestartHistory, Store!Restart
  <2>2. LeaseOf(p)' = disk[p]
    BY <1>0, <2>1, LeaseFreeNext
  <2>3. CASE p \in crossed
    BY <2>1, <2>3, CrossedStays
  <2>4. CASE p \notin crossed
    BY <1>0, <1>1, <2>1, <2>2, <2>4, StaysIf DEF RecordInv, QuietInv
  <2> QED
    BY <2>3, <2>4
<1>6. ASSUME NEW h \in Handlers, NEW STATE more, Handle(h) \/ PutFails(h), History(more)
      PROVE  Stays(p)
  BY <1>3, <1>6, ActIs, HistoryKeeps
<1> QED
  BY <1>2, <1>4, <1>5, <1>6 DEF Next, Cmd

\* For the ports that are not stale the daemon is the lease table that the
\* plugin is written against: a pod is granted a port that no other pod has,
\* and keeps it, across the requests of others, failures and restarts, until
\* a request of its own gives it back.
THEOREM DaemonImplementsLeases == Spec => ImplementsLeases
<1> DEFINE Asking == {pod[h] : h \in Handlers}
<1>1. ASSUME IInv, IInv', [Next]_vars
      PROVE  [Abstract!LeaseNext(Asking, stale')]_leases
  <2>0. CASE UNCHANGED vars
    BY <2>0 DEF vars, storeVars, handlerVars, leases, LeaseOf
  <2>1. ASSUME Next
        PROVE  Shares
    <3>2. ASSUME NEW h \in Handlers, NEW p \in Pods, CmdAdd(h, p) \/ CmdDel(h, p), History({})
          PROVE  Shares
      BY <1>1, <3>2, CmdLease DEF Cmd, Shares
    <3>3. ASSUME NEW h \in Handlers, Handle(h), History({})
          PROVE  Shares
      BY <1>1, <3>3, ActIs, ActLease
    <3>4. ASSUME NEW h \in Handlers, PutFails(h), History({port[h]})
          PROVE  Shares
      <4>1. ~AllocatePort(h)
        BY <3>4 DEF PutFails, AllocatePort
      <4> QED
        BY <1>1, <3>4, <4>1, ActIs, ActLease
    <3>5. ASSUME PoolMoves, History({})
          PROVE  Shares
      <4>1. Keeps
        BY <3>5, HistoryKeeps
      <4>2. \A p \in Pods : LeaseOf(p)' = LeaseOf(p)
        BY <3>5 DEF PoolMoves, storeVars, handlerVars, LeaseOf
      <4> QED
        BY <4>1, <4>2, LosesIf DEF Keeps, Shares
    <3>6. ASSUME Restart, RestartHistory
          PROVE  Shares
      BY <1>1, <3>6, RestartLease DEF Shares
    <3> QED
      BY <2>1, <3>2, <3>3, <3>4, <3>5, <3>6 DEF Next
  <2>2. ASSUME Next
        PROVE  \A p \in Pods \ Asking : Stays(p)
    <3>1. ASSUME NEW p \in Pods \ Asking
          PROVE  Free(p)
      BY DEF Free
    <3> QED
      BY <1>1, <2>2, <3>1, FreeStays
  <2>3. CASE Next
    BY <2>1, <2>2, <2>3 DEF Abstract!LeaseNext, Shares, Stays, Loses
  <2> QED
    BY <1>1, <2>0, <2>3
<1>2. IInv /\ IInv' /\ [Next]_vars => [Abstract!LeaseNext(Asking, stale')]_leases
  BY <1>1
<1> QED
  BY <1>2, InvAlways, PTL DEF Spec, ImplementsLeases
=============================================================================
