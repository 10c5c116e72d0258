-------------------------- MODULE DiskStorageProofs --------------------------
(***************************************************************************)
(* Proof that the two copies of DiskStorage agree, for any number of keys, *)
(* values and clients.                                                     *)
(***************************************************************************)
EXTENDS DiskStorage, TLAPS

\* A key whose writes never overlapped has one writer at most; the database
\* has its value already, and without a writer so has the memory.
OneWriter ==
  \A k \in Keys \ raced :
    /\ \A c, d \in Writers(k) : c = d
    /\ \A c \in Writers(k) : todo[c].value = disk[k]
    /\ Writers(k) = {} => memory[k] = disk[k]

StoreInv == StoreTypeOK /\ OneWriter

LEMMA StoreInvInit == StoreInit => StoreInv
BY DEF StoreInit, StoreInv, StoreTypeOK, OneWriter, Writers

LEMMA WriteDiskInv ==
  ASSUME StoreInv, NEW c \in Clients, NEW k \in Keys, NEW v \in Values \cup {NoValue},
         WriteDisk(c, k, v)
  PROVE  StoreInv'
<1> USE DEF StoreInv, WriteDisk
<1>1. [key |-> k, value |-> v] \in Write /\ [key |-> k, value |-> v] # NoWrite
  BY StoreAssumption DEF Write, NoWrite
<1>2. StoreTypeOK'
  BY <1>1 DEF StoreTypeOK
<1>3. Writers(k)' = Writers(k) \cup {c}
  BY <1>1 DEF Writers, StoreTypeOK
<1>4. \A j \in Keys \ {k} : Writers(j)' = Writers(j)
  BY <1>1 DEF Writers, StoreTypeOK
<1>5. ASSUME NEW j \in Keys \ raced'
      PROVE  /\ \A b, d \in Writers(j)' : b = d
             /\ \A d \in Writers(j)' : todo'[d].value = disk'[j]
             /\ Writers(j)' = {} => memory'[j] = disk'[j]
  <2>1. CASE j = k
    <3>1. Writers(k)' = {c}
      BY <1>3, <1>5, <2>1
    <3> QED
      BY <2>1, <3>1 DEF StoreTypeOK
  <2>2. CASE j # k
    <3>1. j \in Keys \ raced /\ Writers(j)' = Writers(j) /\ disk'[j] = disk[j]
      BY <1>4, <1>5, <2>2 DEF StoreTypeOK
    <3>2. c \notin Writers(j)
      BY DEF Writers
    <3>3. \A d \in Writers(j) : todo'[d] = todo[d]
      BY <3>2 DEF StoreTypeOK, Writers
    <3> QED
      BY <3>1, <3>3 DEF OneWriter
  <2> QED
    BY <2>1, <2>2
<1> QED
  BY <1>2, <1>5 DEF OneWriter

LEMMA WriteMemoryInv ==
  ASSUME StoreInv, NEW c \in Clients, WriteMemory(c)
  PROVE  StoreInv'
<1> USE DEF StoreInv, WriteMemory
<1> DEFINE k == todo[c].key
<1>1. k \in Keys /\ todo[c].value \in Values \cup {NoValue} /\ c \in Writers(k)
  BY DEF StoreTypeOK, Write, NoWrite, Writers
<1>2. StoreTypeOK'
  BY <1>1 DEF StoreTypeOK
<1>3. \A j \in Keys : Writers(j)' = Writers(j) \ {c}
  BY DEF Writers, StoreTypeOK
<1>4. \A d \in Clients \ {c} : todo'[d] = todo[d]
  BY DEF StoreTypeOK
<1>5. ASSUME NEW j \in Keys \ raced'
      PROVE  /\ \A b, d \in Writers(j)' : b = d
             /\ \A d \in Writers(j)' : todo'[d].value = disk'[j]
             /\ Writers(j)' = {} => memory'[j] = disk'[j]
  <2>1. CASE j = k
    BY <1>1, <1>3, <1>5, <2>1 DEF OneWriter, StoreTypeOK
  <2>2. CASE j # k
    <3>1. c \notin Writers(j) /\ memory'[j] = memory[j]
      BY <1>1, <1>5, <2>2 DEF Writers, StoreTypeOK
    <3>2. Writers(j) \subseteq Clients \ {c}
      BY <3>1 DEF Writers
    <3> QED
      BY <1>3, <1>4, <1>5, <3>1, <3>2 DEF OneWriter
  <2> QED
    BY <2>1, <2>2
<1> QED
  BY <1>2, <1>5 DEF OneWriter

LEMMA StoreInvStep == StoreInv /\ [StoreNext]_storeVars => StoreInv'
<1> SUFFICES ASSUME StoreInv, [StoreNext]_storeVars PROVE StoreInv'
  OBVIOUS
<1>1. ASSUME NEW c \in Clients, NEW k \in Keys, NEW v \in Values, Put(c, k, v) PROVE StoreInv'
  BY <1>1, WriteDiskInv DEF Put
<1>2. ASSUME NEW c \in Clients, NEW k \in Keys, Delete(c, k) PROVE StoreInv'
  BY <1>2, WriteDiskInv DEF Delete
<1>3. ASSUME NEW c \in Clients, WriteMemory(c) PROVE StoreInv'
  BY <1>3, WriteMemoryInv
<1>4. CASE UNCHANGED storeVars
  BY <1>4 DEF storeVars, StoreInv, StoreTypeOK, OneWriter, Writers
<1>5. CASE Restart
  BY <1>5 DEF Restart, StoreInv, StoreTypeOK, OneWriter, Writers
<1> QED
  BY <1>1, <1>2, <1>3, <1>4, <1>5 DEF StoreNext, UpdateFails

\* Get returns what a restart would load, for every key whose writes did not
\* overlap, whatever failures and restarts happen.
THEOREM StoreCopiesAgree == StoreSpec => []CopiesAgree
<1>1. StoreInv => CopiesAgree
  BY DEF StoreInv, OneWriter, CopiesAgree
<1> QED
  BY <1>1, StoreInvInit, StoreInvStep, PTL DEF StoreSpec
=============================================================================
