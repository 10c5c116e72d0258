----------------------------- MODULE DiskStorage -----------------------------
(***************************************************************************)
(* DiskStorage (pkg/storage/store.go): a bolt database with a copy of it   *)
(* in memory.  Put and Delete change the database in one transaction and   *)
(* then the memory, under its own lock; nothing encloses the two.  Get and *)
(* List read the memory.  An absent key is one whose value is NoValue, so  *)
(* that Delete writes NoValue.                                             *)
(***************************************************************************)
EXTENDS Integers, FiniteSets

CONSTANTS Keys, Values, NoValue,
          Clients        \* goroutines that call the store

ASSUME StoreAssumption == NoValue \notin Values /\ NoValue \notin Keys

VARIABLES disk, memory,  \* the two copies
          todo,          \* the write that a client still owes to the memory
          raced          \* history: keys of which two writes overlapped

storeVars == <<disk, memory, todo, raced>>

NoWrite == [key |-> NoValue, value |-> NoValue]
Write == [key : Keys, value : Values \cup {NoValue}]

\* Clients between the two halves of a write of k.
Writers(k) == {c \in Clients : todo[c] # NoWrite /\ todo[c].key = k}

StoreInit ==
  /\ disk \in [Keys -> Values \cup {NoValue}]
  /\ memory = disk
  /\ todo = [c \in Clients |-> NoWrite]
  /\ raced = {}

\* db.Update committed.
WriteDisk(c, k, v) ==
  /\ todo[c] = NoWrite
  /\ disk' = [disk EXCEPT ![k] = v]
  /\ todo' = [todo EXCEPT ![c] = [key |-> k, value |-> v]]
  /\ raced' = IF Writers(k) = {} THEN raced ELSE raced \cup {k}
  /\ UNCHANGED memory

Put(c, k, v) == v \in Values /\ WriteDisk(c, k, v)
Delete(c, k) == WriteDisk(c, k, NoValue)

\* db.Update failed: Put and Delete return its error.
UpdateFails(c) == todo[c] = NoWrite /\ UNCHANGED storeVars

\* Mutant of WriteMemory: a deletion is not applied to the memory.
WriteMemoryPutsOnly(c) ==
  /\ todo[c] # NoWrite
  /\ memory' = IF todo[c].value = NoValue THEN memory
                                         ELSE [memory EXCEPT ![todo[c].key] = todo[c].value]
  /\ todo' = [todo EXCEPT ![c] = NoWrite]
  /\ UNCHANGED <<disk, raced>>

WriteMemory(c) ==
  /\ todo[c] # NoWrite
  /\ memory' = [memory EXCEPT ![todo[c].key] = todo[c].value]
  /\ todo' = [todo EXCEPT ![c] = NoWrite]
  /\ UNCHANGED <<disk, raced>>

\* The process ends, in the middle of whatever it does, and starts again:
\* load() fills an empty memory from the database.
Restart ==
  /\ memory' = disk
  /\ todo' = [c \in Clients |-> NoWrite]
  /\ raced' = {}
  /\ UNCHANGED disk

StoreNext ==
  \/ \E c \in Clients, k \in Keys, v \in Values : Put(c, k, v)
  \/ \E c \in Clients, k \in Keys : Delete(c, k)
  \/ \E c \in Clients : UpdateFails(c) \/ WriteMemory(c)
  \/ Restart

StoreSpec == StoreInit /\ [][StoreNext]_storeVars
-----------------------------------------------------------------------------
StoreTypeOK ==
  /\ disk \in [Keys -> Values \cup {NoValue}]
  /\ memory \in [Keys -> Values \cup {NoValue}]
  /\ todo \in [Clients -> Write \cup {NoWrite}]
  /\ raced \subseteq Keys

\* What Get returns is what a restart would load, for every key whose writes
\* did not overlap: however puts, deletes, failures and restarts follow each
\* other, the two copies agree as soon as no write of the key is under way.
CopiesAgree == \A k \in Keys \ raced : Writers(k) = {} => memory[k] = disk[k]
=============================================================================
