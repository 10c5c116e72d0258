---------------------------- MODULE PriorityQueue ----------------------------
(***************************************************************************)
(* The binary heap behind the pool's idle list (pkg/pool/queue.go).        *)
(*                                                                         *)
(* slots is the Go slice q.slots[:q.size]; index i of the slice is index   *)
(* i + 1 here, so that the parent of i is i \div 2 and its children are    *)
(* 2i and 2i + 1.  capacity is the length of the backing array: a Push at  *)
(* size = capacity would be an index out of range.                         *)
(*                                                                         *)
(* Push, Pop and Rob end in a loop, bubbleUp or bubbleDown.  The loop runs *)
(* one iteration per step, and no operation begins before it is over: the  *)
(* caller holds the pool's lock.                                           *)
(***************************************************************************)
EXTENDS IdleQueue, Sequences, Functions

CONSTANTS NoItem,           \* the nil *poolItem
          Times,            \* the reverse times of pushed items
          InitialCapacity,  \* 10 in NewPriorityQueue
          MaxSize           \* bound: the longest queue explored

ASSUME QueueAssumption ==
  /\ Times \subseteq Nat
  /\ InitialCapacity \in Nat \ {0}
  /\ MaxSize \in Nat

VARIABLES slots, capacity,
          loop, index,      \* the loop under way and its variable
          ordered,          \* history: see IdleQueue
          out               \* the item the last operation returned

vars == <<slots, capacity, loop, index, ordered, out>>

size == Len(slots)

lessThan(i, j) == i.reverse < j.reverse

swap(s, x, y) == [s EXCEPT ![x] = s[y], ![y] = s[x]]

\* The slots of the item Find and Rob look for: they stop at the first.
SlotsOf(id) == {i \in 1..size : slots[i].res = id}
First(S) == CHOOSE i \in S : \A j \in S : i <= j
-----------------------------------------------------------------------------
(* The loops *)

Begin(which, at) == loop' = which /\ index' = at

End == Begin("none", 0)

\* Mutant of grown: the array grows one Push too late.
grownLate == IF size > capacity THEN 2 * capacity ELSE capacity

\* The end of Push, after its loop.
grown == IF size >= capacity THEN 2 * capacity ELSE capacity

\* for index > 0: swap with the parent while it is later.
bubbleUp ==
  /\ loop = "up"
  /\ LET parent == index \div 2
     IN  IF index > 1 /\ lessThan(slots[index], slots[parent])
           THEN /\ slots' = swap(slots, index, parent)
                /\ Begin("up", parent)
                /\ UNCHANGED capacity
           ELSE End /\ capacity' = grown /\ UNCHANGED slots
  /\ UNCHANGED <<ordered, out>>

\* Mutant of minChild: the right child is never looked at.
leftChild == IF 2 * index <= size THEN 2 * index ELSE 0

\* The earlier child; the right one on a tie, 0 when index is a leaf.
minChild ==
  LET left  == 2 * index
      right == 2 * index + 1
  IN  IF right <= size
        THEN IF lessThan(slots[left], slots[right]) THEN left ELSE right
        ELSE IF left <= size THEN left ELSE 0

\* for index < size: swap with the earlier child while that child is earlier.
bubbleDown ==
  /\ loop = "down"
  /\ IF index <= size /\ minChild # 0 /\ lessThan(slots[minChild], slots[index])
       THEN slots' = swap(slots, index, minChild) /\ Begin("down", minChild)
       ELSE End /\ UNCHANGED slots
  /\ UNCHANGED <<capacity, ordered, out>>
-----------------------------------------------------------------------------
(* The operations *)

\* NewPriorityQueue
Init ==
  /\ slots = <<>>
  /\ capacity = InitialCapacity
  /\ loop = "none" /\ index = 0
  /\ ordered = TRUE
  /\ out = NoItem

Push(item) ==
  /\ loop = "none" /\ size < MaxSize
  /\ slots' = Append(slots, item)
  /\ Begin("up", size + 1)
  /\ out' = NoItem
  /\ UNCHANGED <<capacity, ordered>>

\* Mutant of removeSlot: the removed item is not overwritten, so that the
\* last one is lost in its place.
removeSlotLosesLast(i) == [j \in 1..(size - 1) |-> slots[j]]

\* Both Pop and Rob: the last item takes the place of the removed one.
removeSlot(i) == [j \in 1..(size - 1) |-> slots[IF j = i THEN size ELSE j]]

Pop ==
  /\ loop = "none"
  /\ IF size = 0
       THEN out' = NoItem /\ UNCHANGED <<slots, loop, index, ordered>>
       ELSE /\ out' = slots[1]
            /\ slots' = removeSlot(1)
            /\ Begin("down", 1)
            /\ ordered' = OrderedAfterPop(Range(slots'), ordered)
  /\ UNCHANGED capacity

Peek ==
  /\ loop = "none"
  /\ out' = IF size = 0 THEN NoItem ELSE slots[1]
  /\ UNCHANGED <<slots, capacity, loop, index, ordered>>

Find(id) ==
  /\ loop = "none"
  /\ out' = IF SlotsOf(id) = {} THEN NoItem ELSE slots[First(SlotsOf(id))]
  /\ UNCHANGED <<slots, capacity, loop, index, ordered>>

Rob(id) ==
  /\ loop = "none"
  /\ IF SlotsOf(id) = {}
       THEN out' = NoItem /\ UNCHANGED <<slots, loop, index, ordered>>
       ELSE LET i == First(SlotsOf(id))
            IN  /\ out' = slots[i]
                /\ slots' = removeSlot(i)
                /\ Begin("down", i)
                /\ ordered' = OrderedAfterRob(Range(slots'), ordered)
  /\ UNCHANGED capacity

Next ==
  \/ \E r \in Res \ ResOf(Range(slots)), t \in Times : Push([res |-> r, reverse |-> t])
  \/ Pop
  \/ Peek
  \/ \E id \in Res : Find(id) \/ Rob(id)
  \/ bubbleUp \/ bubbleDown

Spec == Init /\ [][Next]_vars
-----------------------------------------------------------------------------
\* Every item is at least as late as its parent.
IsHeap == \A i \in 2..size : slots[i].reverse >= slots[i \div 2].reverse

\* The order the pool relies on when it disposes or hands out the head:
\* as long as no Rob took an item out of a queue longer than RobSafeSize,
\* every operation leaves the heap ordered, whatever sequence of Push, Pop
\* and Rob led here.
HeapOrdered == loop = "none" /\ ordered => IsHeap

\* Push never writes outside the backing array: after any sequence of
\* operations there is a free slot (queue.go:179, the doubling on >=).
RoomToPush == loop = "none" => size < capacity

\* The heap implements the abstract queue: no operation loses, duplicates
\* or invents an item, Pop and Peek return an earliest item (while ordered),
\* Rob and Find return the item asked for, and the loops only move items.
Abstract == INSTANCE IdleQueueSpec WITH items <- Range(slots)
ImplementsIdleQueue == Abstract!Spec
=============================================================================
