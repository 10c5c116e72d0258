---------------------------- MODULE IdleQueueSpec ----------------------------
(***************************************************************************)
(* The abstract idle queue as a state machine: what callers of             *)
(* PriorityQueue may count on, whatever the layout of the heap.            *)
(***************************************************************************)
EXTENDS IdleQueue

CONSTANT NoItem     \* the nil *poolItem

VARIABLES items,    \* the items in the queue
          ordered,  \* the heap order is known to hold
          out       \* the item the last operation returned

vars == <<items, ordered, out>>

Init == items = {} /\ ordered = TRUE /\ out = NoItem

Push(i) ==
  /\ i.res \notin ResOf(items)
  /\ items' = items \cup {i}
  /\ out' = NoItem
  /\ UNCHANGED ordered

\* Peek and Find return an item and change nothing.
Look ==
  /\ \/ out' \in Heads(items, ordered)
     \/ items = {} /\ out' = NoItem
     \/ \E id \in Res : \/ out' \in Robbable(items, id)
                        \/ Robbable(items, id) = {} /\ out' = NoItem
  /\ UNCHANGED <<items, ordered>>

Pop ==
  \/ /\ items = {}
     /\ out' = NoItem
     /\ UNCHANGED <<items, ordered>>
  \/ \E i \in Heads(items, ordered) :
       /\ items' = items \ {i}
       /\ ordered' = OrderedAfterPop(items', ordered)
       /\ out' = i

Rob(id) ==
  \/ /\ Robbable(items, id) = {}
     /\ out' = NoItem
     /\ UNCHANGED <<items, ordered>>
  \/ \E i \in Robbable(items, id) :
       /\ items' = items \ {i}
       /\ ordered' = OrderedAfterRob(items', ordered)
       /\ out' = i

Next ==
  \/ \E i \in items' : Push(i)
  \/ Look
  \/ Pop
  \/ \E id \in Res : Rob(id)

Spec == Init /\ [][Next]_vars
=============================================================================
