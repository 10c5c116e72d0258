------------------------------ MODULE IdleQueue ------------------------------
(***************************************************************************)
(* What the pool relies on of its idle queue (pkg/pool/queue.go,           *)
(* PriorityQueue): a collection of items from which Pop takes one with the *)
(* earliest "reverse" time and Rob takes the one with a given resource id. *)
(* ObjectPool is written with these operators; IdleQueueSpec makes a state *)
(* machine of them, which the binary heap of PriorityQueue implements.     *)
(*                                                                         *)
(* Rob repairs the heap downwards only.  Taking an item out of a queue of  *)
(* RobSafeSize items or fewer keeps the heap ordered; out of a longer one  *)
(* it may leave an item below a later one, and from then on Pop may return *)
(* any item.  The argument "ord" says whether the order is known to hold.  *)
(***************************************************************************)
EXTENDS Integers, FiniteSets

CONSTANT Res        \* resource ids (Neutron port ids)

\* The longest queue from which Rob cannot disturb the heap order.
RobSafeSize == 5

\* type poolItem struct { res; reverse }
Item == [res : Res, reverse : Nat]

ResOf(q) == {i.res : i \in q}

\* lessThan: the items that no other item of q is before.
Earliest(q) == {i \in q : \A j \in q : i.reverse <= j.reverse}

\* The items that Peek and Pop may return.
Heads(q, ord) == IF ord THEN Earliest(q) ELSE q

\* The items that Rob(id) and Find(id) may return.
Robbable(q, id) == {i \in q : i.res = id}

\* Whether the heap is known to be ordered after Pop left the items of q.
OrderedAfterPop(q, ord) == ord \/ Cardinality(q) <= 1

\* Whether the heap is known to be ordered after Rob left the items of q.
OrderedAfterRob(q, ord) ==
  \/ ord /\ Cardinality(q) < RobSafeSize
  \/ Cardinality(q) <= 1
=============================================================================
