------------------------- MODULE PriorityQueueProofs -------------------------
(***************************************************************************)
(* The heap of queue.go is a heap, for queues of any length: the order,    *)
(* the room in the array, and the refinement of the abstract idle queue.   *)
(***************************************************************************)
EXTENDS PriorityQueue, FiniteSetTheorems, SequenceTheorems, TLAPS

\* Index i of sequence s is at least as late as index j.
Later(s, i, j) == s[i].reverse >= s[j].reverse

Heap(s) == \A i \in 2..Len(s) : Later(s, i, i \div 2)

\* The heap while bubbleUp is at k: only the item there may be earlier than
\* its parent, and the items below it are in order with that parent.
UpHeap(s, k) ==
  /\ \A i \in 2..Len(s) : i # k => Later(s, i, i \div 2)
  /\ \A i \in 2..Len(s) : i \div 2 = k /\ k > 1 => Later(s, i, k \div 2)

\* The heap while bubbleDown is at k: only the item there may be later than
\* its children, and these are in order with its parent.
DownHeap(s, k) ==
  /\ \A i \in 2..Len(s) : i \div 2 # k => Later(s, i, i \div 2)
  /\ \A i \in 2..Len(s) : i \div 2 = k /\ k > 1 => Later(s, i, k \div 2)

\* No resource is in two slots.
Distinct(s) == \A i, j \in 1..Len(s) : s[i].res = s[j].res => i = j

Removed(s, k) == [j \in 1..(Len(s) - 1) |-> s[IF j = k THEN Len(s) ELSE j]]
-----------------------------------------------------------------------------
(* Numbers and sequences *)

\* Every nonempty set of numbers has a least one.
LEMMA LeastNumber ==
  ASSUME NEW S \in SUBSET Nat, S # {}
  PROVE  \E n \in S : \A m \in S : n <= m
<1> DEFINE Less == {ss \in Nat \X Nat : ss[1] < ss[2]}
<1>1. OpToRel(<, Nat) = Less
  BY Zenon DEF OpToRel
<1>2. IsWellFoundedOn(Less, Nat)
  BY <1>1, NatLessThanWellFounded, Zenon
<1> HIDE DEF Less
<1>3. PICK n \in S : \A m \in S : ~(<<m, n>> \in Less)
  BY <1>2, WFMin, Zenon
<1>4. \A m \in S : ~(m < n)
  BY <1>3 DEF Less
<1> QED
  BY <1>4

\* The parent of a slot is a smaller one, of which the slot is a child.
LEMMA Parent ==
  \A i \in Nat : /\ i \div 2 \in Nat
                 /\ i = 2 * (i \div 2) \/ i = 2 * (i \div 2) + 1
                 /\ i > 1 => i \div 2 >= 1 /\ i \div 2 < i
OBVIOUS

LEMMA Child == \A k \in Nat : (2 * k) \div 2 = k /\ (2 * k + 1) \div 2 = k
OBVIOUS

LEMMA SlotType ==
  ASSUME NEW s \in Seq(Item)
  PROVE  /\ Len(s) \in Nat /\ DOMAIN s = 1..Len(s)
         /\ \A i \in 1..Len(s) : s[i] \in Item /\ s[i].reverse \in Nat /\ s[i].res \in Res
<1>1. Len(s) \in Nat /\ DOMAIN s = 1..Len(s) /\ \A i \in 1..Len(s) : s[i] \in Item
  BY ElementOfSeq, LenProperties
<1>2. \A i \in Item : i.reverse \in Nat /\ i.res \in Res
  BY DEF Item
<1> QED
  BY <1>1, <1>2

LEMMA SwapLemma ==
  ASSUME NEW s \in Seq(Item), NEW x \in 1..Len(s), NEW y \in 1..Len(s), x # y
  PROVE  /\ swap(s, x, y) \in Seq(Item) /\ Len(swap(s, x, y)) = Len(s)
         /\ swap(s, x, y)[x] = s[y] /\ swap(s, x, y)[y] = s[x]
         /\ \A i \in 1..Len(s) : i \notin {x, y} => swap(s, x, y)[i] = s[i]
<1>1. s[x] \in Item /\ s[y] \in Item
  BY ElementOfSeq
<1> DEFINE t == [s EXCEPT ![x] = s[y]]
<1>2. /\ t \in Seq(Item) /\ Len(t) = Len(s)
      /\ \A j \in 1..Len(s) : t[j] = IF j = x THEN s[y] ELSE s[j]
  BY <1>1, ExceptSeq
<1> HIDE DEF t
<1>3. /\ [t EXCEPT ![y] = s[x]] \in Seq(Item) /\ Len([t EXCEPT ![y] = s[x]]) = Len(s)
      /\ \A j \in 1..Len(s) : [t EXCEPT ![y] = s[x]][j] = IF j = y THEN s[x] ELSE t[j]
  BY <1>1, <1>2, ExceptSeq
<1>4. swap(s, x, y) = [t EXCEPT ![y] = s[x]]
  BY DEF swap, t
<1> QED
  BY <1>2, <1>3, <1>4

\* Swapping two items changes neither the set of items nor their distinctness.
LEMMA SwapKeeps ==
  ASSUME NEW s \in Seq(Item), NEW x \in 1..Len(s), NEW y \in 1..Len(s), x # y
  PROVE  Range(swap(s, x, y)) = Range(s) /\ (Distinct(s) => Distinct(swap(s, x, y)))
<1> DEFINE u == swap(s, x, y)
<1>1. /\ u \in Seq(Item) /\ Len(u) = Len(s) /\ u[x] = s[y] /\ u[y] = s[x]
      /\ \A i \in 1..Len(s) : i \notin {x, y} => u[i] = s[i]
  BY SwapLemma
<1> HIDE DEF u
<1>2. Range(u) = {u[i] : i \in 1..Len(s)} /\ Range(s) = {s[i] : i \in 1..Len(s)}
  BY <1>1, SlotType DEF Range
<1>3. \A i \in 1..Len(s) : \E j \in 1..Len(s) : u[i] = s[j]
  BY <1>1
<1>4. \A i \in 1..Len(s) : \E j \in 1..Len(s) : s[i] = u[j]
  BY <1>1
<1>5. Distinct(s) => Distinct(u)
  BY <1>1 DEF Distinct
<1>6. Range(u) \subseteq Range(s) /\ Range(s) \subseteq Range(u)
  <2>1. ASSUME NEW e \in Range(u) PROVE e \in Range(s)
    BY <1>2, <1>3, <2>1
  <2>2. ASSUME NEW e \in Range(s) PROVE e \in Range(u)
    BY <1>2, <1>4, <2>2
  <2> QED
    BY <2>1, <2>2
<1> QED
  BY <1>5, <1>6 DEF u

LEMMA RemoveSlotLemma ==
  ASSUME NEW s \in Seq(Item), NEW k \in 1..Len(s)
  PROVE  /\ Removed(s, k) \in Seq(Item) /\ Len(Removed(s, k)) = Len(s) - 1
         /\ \A i \in 1..(Len(s) - 1) :
              Removed(s, k)[i] = IF i = k THEN s[Len(s)] ELSE s[i]
         /\ Distinct(s) => /\ Distinct(Removed(s, k))
                           /\ Range(Removed(s, k)) = Range(s) \ {s[k]}
<1> DEFINE n == Len(s) - 1
           u == Removed(s, k)
<1>1. n \in Nat /\ Len(s) \in 1..Len(s) /\ \A i \in 1..n : i \in 1..Len(s)
  BY SlotType
<1>2. u \in [1..n -> Item] /\ \A i \in 1..n : u[i] = IF i = k THEN s[Len(s)] ELSE s[i]
  BY <1>1, SlotType DEF Removed
<1>3. u \in Seq(Item) /\ Len(u) = n
  BY <1>1, <1>2
<1> HIDE DEF u
<1>4. Distinct(s) => Distinct(u)
  BY <1>1, <1>2, <1>3 DEF Distinct
<1>5. ASSUME Distinct(s) PROVE Range(u) = Range(s) \ {s[k]}
  <2>1. Range(u) = {u[i] : i \in 1..n} /\ Range(s) = {s[i] : i \in 1..Len(s)}
    BY <1>3, SlotType DEF Range
  <2>2. \A i \in 1..n : u[i] \in Range(s) /\ u[i] # s[k]
    BY <1>1, <1>2, <1>5, <2>1 DEF Distinct
  <2>3. \A i \in 1..Len(s) : s[i] # s[k] => \E j \in 1..n : u[j] = s[i]
    <3> TAKE i \in 1..Len(s)
    <3> HAVE s[i] # s[k]
    <3>1. CASE i = Len(s)
      BY <1>1, <1>2, <3>1
    <3>2. CASE i # Len(s)
      BY <1>1, <1>2, <3>2
    <3> QED
      BY <3>1, <3>2
  <2> QED
    BY <2>1, <2>2, <2>3
<1> QED
  BY <1>2, <1>3, <1>4, <1>5 DEF u

\* Without repetition there are as many items as slots.
LEMMA CardinalityLemma ==
  ASSUME NEW s \in Seq(Item), Distinct(s)
  PROVE  IsFiniteSet(Range(s)) /\ Cardinality(Range(s)) = Len(s)
<1>1. Len(s) \in Nat /\ s \in [1..Len(s) -> Item] /\ Range(s) = {s[i] : i \in 1..Len(s)}
  BY LenProperties DEF Range
<1>2. s \in Bijection(1..Len(s), Range(s))
  BY <1>1 DEF Bijection, Injection, Surjection, IsInjective, Distinct
<1>3. IsFiniteSet(1..Len(s)) /\ Cardinality(1..Len(s)) = Len(s)
  BY <1>1, FS_Interval
<1> QED
  BY <1>2, <1>3, FS_Bijection DEF ExistsBijection
-----------------------------------------------------------------------------
(* Heaps *)

\* Push adds a leaf: bubbleUp begins with it.
LEMMA PushHeap ==
  ASSUME NEW s \in Seq(Item), NEW i \in Item, Heap(s)
  PROVE  UpHeap(Append(s, i), Len(s) + 1)
<1>1. /\ Len(s) \in Nat /\ Len(Append(s, i)) = Len(s) + 1
      /\ \A j \in 1..Len(s) : Append(s, i)[j] = s[j]
  BY AppendProperties, SlotType
<1>2. \A j \in 2..Len(s) : j \div 2 \in 1..Len(s)
  BY <1>1, Parent
<1>3. \A j \in 2..(Len(s) + 1) : j \div 2 # Len(s) + 1
  BY <1>1, Parent
<1> QED
  BY <1>1, <1>2, <1>3 DEF Heap, UpHeap, Later

\* One iteration of bubbleUp.
LEMMA UpStep ==
  ASSUME NEW s \in Seq(Item), NEW k \in 2..Len(s), UpHeap(s, k), lessThan(s[k], s[k \div 2])
  PROVE  UpHeap(swap(s, k, k \div 2), k \div 2)
<1> DEFINE p == k \div 2
           u == swap(s, k, p)
<1>0. Len(s) \in Nat /\ \A i \in 1..Len(s) : s[i].reverse \in Nat
  BY SlotType
<1>1. p \in 1..Len(s) /\ k \in 1..Len(s) /\ p < k /\ p # k
  BY <1>0, Parent
<1>2. \A i \in 2..Len(s) : i \in 1..Len(s) /\ i \div 2 \in 1..Len(s) /\ i \div 2 < i
  BY <1>0, Parent
<1>3. s[k].reverse < s[p].reverse
  BY DEF lessThan
<1> HIDE DEF p
<1>4. /\ Len(u) = Len(s) /\ u[k] = s[p] /\ u[p] = s[k]
      /\ \A i \in 1..Len(s) : i \notin {k, p} => u[i] = s[i]
  BY <1>1, SwapLemma
<1> HIDE DEF u
<1>5. \A i \in 2..Len(s) : i # k => s[i].reverse >= s[i \div 2].reverse
  BY DEF UpHeap, Later
<1>6. \A i \in 2..Len(s) : i \div 2 = k => s[i].reverse >= s[p].reverse
  BY DEF UpHeap, Later, p
<1>7. k \div 2 = p
  BY DEF p
<1>8. ASSUME NEW i \in 2..Len(s), i # p PROVE u[i].reverse >= u[i \div 2].reverse
  <2>1. CASE i = k
    BY <1>0, <1>1, <1>4, <1>3, <1>7, <2>1
  <2>2. CASE i # k /\ i \div 2 = k
    BY <1>0, <1>1, <1>2, <1>4, <1>6, <1>8, <2>2
  <2>3. CASE i # k /\ i \div 2 = p
    BY <1>0, <1>1, <1>2, <1>4, <1>3, <1>5, <1>8, <2>3
  <2>4. CASE i # k /\ i \div 2 \notin {k, p}
    BY <1>2, <1>4, <1>5, <1>8, <2>4
  <2> QED
    BY <2>1, <2>2, <2>3, <2>4
<1>9. ASSUME NEW i \in 2..Len(s), i \div 2 = p, p > 1 PROVE u[i].reverse >= u[p \div 2].reverse
  <2>1. p \in 2..Len(s) /\ p # k
    BY <1>1, <1>9
  <2>2. p \div 2 \in 1..Len(s) /\ p \div 2 \notin {k, p}
    BY <1>1, <1>2, <2>1
  <2>3. s[p].reverse >= s[p \div 2].reverse /\ u[p \div 2] = s[p \div 2]
    BY <1>4, <1>5, <2>1, <2>2
  <2>4. CASE i = k
    BY <1>4, <2>3, <2>4
  <2>5. CASE i # k
    <3>1. u[i] = s[i] /\ s[i].reverse >= s[p].reverse
      BY <1>2, <1>4, <1>5, <1>9, <2>5
    <3> QED
      BY <1>0, <1>1, <1>2, <2>2, <2>3, <3>1
  <2> QED
    BY <2>4, <2>5
<1>10. UpHeap(u, p)
  BY <1>4, <1>8, <1>9 DEF UpHeap, Later
<1> QED
  BY <1>10 DEF u, p

\* The end of bubbleUp.
LEMMA UpEnd ==
  ASSUME NEW s \in Seq(Item), NEW k \in 1..Len(s), UpHeap(s, k),
         ~(k > 1 /\ lessThan(s[k], s[k \div 2]))
  PROVE  Heap(s)
<1>0. Len(s) \in Nat /\ \A i \in 1..Len(s) : s[i].reverse \in Nat
  BY SlotType
<1>1. ASSUME k \in 2..Len(s) PROVE s[k].reverse >= s[k \div 2].reverse
  <2>1. k \div 2 \in 1..Len(s)
    BY <1>0, <1>1, Parent
  <2> QED
    BY <1>0, <1>1, <2>1 DEF lessThan
<1> QED
  BY <1>1 DEF UpHeap, Heap, Later

\* Pop and Rob put the last item into the hole.  If this is the root, or if
\* the queue was so short that the parent of the hole is above the last slot,
\* the item is not too early for its new place.
LEMMA RemoveHeap ==
  ASSUME NEW s \in Seq(Item), NEW k \in 1..Len(s), Heap(s), k = 1 \/ Len(s) <= RobSafeSize
  PROVE  DownHeap(Removed(s, k), k)
<1> DEFINE u == Removed(s, k)
           n == Len(s) - 1
<1>0. Len(s) \in Nat /\ \A i \in 1..Len(s) : s[i].reverse \in Nat
  BY SlotType
<1>1. Len(u) = n /\ \A i \in 1..n : u[i] = IF i = k THEN s[Len(s)] ELSE s[i]
  BY RemoveSlotLemma
<1>2. \A i \in 2..n : /\ i \in 2..Len(s) /\ i \in 1..n
                      /\ i \div 2 \in 1..n /\ i \div 2 \in 1..Len(s) /\ i \div 2 < i
  BY <1>0, Parent
<1> HIDE DEF u
<1>3. \A i \in 2..Len(s) : s[i].reverse >= s[i \div 2].reverse
  BY DEF Heap, Later
<1>4. ASSUME NEW i \in 2..n, i \div 2 # k PROVE u[i].reverse >= u[i \div 2].reverse
  <2>1. CASE i # k
    BY <1>1, <1>2, <1>3, <1>4, <2>1
  <2>2. CASE i = k
    <3>1. s[Len(s)].reverse >= s[k \div 2].reverse
      <4>1. k \in 2..4 /\ Len(s) \in 3..5 /\ k < Len(s)
        <5>1. ASSUME NEW m \in Nat, NEW j \in 2..(m - 1), m <= 5
              PROVE  j \in 2..4 /\ m \in 3..5 /\ j < m
          BY <5>1
        <5>2. Len(s) <= 5 /\ k \in 2..(Len(s) - 1)
          BY <1>0, <1>4, <2>2 DEF RobSafeSize
        <5> QED
          BY <1>0, <5>1, <5>2
      <4>2. /\ 2 \div 2 = 1 /\ 3 \div 2 = 1 /\ 4 \div 2 = 2 /\ 5 \div 2 = 2
        OBVIOUS
      <4>3. /\ s[2].reverse >= s[1].reverse /\ s[3].reverse >= s[1].reverse
            /\ Len(s) >= 4 => s[4].reverse >= s[2].reverse
            /\ Len(s) = 5 => s[5].reverse >= s[2].reverse
        <5>1. 2 \in 2..Len(s) /\ 3 \in 2..Len(s)
          BY <4>1
        <5>2. Len(s) >= 4 => 4 \in 2..Len(s)
          BY <4>1
        <5>3. Len(s) = 5 => 5 \in 2..Len(s)
          BY <4>1
        <5> QED
          BY <1>3, <4>2, <5>1, <5>2, <5>3
      <4>4. /\ s[1].reverse \in Nat /\ s[2].reverse \in Nat /\ s[3].reverse \in Nat
            /\ s[Len(s)].reverse \in Nat
        BY <1>0, <4>1
      <4>5. CASE k = 2 \/ k = 3
        <5>1. Len(s) = 3 \/ Len(s) = 4 \/ Len(s) = 5
          BY <4>1
        <5>2. s[Len(s)].reverse >= s[1].reverse
          BY <4>3, <4>4, <5>1
        <5> QED
          BY <4>2, <4>5, <5>2
      <4>6. CASE k = 4
        BY <4>1, <4>2, <4>3, <4>6
      <4> QED
        BY <4>1, <4>5, <4>6
    <3> QED
      BY <1>1, <1>2, <1>4, <2>2, <3>1
  <2> QED
    BY <2>1, <2>2
<1>5. ASSUME NEW i \in 2..n, i \div 2 = k, k > 1 PROVE u[i].reverse >= u[k \div 2].reverse
  <2>1. /\ i # k /\ k \in 2..n /\ k \in 2..Len(s) /\ k \in 1..Len(s)
        /\ k \div 2 \in 1..n /\ k \div 2 # k /\ k \div 2 \in 1..Len(s)
    BY <1>0, <1>2, <1>5
  <2>2. u[i] = s[i] /\ u[k \div 2] = s[k \div 2]
    BY <1>1, <1>2, <1>5, <2>1
  <2>3. s[i].reverse >= s[k].reverse /\ s[k].reverse >= s[k \div 2].reverse
    BY <1>2, <1>3, <1>5, <2>1
  <2>4. s[i].reverse \in Nat /\ s[k].reverse \in Nat /\ s[k \div 2].reverse \in Nat
    BY <1>0, <1>2, <1>5, <2>1
  <2> QED
    BY <2>2, <2>3, <2>4
<1>6. DownHeap(u, k)
  BY <1>1, <1>4, <1>5 DEF DownHeap, Later
<1> QED
  BY <1>6 DEF u

\* A queue of one item, or none, is in order however it came about.
LEMMA ShortHeap ==
  ASSUME NEW s \in Seq(Item), Len(s) <= 1, NEW k
  PROVE  DownHeap(s, k)
BY SlotType DEF DownHeap

\* c is the earliest child of k.
EarlyChild(s, k, c) ==
  /\ c \in 2..Len(s) /\ c \div 2 = k
  /\ \A i \in 2..Len(s) : i \div 2 = k => Later(s, i, c)

\* One iteration of bubbleDown.
LEMMA DownStep ==
  ASSUME NEW s \in Seq(Item), NEW k \in 1..Len(s), NEW c, EarlyChild(s, k, c),
         DownHeap(s, k), lessThan(s[c], s[k])
  PROVE  DownHeap(swap(s, k, c), c)
<1> DEFINE u == swap(s, k, c)
<1>0. Len(s) \in Nat /\ \A i \in 1..Len(s) : s[i].reverse \in Nat
  BY SlotType
<1>1. c \in 2..Len(s) /\ c \in 1..Len(s) /\ c \div 2 = k /\ k < c /\ k # c
  BY <1>0, Parent DEF EarlyChild
<1>2. \A i \in 2..Len(s) : i \in 1..Len(s) /\ i \div 2 \in 1..Len(s) /\ i \div 2 < i
  BY <1>0, Parent
<1>3. s[c].reverse < s[k].reverse
  BY DEF lessThan
<1>4. /\ Len(u) = Len(s) /\ u[k] = s[c] /\ u[c] = s[k]
      /\ \A i \in 1..Len(s) : i \notin {k, c} => u[i] = s[i]
  BY <1>1, SwapLemma
<1> HIDE DEF u
<1>5. \A i \in 2..Len(s) : i \div 2 # k => s[i].reverse >= s[i \div 2].reverse
  BY DEF DownHeap, Later
<1>6. \A i \in 2..Len(s) : i \div 2 = k /\ k > 1 => s[i].reverse >= s[k \div 2].reverse
  BY DEF DownHeap, Later
<1>7. \A i \in 2..Len(s) : i \div 2 = k => s[i].reverse >= s[c].reverse
  BY DEF EarlyChild, Later
<1>8. ASSUME NEW i \in 2..Len(s), i \div 2 # c PROVE u[i].reverse >= u[i \div 2].reverse
  <2>1. CASE i = k
    <3>1. k > 1 /\ k \div 2 \in 1..Len(s) /\ k \div 2 \notin {k, c}
      BY <1>1, <1>2, <1>8, <2>1
    <3> QED
      BY <1>1, <1>4, <1>6, <2>1, <3>1
  <2>2. CASE i = c
    BY <1>0, <1>1, <1>3, <1>4, <2>2
  <2>3. CASE i \notin {k, c} /\ i \div 2 = k
    BY <1>2, <1>4, <1>7, <1>8, <2>3
  <2>4. CASE i \notin {k, c} /\ i \div 2 # k
    BY <1>2, <1>4, <1>5, <1>8, <2>4
  <2> QED
    BY <2>1, <2>2, <2>3, <2>4
<1>9. ASSUME NEW i \in 2..Len(s), i \div 2 = c PROVE u[i].reverse >= u[c \div 2].reverse
  <2>1. i \notin {k, c} /\ i \div 2 # k
    BY <1>1, <1>2, <1>9
  <2>2. u[i] = s[i] /\ u[c \div 2] = s[c]
    BY <1>1, <1>2, <1>4, <1>9, <2>1
  <2> QED
    BY <1>5, <1>9, <2>1, <2>2
<1>10. DownHeap(u, c)
  BY <1>4, <1>8, <1>9 DEF DownHeap, Later
<1> QED
  BY <1>10 DEF u

\* The end of bubbleDown: a leaf, or no child is earlier.
LEMMA DownEnd ==
  ASSUME NEW s \in Seq(Item), NEW k \in Nat \ {0}, DownHeap(s, k),
         \A i \in 2..Len(s) : i \div 2 = k => Later(s, i, k)
  PROVE  Heap(s)
BY DEF DownHeap, Heap, Later

\* The root of a heap is an earliest item.
LEMMA RootEarliest ==
  ASSUME NEW s \in Seq(Item), Heap(s), NEW i \in 1..Len(s)
  PROVE  s[1].reverse <= s[i].reverse
<1>0. Len(s) \in Nat /\ \A j \in 1..Len(s) : s[j].reverse \in Nat
  BY SlotType
<1> DEFINE S == {j \in 1..Len(s) : ~(s[1].reverse <= s[j].reverse)}
<1>1. SUFFICES ASSUME S # {} PROVE FALSE
  OBVIOUS
<1>2. S \in SUBSET Nat
  BY <1>0
<1>3. PICK j \in S : \A m \in S : j <= m
  BY <1>1, <1>2, LeastNumber
<1>4. j \in 2..Len(s)
  BY <1>0, <1>3
<1>5. j \div 2 \in 1..Len(s) /\ j \div 2 < j /\ j \div 2 \in Nat
  BY <1>0, <1>4, Parent
<1>6. j \div 2 \notin S
  BY <1>3, <1>5
<1>7. s[j].reverse >= s[j \div 2].reverse
  BY <1>4 DEF Heap, Later
<1> QED
  BY <1>0, <1>3, <1>5, <1>6, <1>7
-----------------------------------------------------------------------------
(* The inductive invariant *)

TypeInv ==
  /\ slots \in Seq(Item)
  /\ capacity \in Nat \ {0}
  /\ loop \in {"none", "up", "down"}
  /\ index \in Nat
  /\ loop = "up" => index \in 1..size
  /\ loop = "down" => index > 0
  /\ ordered \in BOOLEAN

\* The array is full only until Push makes it grow.
RoomInv == IF loop = "up" THEN size <= capacity ELSE size < capacity

HeapInv ==
  ordered => /\ loop = "none" => Heap(slots)
             /\ loop = "up" => UpHeap(slots, index)
             /\ loop = "down" => DownHeap(slots, index)

IInv == TypeInv /\ Distinct(slots) /\ RoomInv /\ HeapInv

LEMMA InitInv == Init => IInv
<1> SUFFICES ASSUME Init PROVE IInv
  OBVIOUS
<1>1. slots \in Seq(Item) /\ Len(slots) = 0
  BY EmptySeq DEF Init
<1> QED
  BY <1>1, QueueAssumption DEF Init, IInv, TypeInv, RoomInv, HeapInv, Distinct, Heap, size

\* minChild is the earliest child of the slot at index, if that has any.
LEMMA MinChildLemma ==
  ASSUME TypeInv, index > 0
  PROVE  /\ minChild # 0 => EarlyChild(slots, index, minChild)
         /\ minChild = 0 => \A i \in 2..size : i \div 2 # index
<1>0. /\ slots \in Seq(Item) /\ size = Len(slots) /\ size \in Nat /\ index \in Nat
      /\ \A i \in 1..size : slots[i].reverse \in Nat
  BY SlotType DEF TypeInv, size
<1> DEFINE l == 2 * index
           r == 2 * index + 1
<1>1. /\ l \div 2 = index /\ r \div 2 = index /\ r = l + 1 /\ l \in Nat /\ r \in Nat /\ l >= 2
  BY <1>0, Child
<1>2. \A i \in 2..size : i \div 2 = index => i = l \/ i = r
  BY <1>0, Parent
<1>3. /\ r <= size => minChild = IF lessThan(slots[l], slots[r]) THEN l ELSE r
      /\ l = size => minChild = l
      /\ l > size => minChild = 0
  BY <1>0, <1>1 DEF minChild
<1> HIDE DEF l, r
<1>4. CASE r <= size
  <2>1. l \in 2..size /\ r \in 2..size /\ slots[l].reverse \in Nat /\ slots[r].reverse \in Nat
    BY <1>0, <1>1, <1>4
  <2>2. minChild \in {l, r} /\ Later(slots, l, minChild) /\ Later(slots, r, minChild)
    BY <1>3, <1>4, <2>1 DEF lessThan, Later
  <2>3. EarlyChild(slots, index, minChild)
    BY <1>0, <1>1, <1>2, <2>1, <2>2 DEF EarlyChild
  <2> QED
    BY <1>1, <2>2, <2>3
<1>5. CASE l = size
  <2>1. l \in 2..size /\ slots[l].reverse \in Nat
    BY <1>0, <1>1, <1>5
  <2>2. \A i \in 2..size : i \div 2 = index => i = l
    BY <1>0, <1>1, <1>2, <1>5
  <2>3. EarlyChild(slots, index, l)
    BY <1>0, <1>1, <2>1, <2>2 DEF EarlyChild, Later
  <2> QED
    BY <1>1, <1>3, <1>5, <2>3
<1>6. CASE l > size
  BY <1>0, <1>1, <1>2, <1>3, <1>6
<1> QED
  BY <1>0, <1>1, <1>4, <1>5, <1>6

\* Pop and Rob, once they have found the slot.
LEMMA RemoveInv ==
  ASSUME IInv, loop = "none", NEW k \in 1..size,
         slots' = removeSlot(k), Begin("down", k), capacity' = capacity,
         \/ k = 1 /\ ordered' = OrderedAfterPop(Range(slots'), ordered)
         \/ ordered' = OrderedAfterRob(Range(slots'), ordered)
  PROVE  IInv' /\ Range(slots') = Range(slots) \ {slots[k]}
<1>0. slots \in Seq(Item) /\ Distinct(slots) /\ size = Len(slots) /\ size \in Nat /\ size < capacity
  BY SlotType DEF IInv, TypeInv, RoomInv, size
<1>1. slots' = Removed(slots, k)
  BY <1>0 DEF removeSlot, Removed
<1>2. /\ slots' \in Seq(Item) /\ size' = size - 1 /\ Distinct(slots')
      /\ Range(slots') = Range(slots) \ {slots[k]}
  BY <1>0, <1>1, RemoveSlotLemma DEF size
<1>3. Cardinality(Range(slots')) = size'
  BY <1>2, CardinalityLemma DEF size
<1>4. ordered' => DownHeap(slots', k)
  <2>1. CASE size' <= 1
    BY <1>2, <2>1, ShortHeap DEF size
  <2>2. CASE ~(size' <= 1)
    <3>1. ASSUME ordered' PROVE ordered /\ (k = 1 \/ size <= RobSafeSize)
      <4>1. ~(Cardinality(Range(slots')) <= 1)
        BY <1>3, <2>2
      <4>2. Cardinality(Range(slots')) < RobSafeSize => size <= RobSafeSize
        BY <1>0, <1>2, <1>3 DEF RobSafeSize
      <4> QED
        BY <3>1, <4>1, <4>2, Zenon DEF OrderedAfterPop, OrderedAfterRob
    <3>2. ordered => Heap(slots)
      BY DEF IInv, HeapInv
    <3> QED
      BY <1>0, <1>1, <3>1, <3>2, RemoveHeap
  <2> QED
    BY <2>1, <2>2
<1>5. ordered' \in BOOLEAN
  BY DEF OrderedAfterPop, OrderedAfterRob, IInv, TypeInv
<1>6. loop' = "down" /\ index' = k /\ k \in Nat /\ k > 0
  BY <1>0 DEF Begin
<1>7. TypeInv'
  BY <1>2, <1>5, <1>6 DEF TypeInv, IInv
<1>8. RoomInv' /\ HeapInv'
  BY <1>0, <1>2, <1>4, <1>6 DEF RoomInv, HeapInv, IInv, TypeInv
<1> QED
  BY <1>2, <1>7, <1>8 DEF IInv

\* Rob and Find stop at a slot with the id asked for.
LEMMA FirstLemma ==
  ASSUME NEW id, SlotsOf(id) # {}
  PROVE  First(SlotsOf(id)) \in 1..size /\ slots[First(SlotsOf(id))].res = id
<1>1. SlotsOf(id) \in SUBSET Nat
  BY DEF SlotsOf
<1>2. \E i \in SlotsOf(id) : \A j \in SlotsOf(id) : i <= j
  BY <1>1, LeastNumber
<1>3. First(SlotsOf(id)) \in SlotsOf(id)
  BY <1>2 DEF First
<1> QED
  BY <1>3 DEF SlotsOf

LEMMA PushInv ==
  ASSUME IInv, NEW r \in Res \ ResOf(Range(slots)), NEW t \in Times,
         Push([res |-> r, reverse |-> t])
  PROVE  IInv' /\ Range(slots') = Range(slots) \cup {[res |-> r, reverse |-> t]}
<1> DEFINE i == [res |-> r, reverse |-> t]
<1>0. slots \in Seq(Item) /\ Distinct(slots) /\ size = Len(slots) /\ size \in Nat /\ size < capacity
  BY SlotType DEF IInv, TypeInv, RoomInv, size, Push
<1>1. i \in Item /\ i.res = r
  BY QueueAssumption DEF Item
<1>2. slots' = Append(slots, i) /\ UNCHANGED <<capacity, ordered>> /\ loop = "none"
  BY DEF Push
<1> HIDE DEF i
<1>3. /\ slots' \in Seq(Item) /\ size' = size + 1 /\ slots'[size + 1] = i
      /\ \A j \in 1..size : slots'[j] = slots[j]
  BY <1>0, <1>1, <1>2, AppendProperties DEF size
<1>4. Range(slots) = {slots[j] : j \in 1..size} /\ Range(slots') = {slots'[j] : j \in 1..(size + 1)}
  BY <1>0, <1>3, SlotType DEF Range, size
<1>5. \A j \in 1..size : slots[j].res # r
  BY <1>4 DEF ResOf
<1>6. Distinct(slots')
  <2> SUFFICES ASSUME NEW j \in 1..size', NEW k \in 1..size', slots'[j].res = slots'[k].res
               PROVE  j = k
    BY DEF Distinct, size
  <2>1. \A m \in 1..size' : m \in 1..size \/ m = size + 1
    BY <1>0, <1>3
  <2> QED
    BY <1>0, <1>1, <1>3, <1>5, <2>1 DEF Distinct
<1>7. Range(slots') = Range(slots) \cup {i}
  <2>1. \A m \in 1..(size + 1) : m \in 1..size \/ m = size + 1
    BY <1>0
  <2>2. size + 1 \in 1..(size + 1) /\ \A m \in 1..size : m \in 1..(size + 1)
    BY <1>0
  <2>3. ASSUME NEW e \in Range(slots') PROVE e \in Range(slots) \cup {i}
    BY <1>3, <1>4, <2>1, <2>3
  <2>4. ASSUME NEW e \in Range(slots) \cup {i} PROVE e \in Range(slots')
    BY <1>3, <1>4, <2>2, <2>4
  <2> QED
    BY <2>3, <2>4
<1>8. loop' = "up" /\ index' = size + 1 /\ index' \in Nat /\ index' \in 1..size'
  BY <1>0, <1>3 DEF Push, Begin
<1>9. TypeInv'
  BY <1>2, <1>3, <1>8 DEF TypeInv, IInv
<1>10. RoomInv'
  BY <1>0, <1>2, <1>3, <1>8 DEF RoomInv, IInv, TypeInv
<1>11. ordered => UpHeap(slots', size + 1)
  BY <1>0, <1>1, <1>2, PushHeap DEF IInv, HeapInv, size
<1>12. HeapInv'
  BY <1>2, <1>8, <1>11 DEF HeapInv
<1> QED
  BY <1>6, <1>7, <1>9, <1>10, <1>12 DEF IInv, i

LEMMA UpInv ==
  ASSUME IInv, bubbleUp
  PROVE  IInv' /\ Range(slots') = Range(slots)
<1>0. /\ slots \in Seq(Item) /\ Distinct(slots) /\ size = Len(slots) /\ size \in Nat
      /\ index \in 1..size /\ loop = "up" /\ size <= capacity /\ capacity \in Nat \ {0}
      /\ ordered' = ordered /\ ordered \in BOOLEAN
  BY SlotType DEF IInv, TypeInv, RoomInv, size, bubbleUp
<1>1. ordered => UpHeap(slots, index)
  BY <1>0 DEF IInv, HeapInv
<1>2. CASE index > 1 /\ lessThan(slots[index], slots[index \div 2])
  <2>1. /\ slots' = swap(slots, index, index \div 2) /\ loop' = "up" /\ index' = index \div 2
        /\ capacity' = capacity
    BY <1>2 DEF bubbleUp, Begin
  <2>2. index \in 2..size /\ index \div 2 \in 1..size /\ index # index \div 2 /\ index \div 2 \in Nat
    BY <1>0, <1>2, Parent
  <2>3. slots' \in Seq(Item) /\ size' = size
    BY <1>0, <2>1, <2>2, SwapLemma DEF size
  <2>4. Distinct(slots') /\ Range(slots') = Range(slots)
    BY <1>0, <2>1, <2>2, SwapKeeps
  <2>5. ordered => UpHeap(slots', index')
    BY <1>0, <1>1, <1>2, <2>1, <2>2, UpStep
  <2> QED
    BY <1>0, <2>1, <2>2, <2>3, <2>4, <2>5 DEF IInv, TypeInv, RoomInv, HeapInv
<1>3. CASE ~(index > 1 /\ lessThan(slots[index], slots[index \div 2]))
  <2>1. slots' = slots /\ loop' = "none" /\ index' = 0 /\ capacity' = grown
    BY <1>3 DEF bubbleUp, End, Begin
  <2>2. size' = size /\ size < grown /\ grown \in Nat \ {0}
    BY <1>0, <2>1 DEF grown, size
  <2>3. ordered => Heap(slots)
    BY <1>0, <1>1, <1>3, UpEnd
  <2> QED
    BY <1>0, <2>1, <2>2, <2>3 DEF IInv, TypeInv, RoomInv, HeapInv
<1> QED
  BY <1>2, <1>3

LEMMA DownInv ==
  ASSUME IInv, bubbleDown
  PROVE  IInv' /\ Range(slots') = Range(slots)
<1>0. /\ slots \in Seq(Item) /\ Distinct(slots) /\ size = Len(slots) /\ size \in Nat
      /\ index \in Nat /\ index > 0 /\ loop = "down" /\ size < capacity /\ capacity \in Nat \ {0}
      /\ UNCHANGED <<ordered, capacity>> /\ ordered \in BOOLEAN
  BY SlotType DEF IInv, TypeInv, RoomInv, size, bubbleDown
<1>1. ordered => DownHeap(slots, index)
  BY <1>0 DEF IInv, HeapInv
<1>2. /\ minChild # 0 => EarlyChild(slots, index, minChild)
      /\ minChild = 0 => \A i \in 2..size : i \div 2 # index
  BY <1>0, MinChildLemma DEF IInv
<1>3. CASE index <= size /\ minChild # 0 /\ lessThan(slots[minChild], slots[index])
  <2>1. slots' = swap(slots, index, minChild) /\ loop' = "down" /\ index' = minChild
    BY <1>3 DEF bubbleDown, Begin
  <2>2. EarlyChild(slots, index, minChild)
    BY <1>2, <1>3
  <2>3. index \in 1..size /\ minChild \in 1..size /\ minChild # index /\ minChild \in Nat
    BY <1>0, <1>3, <2>2, Parent DEF EarlyChild
  <2>4. slots' \in Seq(Item) /\ size' = size
    BY <1>0, <2>1, <2>3, SwapLemma DEF size
  <2>5. Distinct(slots') /\ Range(slots') = Range(slots)
    BY <1>0, <2>1, <2>3, SwapKeeps
  <2>6. ordered => DownHeap(slots', index')
    BY <1>0, <1>1, <1>3, <2>1, <2>2, <2>3, DownStep
  <2> QED
    BY <1>0, <2>1, <2>3, <2>4, <2>5, <2>6 DEF IInv, TypeInv, RoomInv, HeapInv
<1>4. CASE ~(index <= size /\ minChild # 0 /\ lessThan(slots[minChild], slots[index]))
  <2>1. slots' = slots /\ loop' = "none" /\ index' = 0 /\ size' = size
    BY <1>4 DEF bubbleDown, End, Begin, size
  <2>2. \A i \in 2..size : i \div 2 = index => Later(slots, i, index)
    <3> SUFFICES ASSUME NEW i \in 2..size, i \div 2 = index PROVE Later(slots, i, index)
      OBVIOUS
    <3>1. index \in 1..size /\ i \in 1..size
      BY <1>0, Parent
    <3>2. minChild # 0
      BY <1>2
    <3>3. minChild \in 1..size /\ Later(slots, i, minChild)
      BY <1>0, <1>2, <3>2 DEF EarlyChild
    <3>4. ~lessThan(slots[minChild], slots[index])
      BY <1>0, <1>4, <3>1, <3>2
    <3>5. /\ slots[i].reverse \in Nat /\ slots[index].reverse \in Nat
          /\ slots[minChild].reverse \in Nat
      BY <1>0, <3>1, <3>3, SlotType
    <3> QED
      BY <3>3, <3>4, <3>5 DEF Later, lessThan
  <2>3. ordered => Heap(slots)
    BY <1>0, <1>1, <2>2, DownEnd
  <2> QED
    BY <1>0, <2>1, <2>3 DEF IInv, TypeInv, RoomInv, HeapInv
<1> QED
  BY <1>3, <1>4

LEMMA StepInv == IInv /\ [Next]_vars => IInv'
<1> SUFFICES ASSUME IInv, [Next]_vars PROVE IInv'
  OBVIOUS
<1>1. ASSUME UNCHANGED <<slots, capacity, loop, index, ordered>> PROVE IInv'
  BY <1>1 DEF IInv, TypeInv, RoomInv, HeapInv, size
<1>2. ASSUME NEW r \in Res \ ResOf(Range(slots)), NEW t \in Times,
             Push([res |-> r, reverse |-> t])
      PROVE  IInv'
  BY <1>2, PushInv
<1>3. CASE Pop
  <2>1. CASE size = 0
    BY <1>1, <1>3, <2>1 DEF Pop
  <2>2. CASE size # 0
    <3>1. 1 \in 1..size
      BY <2>2, SlotType DEF IInv, TypeInv, size
    <3> QED
      BY <1>3, <2>2, <3>1, RemoveInv DEF Pop
  <2> QED
    BY <2>1, <2>2
<1>4. ASSUME NEW id \in Res, Rob(id) PROVE IInv'
  <2>1. CASE SlotsOf(id) = {}
    BY <1>1, <1>4, <2>1 DEF Rob
  <2>2. CASE SlotsOf(id) # {}
    <3>1. First(SlotsOf(id)) \in 1..size
      BY <2>2, FirstLemma
    <3> QED
      BY <1>4, <2>2, <3>1, RemoveInv DEF Rob
  <2> QED
    BY <2>1, <2>2
<1>5. CASE Peek \/ \E id \in Res : Find(id)
  BY <1>1, <1>5 DEF Peek, Find
<1>6. CASE bubbleUp \/ bubbleDown
  BY <1>6, UpInv, DownInv
<1>7. CASE UNCHANGED vars
  BY <1>1, <1>7 DEF vars
<1> QED
  BY <1>2, <1>3, <1>4, <1>5, <1>6, <1>7 DEF Next
-----------------------------------------------------------------------------
(* The theorems *)

LEMMA Inductive == Spec => []IInv
  BY InitInv, StepInv, PTL DEF Spec

\* Whatever sequence of Push, Pop and Rob led here, and however long the queue
\* is, the loops of queue.go leave a heap, if no Rob took an item out of a
\* queue of more than RobSafeSize items since it last had one item or none.
THEOREM HeapAlwaysOrdered == Spec => []HeapOrdered
<1>1. IInv => HeapOrdered
  BY DEF IInv, HeapInv, HeapOrdered, Heap, Later, IsHeap, size
<1> QED
  BY <1>1, Inductive, PTL

\* Push always finds a free slot in the array, whatever its first length.
THEOREM AlwaysRoomToPush == Spec => []RoomToPush
<1>1. IInv => RoomToPush
  BY DEF IInv, RoomInv, RoomToPush
<1> QED
  BY <1>1, Inductive, PTL

\* Between operations the root is among the items that Peek and Pop may
\* return.
LEMMA RootIsHead ==
  ASSUME IInv, loop = "none", size # 0
  PROVE  slots[1] \in Heads(Range(slots), ordered)
<1>1. slots \in Seq(Item) /\ size = Len(slots) /\ size \in Nat /\ (ordered => Heap(slots))
  BY SlotType DEF IInv, TypeInv, HeapInv, size
<1>2. Range(slots) = {slots[i] : i \in 1..size} /\ 1 \in 1..size
  BY <1>1, SlotType DEF Range
<1>3. ASSUME ordered PROVE slots[1] \in Earliest(Range(slots))
  BY <1>1, <1>2, <1>3, RootEarliest DEF Earliest
<1>4. slots[1] \in Range(slots)
  BY <1>2
<1> QED
  BY <1>3, <1>4 DEF Heads

\* The operators of IdleQueue are the same in the abstract queue.
LEMMA SameOperators ==
  \A q, ord, id : /\ Abstract!Heads(q, ord) = Heads(q, ord)
                  /\ Abstract!Robbable(q, id) = Robbable(q, id)
                  /\ Abstract!ResOf(q) = ResOf(q)
                  /\ Abstract!OrderedAfterPop(q, ord) = OrderedAfterPop(q, ord)
                  /\ Abstract!OrderedAfterRob(q, ord) = OrderedAfterRob(q, ord)
<1>1. \A q : Abstract!Cardinality(q) = Cardinality(q)
  BY DEF Cardinality, Abstract!Cardinality
<1>2. \A q, ord : Abstract!Heads(q, ord) = Heads(q, ord)
  BY DEF Heads, Abstract!Heads, Earliest, Abstract!Earliest
<1>3. \A q, id : Abstract!Robbable(q, id) = Robbable(q, id) /\ Abstract!ResOf(q) = ResOf(q)
  BY DEF Robbable, Abstract!Robbable, ResOf, Abstract!ResOf
<1>4. \A q, ord : Abstract!OrderedAfterPop(q, ord) = OrderedAfterPop(q, ord)
  BY <1>1 DEF OrderedAfterPop, Abstract!OrderedAfterPop
<1>5. \A q, ord : Abstract!OrderedAfterRob(q, ord) = OrderedAfterRob(q, ord)
  BY <1>1 DEF OrderedAfterRob, Abstract!OrderedAfterRob, RobSafeSize, Abstract!RobSafeSize
<1> QED
  BY <1>2, <1>3, <1>4, <1>5

LEMMA ImplementsStep == IInv /\ [Next]_vars => [Abstract!Next]_(Abstract!vars)
<1> SUFFICES ASSUME IInv, [Next]_vars PROVE [Abstract!Next]_(Abstract!vars)
  OBVIOUS
<1>0. slots \in Seq(Item) /\ size = Len(slots) /\ size \in Nat
  BY SlotType DEF IInv, TypeInv, size
<1>1. Range(slots) = {slots[i] : i \in 1..size}
  BY <1>0, SlotType DEF Range
<1>2. ASSUME NEW r \in Res \ ResOf(Range(slots)), NEW t \in Times,
             Push([res |-> r, reverse |-> t])
      PROVE  Abstract!Next
  <2> DEFINE i == [res |-> r, reverse |-> t]
  <2>1. Range(slots') = Range(slots) \cup {i}
    BY <1>2, PushInv
  <2>2. Abstract!Push(i)
    BY <1>2, <2>1, SameOperators DEF Push, Abstract!Push
  <2> QED
    BY <2>1, <2>2, SameOperators DEF Abstract!Next
<1>3. CASE Pop
  <2>1. CASE size = 0
    BY <1>0, <1>1, <1>3, <2>1, SameOperators DEF Pop, Abstract!Next, Abstract!Pop
  <2>2. CASE size # 0
    <3>1. 1 \in 1..size
      BY <1>0, <2>2
    <3>2. Range(slots') = Range(slots) \ {slots[1]}
      BY <1>3, <2>2, <3>1, RemoveInv DEF Pop
    <3>3. slots[1] \in Heads(Range(slots), ordered)
      BY <1>3, <2>2, RootIsHead DEF Pop
    <3> QED
      BY <1>3, <2>2, <3>2, <3>3, SameOperators DEF Pop, Abstract!Next, Abstract!Pop
  <2> QED
    BY <2>1, <2>2
<1>4. ASSUME NEW id \in Res, Rob(id) PROVE Abstract!Next
  <2>1. CASE SlotsOf(id) = {}
    <3>1. Robbable(Range(slots), id) = {}
      BY <1>1, <2>1 DEF Robbable, SlotsOf
    <3> QED
      BY <1>4, <2>1, <3>1, SameOperators DEF Rob, Abstract!Next, Abstract!Rob
  <2>2. CASE SlotsOf(id) # {}
    <3> DEFINE k == First(SlotsOf(id))
    <3>1. k \in 1..size /\ slots[k].res = id
      BY <2>2, FirstLemma
    <3>2. Range(slots') = Range(slots) \ {slots[k]}
      BY <1>4, <2>2, <3>1, RemoveInv DEF Rob
    <3>3. slots[k] \in Robbable(Range(slots), id)
      BY <1>1, <3>1 DEF Robbable
    <3>4. out' = slots[k] /\ ordered' = OrderedAfterRob(Range(slots'), ordered)
      BY <1>4, <2>2 DEF Rob
    <3> QED
      BY <3>2, <3>3, <3>4, SameOperators DEF Abstract!Next, Abstract!Rob
  <2> QED
    BY <2>1, <2>2
<1>5. CASE Peek
  <2>1. CASE size = 0
    BY <1>0, <1>1, <1>5, <2>1, SameOperators DEF Peek, Abstract!Next, Abstract!Look
  <2>2. CASE size # 0
    BY <1>5, <2>2, RootIsHead, SameOperators DEF Peek, Abstract!Next, Abstract!Look
  <2> QED
    BY <2>1, <2>2
<1>6. ASSUME NEW id \in Res, Find(id) PROVE Abstract!Next
  <2>1. CASE SlotsOf(id) = {}
    <3>1. Robbable(Range(slots), id) = {}
      BY <1>1, <2>1 DEF Robbable, SlotsOf
    <3> QED
      BY <1>6, <2>1, <3>1, SameOperators DEF Find, Abstract!Next, Abstract!Look
  <2>2. CASE SlotsOf(id) # {}
    <3>1. slots[First(SlotsOf(id))] \in Robbable(Range(slots), id)
      BY <1>1, <2>2, FirstLemma DEF Robbable
    <3> QED
      BY <1>6, <2>2, <3>1, SameOperators DEF Find, Abstract!Next, Abstract!Look
  <2> QED
    BY <2>1, <2>2
<1>7. CASE bubbleUp \/ bubbleDown
  <2>1. Range(slots') = Range(slots)
    BY <1>7, UpInv, DownInv
  <2> QED
    BY <1>7, <2>1 DEF bubbleUp, bubbleDown, Abstract!vars
<1>8. CASE UNCHANGED vars
  BY <1>8 DEF vars, Abstract!vars
<1> QED
  BY <1>2, <1>3, <1>4, <1>5, <1>6, <1>7, <1>8 DEF Next

\* The heap implements the idle queue that the pool is modelled with, however
\* long it grows: no operation loses or invents an item, and while the order
\* is known to hold Pop and Peek return an earliest one.
THEOREM HeapImplementsIdleQueue == Spec => ImplementsIdleQueue
<1>1. Init => Abstract!Init
  <2> SUFFICES ASSUME Init PROVE Range(slots) = {}
    BY DEF Init, Abstract!Init
  <2>1. DOMAIN slots = {}
    BY EmptySeq DEF Init
  <2> QED
    BY <2>1 DEF Range
<1> QED
  BY <1>1, Inductive, ImplementsStep, PTL DEF Spec, ImplementsIdleQueue, Abstract!Spec
=============================================================================
