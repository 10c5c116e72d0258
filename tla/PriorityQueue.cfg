SPECIFICATION Spec
CONSTANTS
  Res = {r1, r2, r3, r4, r5, r6}
  NoItem = NoItem
  Times = {0, 1, 2}
  InitialCapacity = 2
  MaxSize = 6
INVARIANTS HeapOrdered RoomToPush
PROPERTY ImplementsIdleQueue
SYMMETRY Symmetry
