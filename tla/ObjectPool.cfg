SPECIFICATION Spec
CONSTANTS
  Res = {p1, p2, p3, p4, p5}
  InitialPorts = {p1, p2, p3}
  Callers = {c1, c2}
  NoRes = NoRes
  IPof <- OwnAddress
  Faults = {"create", "orphan", "delete", "lost"}
  cfgMinIdle = 1
  cfgMaxIdle = 1
  cfgCapacity = 2
  StickTimes = {0, 1}
  MaxTime = 1
INVARIANTS TypeOK OneOwner TokenBalance WithinCapacity AtMostOneDeadPort
PROPERTIES InUseNeverDeleted ImplementsPortPool
SYMMETRY Symmetry
CHECK_DEADLOCK FALSE
