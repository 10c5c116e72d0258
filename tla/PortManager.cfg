SPECIFICATION MgrSpec
CONSTANTS
  p1 = p1
  p2 = p2
  p3 = p3
  a1 = a1
  a2 = a2
  Res = {p1, p2, p3}
  InitialPorts = {p1}
  Callers = {c1, c2}
  NoRes = NoRes
  NoIP = NoIP
  StaticIPs = {a1, a2}
  IPof <- SharedAddress
  Faults = {"create", "orphan", "delete", "lost"}
  cfgMinIdle = 0
  cfgMaxIdle = 1
  cfgCapacity = 1
  StickTimes = {0}
  MaxTime = 0
INVARIANTS MgrTypeOK OneOwner TokenBalance NoPortLeaked
PROPERTY ImplementsPortPool
SYMMETRY Symmetry
CHECK_DEADLOCK FALSE
