SPECIFICATION Spec
CONSTANTS
  Res = {p1, p2, p3}
  InitialPorts = {p1, p2}
  Callers = {c1, c2}
  NoRes = NoRes
  IPof <- OwnAddress
  Faults = {}
  cfgMinIdle = 0
  cfgMaxIdle = 1
  cfgCapacity = 2
  StickTimes = {0, 1}
  MaxTime = 1
INVARIANT NeverAfterNow
CHECK_DEADLOCK FALSE
