SPECIFICATION FairSpec
CONSTANTS
  Res = {p1, p2, p3}
  InitialPorts = {p1, p2}
  Callers = {c1, c2}
  NoRes = NoRes
  IPof <- OwnAddress
  Faults = {"create", "delete"}
  cfgMinIdle = 0
  cfgMaxIdle = 1
  cfgCapacity = 1
  StickTimes = {0, 1}
  MaxTime = 1
PROPERTY AcquireReturns
CHECK_DEADLOCK FALSE
