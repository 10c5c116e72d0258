SPECIFICATION MgrSpec
CONSTANTS
  p1 = p1
  p2 = p2
  p3 = p3
  a1 = a1
  a2 = a2
  Res = {p1, p2, p3}
  InitialPorts = {}
  Callers = {c1, c2}
  NoRes = NoRes
  NoIP = NoIP
  StaticIPs = {a1, a2}
  IPof <- SharedAddress
  Faults = {}
  cfgMinIdle = 0
  cfgMaxIdle = 1
  cfgCapacity = 1
  StickTimes = {0}
  MaxTime = 0
PROPERTY StaticAddressReturned
CHECK_DEADLOCK FALSE
