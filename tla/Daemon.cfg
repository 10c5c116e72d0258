SPECIFICATION Spec
CONSTANTS
  b = b
  Pods = {a, b}
  Res = {p1, p2}
  InitialPorts = {}
  None = None
  Handlers = {h1, h2}
  Faults = {"ctx", "repeat", "db", "crash"}
  Scenarios <- StickyOrLate
INVARIANTS ExclusivePort RecordKept NoPortForgotten
SYMMETRY PodSymmetry
PROPERTY ImplementsLeases
