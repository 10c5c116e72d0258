SPECIFICATION Spec
CONSTANTS
  b = b
  Pods = {a, b}
  Res = {p1}
  InitialPorts = {p1}
  None = None
  Handlers = {h1, h2}
  Faults = {"repeat"}
  Scenarios <- OneSticky
PROPERTY DeleteHarmless
SYMMETRY Symmetry
