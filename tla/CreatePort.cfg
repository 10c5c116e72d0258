SPECIFICATION FairSpec
CONSTANTS
  r1 = r1
  r2 = r2
  r3 = r3
  Res <- MCRes
  IPof <- MCIPof
  Faults = {"create", "orphan"}
  Calls = {c1, c2}
  None = None
INVARIANTS ReturnedIsComplete OrphansExplained
PROPERTIES CallReturns ImplementsFactory
