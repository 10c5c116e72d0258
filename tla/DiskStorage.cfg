SPECIFICATION StoreSpec
CONSTANTS
  Keys = {k1, k2}
  Values = {v1, v2}
  NoValue = NoValue
  Clients = {c1, c2, c3}
INVARIANT CopiesAgree
SYMMETRY Symmetry
