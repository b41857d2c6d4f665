CONSTANTS
  Ids = {i1, i2, i3, i4}
  Contents = {a, b}
  Clients = {c1, c2, c3}
  None = None
SPECIFICATION Spec
INVARIANTS MemoryInv NoneLostSilently
PROPERTIES ImplementsKeptMemories
SYMMETRY Symmetry
CHECK_DEADLOCK FALSE
