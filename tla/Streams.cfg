CONSTANTS
  Conns = {c1, c2}
  Closers = {a1}
  Shutters = {g1}
  EventsCap = 2
  ListenCap = 1
  None = None
SPECIFICATION Spec
SYMMETRY Symmetry
INVARIANTS TransportInv RemoteEndIsSafe
PROPERTY SweepIsExclusive
CHECK_DEADLOCK FALSE
