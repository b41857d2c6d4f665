CONSTANTS
  Conns = {c1}
  Closers = {a1}
  Shutters = {}
  EventsCap = 2
  ListenCap = 1
  None = None
SPECIFICATION Spec
INVARIANT CloseIsSafe
CHECK_DEADLOCK FALSE
