CONSTANTS
  Conns = {c1}
  Closers = {}
  Shutters = {g1}
  EventsCap = 2
  ListenCap = 1
  None = None
SPECIFICATION FairSpec
PROPERTY ShutdownReturns
CHECK_DEADLOCK FALSE
