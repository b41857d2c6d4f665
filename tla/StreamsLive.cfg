CONSTANTS
  Conns = {c1, c2}
  Closers = {}
  Shutters = {}
  EventsCap = 2
  ListenCap = 1
  None = None
SPECIFICATION FairSpec
PROPERTY EndedStreamIsRemoved
CHECK_DEADLOCK FALSE
