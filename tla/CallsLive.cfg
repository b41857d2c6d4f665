CONSTANTS
  CallSIDs = {x1, x2}
  CallIds = {c1, c2}
  Webhooks = {w1}
  Callers = {m1}
  Callbacks = {b1}
  Users = {}
  Closers = {k1}
  Words = {"ringing", "in-progress", "completed"}
  None = None
SPECIFICATION FairSpec
PROPERTY CallbackApplied
CHECK_DEADLOCK FALSE
