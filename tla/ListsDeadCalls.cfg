CONSTANTS
  CallSIDs = {x1}
  CallIds = {c1}
  Webhooks = {w1}
  Callers = {}
  Callbacks = {b1}
  Users = {}
  Closers = {}
  Words = {"ringing", "in-progress", "completed", "busy", "no-answer", "failed"}
  None = None
SPECIFICATION Spec
INVARIANT ListsOnlyActive
CHECK_DEADLOCK FALSE
