CONSTANTS
  CallSIDs = {x1}
  SessionIds = {s1}
  Webhooks = {w1}
  Callbacks = {b1}
  Callers = {}
  Apps = {}
  Stoppers = {}
  Streams = {c1}
  Modes = {"text"}
  None = None
SPECIFICATION Spec
INVARIANT MediaFindsOpenChannel
CHECK_DEADLOCK FALSE
