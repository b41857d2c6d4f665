CONSTANTS
  CallSIDs = {x1}
  SessionIds = {s1, s2}
  Webhooks = {w1}
  Callbacks = {b1}
  Callers = {}
  Apps = {}
  Stoppers = {}
  Streams = {c1}
  Modes = {"text"}
  None = None
SPECIFICATION Spec
INVARIANT SendFindsOpenChannel
CHECK_DEADLOCK FALSE
