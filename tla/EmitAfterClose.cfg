CONSTANTS
  CallSIDs = {x1}
  SessionIds = {s1, s2}
  Webhooks = {w1}
  Callbacks = {b1}
  Callers = {}
  Apps = {}
  Stoppers = {}
  Streams = {c1}
  Modes = {"text", "realtime"}
  None = None
SPECIFICATION Spec
INVARIANT EmitFindsOpenChannel
CHECK_DEADLOCK FALSE
