CONSTANTS
  CallSIDs = {x1}
  SessionIds = {s1}
  Webhooks = {w1}
  Callbacks = {}
  Callers = {}
  Apps = {a1}
  Stoppers = {}
  Streams = {c1}
  Modes = {"text"}
  None = None
SPECIFICATION Spec
INVARIANT TurnsHaveContext
CHECK_DEADLOCK FALSE
