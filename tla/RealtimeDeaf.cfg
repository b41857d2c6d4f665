CONSTANTS
  CallSIDs = {x1}
  SessionIds = {s1}
  Webhooks = {w1}
  Callbacks = {}
  Callers = {}
  Apps = {}
  Stoppers = {}
  Streams = {c1}
  Modes = {"realtime"}
  None = None
SPECIFICATION Spec
INVARIANT ReadingMeansReady
CHECK_DEADLOCK FALSE
