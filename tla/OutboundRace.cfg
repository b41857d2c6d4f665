CONSTANTS
  CallSIDs = {x1}
  SessionIds = {s1, s2}
  Webhooks = {}
  Callbacks = {}
  Callers = {m1}
  Apps = {}
  Stoppers = {}
  Streams = {c1}
  Modes = {"text", "realtime"}
  None = None
SPECIFICATION Spec
INVARIANT ActiveSessionListed
CHECK_DEADLOCK FALSE
