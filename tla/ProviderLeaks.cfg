CONSTANTS
  CallSIDs = {x1}
  SessionIds = {s1}
  Webhooks = {w1}
  Callbacks = {b1}
  Callers = {}
  Apps = {}
  Stoppers = {}
  Streams = {c1}
  Modes = {"realtime"}
  None = None
SPECIFICATION Spec
INVARIANT CloseReleasesProvider
CHECK_DEADLOCK FALSE
