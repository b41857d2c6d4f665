CONSTANTS
  CallSIDs = {x1}
  SessionIds = {s1}
  Webhooks = {w1}
  Callbacks = {b1}
  Callers = {}
  Apps = {}
  Stoppers = {g1}
  Streams = {}
  Modes = {"text", "realtime"}
  None = None
SPECIFICATION FairSpec
PROPERTY StopReturns
CHECK_DEADLOCK FALSE
