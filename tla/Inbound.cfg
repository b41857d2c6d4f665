CONSTANTS
  CallSIDs = {x1}
  SessionIds = {s1, s2}
  Webhooks = {w1}
  Callbacks = {b1}
  Callers = {}
  Apps = {a1}
  Stoppers = {}
  Streams = {c1}
  Modes = {"text", "realtime"}
  None = None
SPECIFICATION FairSpec
INVARIANTS RegistryInv ClosedSessionUnlisted RemoteEndIsSafe
PROPERTIES CallbackAnswered ClosedSessionQuiesces
CHECK_DEADLOCK FALSE
