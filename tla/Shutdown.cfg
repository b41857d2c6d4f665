CONSTANTS
  CallSIDs = {x1, x2}
  SessionIds = {s1, s2, s3}
  Webhooks = {w1}
  Callbacks = {b1}
  Callers = {m1}
  Apps = {}
  Stoppers = {g1}
  Streams = {c1}
  Modes = {"text", "realtime"}
  None = None
SPECIFICATION Spec
SYMMETRY Symmetry
INVARIANTS InboundSessionListed UnlistedIsDisplaced
PROPERTIES SweepIsExclusive EvictedOnlyByOwnClose
CHECK_DEADLOCK FALSE
