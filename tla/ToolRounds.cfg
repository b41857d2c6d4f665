CONSTANTS
  Spoken = {t1}
  Typed = {u1}
  MaxFrames = 1
  Room = 1
  MaxToolIterations = 3
  CallCounts = {1, 2}
  Latencies = {1}
  None = None
SPECIFICATION Spec
INVARIANTS RequestWellFormed
CHECK_DEADLOCK FALSE
