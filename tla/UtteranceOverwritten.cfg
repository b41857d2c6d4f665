CONSTANTS
  Spoken = {t1, t2}
  Typed = {u1}
  MaxFrames = 3
  Room = 1
  MaxToolIterations = 2
  CallCounts = {1, 2}
  Latencies = {1, 3}
  None = None
SPECIFICATION Spec
INVARIANT UtteranceIntact
CHECK_DEADLOCK FALSE
