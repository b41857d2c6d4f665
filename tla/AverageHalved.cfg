CONSTANTS
  Spoken = {t1, t2}
  Typed = {u1}
  MaxFrames = 3
  Room = 1
  MaxToolIterations = 2
  CallCounts = {1, 2}
  Latencies = {2}
  None = None
SPECIFICATION Spec
INVARIANT AverageIsMean
CHECK_DEADLOCK FALSE
