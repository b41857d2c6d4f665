CONSTANTS
  Spoken = {t1, t2}
  Typed = {u1}
  MaxFrames = 2
  Room = 1
  MaxToolIterations = 3
  CallCounts = {2}
  Latencies = {1, 3}
  None = None
SPECIFICATION Spec
SYMMETRY Symmetry
INVARIANTS TypeOK EveryChunkHandedOnce TranscriptAccounts RequestKnowsPast RequestWellFormed AverageBounded
PROPERTY MisheardOnlyWhenSpokenOver
CHECK_DEADLOCK FALSE
