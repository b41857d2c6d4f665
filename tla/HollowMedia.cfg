CONSTANTS
  Writers = {w1, w2}
  Cap = 2
  MaxWrites = 6
  None = None
SPECIFICATION Spec
INVARIANT WritesOnlyAudio
CHECK_DEADLOCK FALSE
