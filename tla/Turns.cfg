CONSTANTS
  Spoken = {t1}
  Typed = {u1}
  Greeting = {g1}
  MaxChunks = 2
  OutCap = 1
  Mode = "immediate"
SPECIFICATION Spec
SYMMETRY Symmetry
INVARIANTS TypeOK InterruptBoundsSpeech StaleSpeechBounded ProcessingMeansTurn
CHECK_DEADLOCK FALSE
