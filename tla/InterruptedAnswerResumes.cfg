CONSTANTS
  Spoken = {t1, t2}
  Typed = {}
  Greeting = {}
  MaxChunks = 2
  OutCap = 1
  Mode = "immediate"
SPECIFICATION Spec
INVARIANTS CutOffStaysSilent
CHECK_DEADLOCK FALSE
