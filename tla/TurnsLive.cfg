CONSTANTS
  Spoken = {t1}
  Typed = {u1}
  Greeting = {g1}
  MaxChunks = 1
  OutCap = 1
  Mode = "disabled"
SPECIFICATION FairSpec
PROPERTIES TurnEnds LoopsStart
CHECK_DEADLOCK FALSE
