CONSTANTS
  Writers = {w1, w2}
  Cap = 2
  MaxWrites = 6
  None = None
SPECIFICATION Spec
PROPERTY DropsOnlyWhenFull
CHECK_DEADLOCK FALSE
