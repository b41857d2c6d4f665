CONSTANTS
  CallSIDs = {x1, x2}
  CallIds = {c1, c2}
  Webhooks = {w1}
  Callers = {m1}
  Callbacks = {b1}
  Users = {u1}
  Closers = {k1}
  Words = {"ringing", "completed", "busy"}
  None = None
SPECIFICATION Spec
INVARIANTS TrackingInv EndedIsOver
PROPERTY DroppedOnlyWhenDone
SYMMETRY Symmetry
CHECK_DEADLOCK FALSE
