CONSTANTS
  CallSIDs = {x1}
  CallIds = {c1}
  Webhooks = {w1}
  Callers = {}
  Callbacks = {b1}
  Users = {u1}
  Closers = {}
  Words = {"ringing", "in-progress", "completed", "busy", "no-answer", "failed"}
  None = None
SPECIFICATION Spec
PROPERTY HangupIsFinal
CHECK_DEADLOCK FALSE
