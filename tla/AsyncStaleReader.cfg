SPECIFICATION Spec
CONSTANTS
  s = s
  e = e
  u = u
  NoOp = NoOp
  Ops = {s, e, u}
  Kind <- MCKind
  Reply <- ShortReply
  Searches = {}
  FDs = {1}
  FirstId = 1
  ReconnectId = 2
  MaxId = 4
  MaxAttempts = 2
  Timed = FALSE
  Parallel = FALSE
  Cancels = TRUE
  MaxLosses = 0
  MaxConnects = 1
INVARIANT WaiterIsWatched
CHECK_DEADLOCK FALSE
