SPECIFICATION Spec
CONSTANTS
  s = s
  e = e
  u = u
  NoOp = NoOp
  Ops = {s, e}
  Kind <- MCKind
  Reply <- ShortReply
  Searches = {}
  FDs = {1, 2}
  FirstId = 2
  ReconnectId = 2
  MaxId = 4
  MaxAttempts = 2
  Timed = FALSE
  Parallel = TRUE
  Cancels = FALSE
  MaxLosses = 1
  MaxConnects = 0
INVARIANT NoCrossTalk
CHECK_DEADLOCK FALSE
