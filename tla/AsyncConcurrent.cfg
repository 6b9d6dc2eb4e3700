SPECIFICATION FairSpec
CONSTANTS
  s = s
  e = e
  u = u
  NoOp = NoOp
  Ops = {s, e, u}
  Kind <- MCKind
  Reply <- SearchAndResult
  Searches = {}
  FDs = {1, 2}
  FirstId = 1
  ReconnectId = 2
  MaxId = 4
  MaxAttempts = 2
  Timed = TRUE
  Parallel = TRUE
  Cancels = TRUE
  MaxLosses = 1
  MaxConnects = 1
INVARIANTS TypeOK OwnAnswers InOrder NothingLost
PROPERTIES EveryAwaitEnds
CHECK_DEADLOCK FALSE
