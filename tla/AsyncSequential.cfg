SPECIFICATION FairSpec
CONSTANTS
  s = s
  e = e
  u = u
  NoOp = NoOp
  Ops = {s, e, u}
  Kind <- MCKind
  Reply <- TwoEntries
  Searches = {s, e}
  FDs = {1, 2}
  FirstId = 1
  ReconnectId = 2
  MaxId = 4
  MaxAttempts = 2
  Timed = FALSE
  Parallel = FALSE
  Cancels = TRUE
  MaxLosses = 1
  MaxConnects = 0
PROPERTIES ContractSpec EveryAwaitEnds RequestedOnce
CHECK_DEADLOCK FALSE
