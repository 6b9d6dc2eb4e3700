SPECIFICATION Spec
CONSTANTS
  Entries = {1, 2, 3, 4}
  Initially = {1, 2, 3}
  PageSize = 2
  Attempts = 2
  None = none
  MaxSearches = 2
  MaxOthers = 1
INVARIANTS
  TypeOK
  InOrder
  Complete
  Numbered
  UniqueKept
PROPERTIES
  EndsWell
  EveryCallEnds
CHECK_DEADLOCK FALSE
