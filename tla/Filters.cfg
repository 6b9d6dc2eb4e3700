SPECIFICATION Spec
CONSTANTS
  Texts <- MCTexts
  Values <- MCValues
  Asks <- MCAsks
  Strategies = {"BOTH", "POST", "PRE"}
  MaxEdits = 2
INVARIANTS
  TypeOK
  
  NoneMissed
  OperatorsInTurn
  
  MeaningKept
  SameWhenParsedAgain
  EqualMeansSame
  ComparedAsWritten
CHECK_DEADLOCK FALSE
