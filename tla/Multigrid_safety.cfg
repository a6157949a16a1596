SPECIFICATION FairSpec
CONSTANTS
  MaxRows = 4
  LastPoints = 1
  MaxIters <- PreconditionerOrSolver
  MaySkip = TRUE
  MaxSetups = 3
CHECK_DEADLOCK FALSE
INVARIANTS
  LevelsAllocated
  LevelsFit
  CorrectionsAreNew
PROPERTIES
  CallsReturn
