SPECIFICATION FairSpec
CONSTANTS
  N = 3
  RandMax = 2
  Relations <- AllRelations
  Draws <- AllDraws
CHECK_DEADLOCK FALSE
INVARIANTS
  FineDependsOnCoarse
  IndependentUpToTies
PROPERTIES
  RefinesSplitting
