SPECIFICATION FairSpec
CONSTANTS
  N = 4
  RandMax = 1
  Relations <- AllRelations
  Draws <- AllDraws
CHECK_DEADLOCK FALSE
INVARIANTS
  ListsMatch
  IndependentAndCovering
PROPERTIES
  RefinesSplitting
