SPECIFICATION FairSpec
CONSTANTS
  N = 4
  RandMax = 2
  Relations <- MixedRelations
  Draws <- AllDraws
CHECK_DEADLOCK FALSE
INVARIANTS
  SearchFinds
  IndependentAndCovering
PROPERTIES
  RefinesSplitting
