SPECIFICATION FairSpec
CONSTANTS
  N = 4
  RandMax = 3
  Relations <- AllRelations
  Draws <- InnerOrEndDraws
CHECK_DEADLOCK FALSE
INVARIANTS
  MeasureCountsOpenEdges
  FineInterpolates
  ResultIntact
PROPERTIES
  Terminates
