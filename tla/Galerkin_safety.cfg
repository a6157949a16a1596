SPECIFICATION LevelSpec
CONSTANTS
  N = 4
  Relations <- MixedRelations
  Builders <- AllBuilders
CHECK_DEADLOCK FALSE
INVARIANTS
  RowsAsCounted
  SharesStayInRow
  ProductAsCounted
