SPECIFICATION Spec
CONSTANTS
  Pressures <- CellPressures
  Corrected <- WellPressures
  BhpLimits <- LimitsOfBhp
  RateLimits <- LimitsOfRate
  BhpTop = 6
  TotalBound = 4
  NaN = NaN
CHECK_DEADLOCK FALSE
INVARIANTS
  FlowIsConsistent
  TargetMet
  RetryForgets
PROPERTIES
  TotalsOfOpenWells
