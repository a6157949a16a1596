SPECIFICATION Spec
CONSTANTS
  One = 3
  SwitchStep = 1
  RatioStep = 1
  MaxRatio = 3
  BelowZero = 1
  MaxChange = 2
INVARIANTS
  VariableFitsCell
  SwitchSettles
  AppearingOilIsSaturated
PROPERTIES
  SumLostByCutOnly
