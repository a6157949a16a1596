SPECIFICATION FairSolverSpec
CONSTANTS
  Methods = {"gmres", "bicgstab", "tfqmr"}
  MaxIters = 3
  VLen = 3
  Unit = 4
  MaxNorm = 4
  Tol = 2
  Allowed = 3
  MaxSolves = 2
  NaN = NaN
CHECK_DEADLOCK FALSE
INVARIANTS
  ReportDescribesSolution
  VerdictOfThisSolve
PROPERTIES
  Returns
