SPECIFICATION FairSpec
CONSTANTS
  MinTS = 2
  MaxTS = 6
  IncNum = 2
  IncDen = 1
  DecNum = 1
  DecDen = 2
  OdNum = 7
  OdDen = 5
  NewtonItersNum = 3
  NewtonItersInc = 1
  FirstTS = 2
  SavePeriod = 3
  RestartsBound = 3
  ReducesDt = TRUE
  Reports <- LongIntervals
  NumEvents <- EventsOfLong
CHECK_DEADLOCK FALSE
INVARIANTS
  StepInsideInterval
  AttemptFromBase
  VolumeOfBase
  SavedAtReport
PROPERTIES
  RefinesReportSteps
  RefinesWellCalls
  Terminates
