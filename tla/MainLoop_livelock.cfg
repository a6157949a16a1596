SPECIFICATION FairSpec
CONSTANTS
  MinTS = 4
  MaxTS = 6
  IncNum = 2
  IncDen = 1
  DecNum = 1
  DecDen = 2
  OdNum = 7
  OdDen = 5
  NewtonItersNum = 2
  NewtonItersInc = 1
  FirstTS = 4
  SavePeriod = 1
  RestartsBound = 1
  ReducesDt = TRUE
  Reports <- ShortIntervals
  NumEvents <- EventsOfShort
CHECK_DEADLOCK FALSE
PROPERTIES
  RetriesEnd
