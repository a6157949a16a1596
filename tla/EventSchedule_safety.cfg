SPECIFICATION ScheduleSpec
CONSTANTS
  Deck = {0, 2, 4}
  Steps <- OneOrTwoSteps
  Names = {well, target}
  MultiLine = {well}
  Unset <- Garbage
  LinesBound = 2
  LastDate = 7
CHECK_DEADLOCK FALSE
INVARIANTS
  NoEventLost
PROPERTIES
  StepsFromLastDate
