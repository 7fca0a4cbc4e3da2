SPECIFICATION PartSpec
CONSTANTS
  MaxSignal = 2
  MayFail = TRUE
  MaxCount = 2
  Width = 5
  MaxFile = 4
  Lines <- MCLines
  IntKey = {"log_level"}
  Number = {"1", "2", "3", "123456"}
INVARIANTS FreedAlone FileMeant
PROPERTIES StopEnds WaitEnds
CHECK_DEADLOCK FALSE
