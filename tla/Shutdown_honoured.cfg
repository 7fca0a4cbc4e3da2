SPECIFICATION Spec
CONSTANTS
  MaxSignal = 1
  MayFail = FALSE
PROPERTIES StopHonoured
CHECK_DEADLOCK FALSE
