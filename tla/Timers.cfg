SPECIFICATION TimersSpec
CONSTANTS
  Timer = {t1, t2}
  Size1 = 2
  Size2 = 4
  Wrap = 16
  Timeout <- MCTimeout
  MaxExpire = 4
INVARIANTS TimeConserved
PROPERTIES TimeoutSpec CatchUp
CHECK_DEADLOCK FALSE
