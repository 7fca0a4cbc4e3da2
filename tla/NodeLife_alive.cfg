SPECIFICATION Spec
CONSTANTS
  Kinds = {"SOCK"}
  MaxMsg = 1
  MaxSend = 1
  MaxReport = 1
  Failures = {"read", "write"}
INVARIANTS AliveWhenTouched
