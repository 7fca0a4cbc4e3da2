SPECIFICATION Spec
CONSTANTS
  Kinds = {"SOCK"}
  MaxMsg = 2
  MaxSend = 2
  MaxReport = 1
  Failures = {"read", "write", "refuse"}
INVARIANTS NoStranded EndsInOrder Unregistered QuietWhenFreed InOrder
PROPERTIES ViewSpec
