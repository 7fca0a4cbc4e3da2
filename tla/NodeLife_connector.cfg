SPECIFICATION FairSpec
CONSTANTS
  Kinds = {"CONNECTOR"}
  MaxMsg = 0
  MaxSend = 1
  MaxReport = 1
  Failures = {"refuse", "reset"}
INVARIANTS EndsInOrder
PROPERTIES ViewSpec CloseCompletes
