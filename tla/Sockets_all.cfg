SPECIFICATION Spec
CONSTANTS
  Conn = {c1, c2}
  Link = {l1}
  Capacity = 5
  MaxCmd = 2
  Failures = {"open", "connect", "register", "accept", "refuse"}
INVARIANTS SizeCounts RoomKept FdsOwned
PROPERTIES BacklogServed
CHECK_DEADLOCK FALSE
