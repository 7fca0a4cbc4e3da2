SPECIFICATION PartsSpec
CONSTANTS
  Producer = {p1, p2}
  ParkEvents = {"CUSTOM", "READ"}
  Slot <- Slots
  Task = {t1, t2, t3, t4}
  NoTask = NoTask
  Place = {s1, s2, s3}
SYMMETRY Symmetry
PROPERTIES OpsSpec QueueSpec ListSpec SlotSpec
