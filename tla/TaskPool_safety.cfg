CONSTANTS
  ParkEvents = {"WRITE"}
  Task = {t1, t2}
  Producer = {p1, p2}
  Results = {"NORM", "WRITE", "IN", "OUT"}
  NoTask = NoTask
SYMMETRY MCSymmetry
SPECIFICATION Spec
INVARIANTS TypeOK OnePlace PlaceIffArmed EndHonoured NoLostWakeup StopHeard
PROPERTY NothingAfterEnd GateSpec
