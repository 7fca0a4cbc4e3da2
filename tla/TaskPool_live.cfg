CONSTANTS
  ParkEvents = {"WRITE"}
  Task = {t1, t2}
  Producer = {p1}
  Results = {"NORM", "WRITE", "IN"}
  NoTask = NoTask
SPECIFICATION FairSpec
PROPERTIES RequestServed EndServed StopServed
