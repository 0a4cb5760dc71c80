SPECIFICATION EitherSpec
CONSTANTS
  Runs = {a, w}
  Waiting = {w}
  Groups = {g, h}
  Stops = {s}
  None = None
  Watchers = {u, v}
  Checks = {c, d}
  Limit = 2
  Nobody = Nobody
  MaxSeq = 1
  MaxCancels = 1
  MaxDeaths = 1
INVARIANTS TypesOK NoOverlap OneBusiness
PROPERTIES StopReports WaiterServed WatchEnds
CHECK_DEADLOCK FALSE
