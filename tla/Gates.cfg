SPECIFICATION Spec
CONSTANTS
  a = a b = b x = x y = y z = z
  s = s t = t u = u
  l = l v = v
  e = e f = f fs = fs t1 = t1 t2 = t2 t3 = t3
  Askers = {e, f}
  Executors = {e}
  Context <- ContextOf
  Shared = Shared
  Trees = {t1, t2, t3}
  Reads <- ReadsOf
  NoTree = NoTree
  Good = {1}
  MaxEdits = 2
  MaxAsks = 2
  Commands = {a, b, x, y, z, s, t, u}
  Lane <- LaneOf
  Rank <- RankOf
  Slots <- SlotsOf
  Exclusive = {b}
  Capacity = 3
  Workers = 3
  CollectAll = TRUE
  Plans <- AllPlans
  Distributed = {s, t, u}
  Endpoints = {l, v}
  Local = {l}
  Room <- RoomOf
  Able <- AbleTo
  Repairs = {l}
  RetryLimit = 1
  MaxReported = 2
  None = None
  MaxJobs = 2
  MaxFaults = 1
INVARIANTS TypesOK RunsTogether CauseKept OneLiveJob LaneStays ReplaySound
PROPERTIES PlanEnds
CHECK_DEADLOCK FALSE
