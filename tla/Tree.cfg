\* A root (a run with two tasks, or a collab) and up to two children; and three
\* commands that compete for a worker with two slots.
CONSTANTS
  Nodes = {root, n1, n2}
  Root = root
  RootModes = {"run", "collab"}
  Tasks = {t1, t2}
  Parallel = TRUE
  MaxDepth = 1
  NoNode = NoNode
  NoTask = NoTask
  urgent = urgent small = small whole = whole here = here there = there
  Leases = {urgent, small, whole}
  Project <- ProjectOf
  Need <- NeedOf
  Urgency <- UrgencyOf
  SlotCount = 2
  MaxAge = 3
  MaxLost = 1
SPECIFICATION EitherSpec
INVARIANTS TypeOK TaskOnce ChildrenFirst DoneByChildren
PROPERTIES LegalMoves CommandEnds EveryoneServed
