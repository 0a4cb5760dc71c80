\* A collab whose run delegates its one task: three levels.
CONSTANTS
  Nodes = {root, n1, n2, n3}
  Root = root
  RootModes = {"collab"}
  Tasks = {t1}
  Parallel = FALSE
  MaxDepth = 2
  NoNode = NoNode
  NoTask = NoTask
SPECIFICATION Spec
SYMMETRY Interchangeable
INVARIANTS TaskOnce
