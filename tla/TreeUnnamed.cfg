\* A run that delegates one task.
CONSTANTS
  Nodes = {root, n1, n2}
  Root = root
  RootModes = {"run"}
  Tasks = {t1}
  Parallel = FALSE
  MaxDepth = 1
  NoNode = NoNode
  NoTask = NoTask
SPECIFICATION Spec
SYMMETRY Interchangeable
INVARIANTS TaskKept
