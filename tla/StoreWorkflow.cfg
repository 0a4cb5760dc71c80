\* A root and its child (or two workflows), two frames: budgets of a whole
\* workflow and the root's completion.
CONSTANTS
  Works = {w1, w2}
  NoWork = NoWork
  Kinds = {"model"}
  ModelKinds = {"model"}
  MutationKinds = {}
  MaxOrdinal = 0
  NodeLimit = 1
  WorkflowLimit = 1
  MaxRevision = 2
  Clients = {c1, c2}
  Checks = {k1}
  NoChecks = NoChecks
  Phases = {"classify"}
  BindPhases = {"classify"}
SPECIFICATION Spec
SYMMETRY Interchangeable
INVARIANTS BudgetKept CompletedSettled
