\* One work item, two frames that hold copies of its row, two kinds of
\* operation with two attempts each.
CONSTANTS
  Works = {w1}
  NoWork = NoWork
  Kinds = {"model", "verify"}
  ModelKinds = {"model"}
  MutationKinds = {}
  MaxOrdinal = 1
  NodeLimit = 1
  WorkflowLimit = 2
  MaxRevision = 3
  Clients = {c1, c2}
  Checks = {k1, k2}
  NoChecks = NoChecks
  Phases = {"classify", "implement"}
  BindPhases = {"classify"}
SPECIFICATION Spec
SYMMETRY Interchangeable
INVARIANTS TypeOK
PROPERTIES AuthorityKept NoLostUpdate LedgerSpec
