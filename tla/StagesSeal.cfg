SPECIFICATION Spec
CONSTANTS
  Contracts <- OneFix
  NoProgressLimit = 2
  MaxScore = 0
  MaxFailures = 0
INVARIANTS RefusedIfChanged
CHECK_DEADLOCK FALSE
