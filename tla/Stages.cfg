SPECIFICATION LiveSpec
CONSTANTS
  Contracts <- EveryMode
  NoProgressLimit = 2
  MaxScore = 0
  MaxFailures = 1
INVARIANTS TypeOK DeliveredVerified HumanPrototype RepairsBounded
PROPERTIES CommandEnds
CHECK_DEADLOCK FALSE
