SPECIFICATION FairSpec
CONSTANTS
  Configs = {quiet, loud}
  Reporting = {loud}
  Grace = 0
  Window = 2
  MaxTime = 2
  MaxCards = 2
  MaxEdits = 1
  MaxVersions = 1
  MaxTurns = 1
  Faults = {"crash", "panic", "write", "query"}
  MaxFaults = 1
ACTION_CONSTRAINT Scenario
INVARIANTS TypeOK NoOverlap FailureTold ApprovedConfig CompletedSettled
PROPERTIES CircuitKept CircuitCurrent KeepsContract RunEnds DueServed
CHECK_DEADLOCK FALSE
