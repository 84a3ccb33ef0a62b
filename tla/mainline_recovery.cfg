SPECIFICATION FairSpec
CONSTANTS
  Gs = {g1, g2}
  MaxRuns = 4
  MaxInputs = 2
  MaxStops = 0
  MaxReqs = 1
  Faults = {"failure", "compaction", "panic", "crash"}
  MaxFaults = 1
ACTION_CONSTRAINT InputOrFault
INVARIANTS RunHasExecutor
PROPERTIES RunEnds RecoveryStartsRun InputsConsumed
CHECK_DEADLOCK FALSE
