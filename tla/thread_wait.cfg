SPECIFICATION FairSpec
CONSTANTS
  Filters = {{"idle"}, {"needs_reply", "error"}}
  IdleStable = 1
  StartGrace = 1
  Timeout = 2
  MaxRound = 5
  MaxItems = 2
  MaxRuns = 2
  Faults = {"crash", "lost", "query", "peek", "bot", "write"}
  MaxFaults = 1
ACTION_CONSTRAINT Scenario
INVARIANTS TypeOK
PROPERTIES VerdictTrue WaitEnds
CHECK_DEADLOCK FALSE
