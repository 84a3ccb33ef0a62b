SPECIFICATION FairSpec
CONSTANTS
  Heads = {1, 2}
  Triggers = {"opened", "synchronize"}
  Combos = 1
  MaxInflight = 1
  MaxTries = 2
  MaxRuns = 2
  MaxPushes = 1
  MaxToggles = 0
  MaxReruns = 0
  Faults = {}
  MaxFaults = 0
INVARIANT NoEmptyRound
CHECK_DEADLOCK FALSE
