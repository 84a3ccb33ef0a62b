SPECIFICATION FairSpec
CONSTANTS
  Heads = {1, 2}
  Triggers = {"opened", "synchronize", "reopened"}
  Combos = 2
  MaxInflight = 1
  MaxTries = 2
  MaxRuns = 4
  MaxPushes = 1
  MaxToggles = 2
  MaxReruns = 1
  Faults = {"crash", "read", "denied", "unready", "unsent", "unconfirmed", "refused", "glitch"}
  MaxFaults = 1
ACTION_CONSTRAINT Scenario
INVARIANTS TypeOK InFlight
PROPERTIES KeepsContract OutcomePublished Settles
CHECK_DEADLOCK FALSE
