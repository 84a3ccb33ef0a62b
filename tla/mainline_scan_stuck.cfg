SPECIFICATION FairSpec
CONSTANTS
  Gs = {g1, g2}
  MaxRuns = 3
  MaxInputs = 1
  MaxStops = 0
  MaxReqs = 1
  Faults = {"failure"}
  MaxFaults = 1
PROPERTIES ScanRestarts
CHECK_DEADLOCK FALSE
