SPECIFICATION HangingSpec
CONSTANTS
  Gs = {g1, g2}
  MaxRuns = 1
  MaxInputs = 2
  MaxStops = 1
  MaxReqs = 1
  Faults = {}
  MaxFaults = 0
ACTION_CONSTRAINT FewWakes
PROPERTIES StopHonoured
CHECK_DEADLOCK FALSE
