SPECIFICATION Spec
CONSTANTS
  Gs = {g1, g2}
  MaxRuns = 2
  MaxInputs = 2
  MaxStops = 1
  MaxReqs = 2
  Faults = {"write"}
  MaxFaults = 1
SYMMETRY Symmetry
VIEW View
CONSTRAINT Scenario
INVARIANTS TypeOK OneExecutor CancelsOwnRun OfferedJustified
PROPERTIES CompletedDrained GraceSparesProgress KeepsContract
CHECK_DEADLOCK FALSE
