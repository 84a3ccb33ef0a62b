SPECIFICATION Spec
CONSTANTS
  Reads = {}
  Writes = {s}
  Cancels = {s}
  Asyncs = {a}
  Waits = {}
  Workers = {w, v}
  Users = {u}
  Own = Own
  Auths = {p}
  NoCall = NoCall
  NoAuth = NoAuth
  Cap = 1
  MaxTurn = 2
  MaxCancels = 1
  Faults = {"tx", "panic", "crash", "expiry"}
  MaxFaults = 2
SYMMETRY Symmetry
CONSTRAINT WorkerScenario
INVARIANTS CancelReaches CancelDisclosed
PROPERTIES CancelWins KeepsContract
