SPECIFICATION Spec
CONSTANTS
  Reads = {r}
  Writes = {s}
  Cancels = {}
  Asyncs = {a}
  Waits = {v, x}
  Workers = {w}
  Users = {u}
  Own = Own
  Auths = {}
  NoCall = NoCall
  NoAuth = NoAuth
  Cap = 1
  MaxTurn = 2
  MaxCancels = 1
  Faults = {"crash"}
  MaxFaults = 1
SYMMETRY Symmetry
CONSTRAINT TurnScenario
INVARIANTS TypeOK OneReply BuildableWhenIdle NewInputHolds
