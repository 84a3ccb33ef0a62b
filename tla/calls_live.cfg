SPECIFICATION FairSpec
CONSTANTS
  Reads = {}
  Writes = {s}
  Cancels = {s}
  Asyncs = {a, b}
  Waits = {}
  Workers = {w}
  Users = {}
  Own = Own
  Auths = {}
  NoCall = NoCall
  NoAuth = NoAuth
  Cap = 1
  MaxTurn = 1
  MaxCancels = 0
  Faults = {"crash"}
  MaxFaults = 1
PROPERTIES QueuedServed RunningSettles
