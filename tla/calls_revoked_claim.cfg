SPECIFICATION Spec
CONSTANTS
  Reads = {}
  Writes = {}
  Cancels = {}
  Asyncs = {a}
  Waits = {}
  Workers = {w, v}
  Users = {}
  Own = Own
  Auths = {p, q}
  NoCall = NoCall
  NoAuth = NoAuth
  Cap = 1
  MaxTurn = 1
  MaxCancels = 0
  Faults = {}
  MaxFaults = 0
PROPERTIES RevokedNeverClaims
