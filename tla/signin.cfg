SPECIFICATION Spec
CONSTANTS
  Users = {u1, u2}
  Pages = {w1, w2}
  Polls = {r1, r2}
  Callbacks = {c1, c2}
  TokenOps = {o1, o2}
  Scenarios <- MCScenarios
  Attempts = 5
  MaxIssued = 2
  MaxFaults = 1
  None = None
INVARIANTS
  Identity
  SingleUse
  ClearedStaysCleared
PROPERTIES
  PairingLife
CHECK_DEADLOCK FALSE
