SPECIFICATION Spec
CONSTANTS
  Players = {p1, p2, p3}
  Modes = {m1}
  Replicas = {r1, r2}
  MIN_PLAYERS = 2
  MATCH_SIZE = 2
  Free = Free
  Dead = Dead
  MaxJoins = 3
  MaxFaults = 1
  MaxEvents = 4
  Leavers = {}
SYMMETRY Symm
CHECK_DEADLOCK FALSE
INVARIANT ClaimedOnce
