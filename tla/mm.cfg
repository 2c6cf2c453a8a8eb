SPECIFICATION FairSpec
CONSTANTS
  Players = {p1, p2}
  Modes = {m1}
  Replicas = {r1, r2}
  MIN_PLAYERS = 2
  MATCH_SIZE = 2
  Free = Free
  Dead = Dead
  MaxJoins = 3
  MaxFaults = 2
  MaxEvents = 3
  Leavers = {p2}
INVARIANTS NoDoubleBooking MatchWhole
PROPERTIES QueueDrains Served
