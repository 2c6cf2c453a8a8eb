SPECIFICATION Spec
CONSTANTS
  Gateways = {g1, g2}
  Socks = {s1, s2}
  Scenarios <- MCScenarios
  MaxVer = 2
  MaxKicks = 1
  MaxFaults = 1
  None = None
INVARIANTS
  OneChannel
PROPERTIES
  ReconnectSpared
  RevokedCloses
  BanHolds
  OnlineShown
