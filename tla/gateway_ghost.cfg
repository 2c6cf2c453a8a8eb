SPECIFICATION Spec
CONSTANTS
  Gateways = {g1}
  Socks = {s1, s2}
  Scenarios <- MCDisconnects
  MaxVer = 2
  MaxKicks = 1
  MaxFaults = 1
  None = None
PROPERTY
  PresenceCleared
