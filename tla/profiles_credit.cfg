SPECIFICATION Spec
CONSTANTS
  a1 = a1
  a2 = a2
  a3 = a3
  v1 = v1
  v2 = v2
  me = me
  you = you
  Avatars <- MCAvatars
  FirstAvatar = a1
  BlockedAvatar = a3
  BlockedSkill = v2
  Values <- MCValues
  FirstValue = v1
  Self = me
  StartCoins = 1
  MaxBadges = 2
  NoToken = NoToken
  NoDoc = NoDoc
  Procs = {p1, p2}
  Scenarios <- MCSettle
  Matches <- MCMatches
  Award <- MCAward
  Roster <- MCRoster
  People <- MCPeople
  Batch = 2
  MaxTokens = 1
  MaxResults = 1
  MaxFaults = 1
INVARIANT
  CreditsKept
