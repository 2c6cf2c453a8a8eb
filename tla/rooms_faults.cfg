CONSTANTS
  Accounts = {a1, a2}
  Codes = {c1}
  NoCode = NoCode
  Sizes = {2}
  NoRoom = NoRoom
  Slots = {r1, r2}
  Ops = {"create", "join", "leave", "ready", "start", "reenter"}
  MaxRooms = 1
  MaxSeat = 0
  Free = Free
  Orphan = Orphan
  NoReq = NoReq
  SlowHolders = FALSE
  Faults = TRUE
SPECIFICATION FairSpec
PROPERTIES RequestsEnd LocksFreed
