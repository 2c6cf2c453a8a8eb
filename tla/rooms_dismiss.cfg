CONSTANTS
  Accounts = {a1, a2}
  Codes = {}
  NoCode = NoCode
  Sizes = {2}
  NoRoom = NoRoom
  Slots = {r1, r2}
  Ops = {"create", "join", "leave", "kick"}
  MaxRooms = 1
  MaxSeat = 1
  Free = Free
  Orphan = Orphan
  NoReq = NoReq
  SlowHolders = FALSE
  Faults = FALSE
SPECIFICATION Spec
SYMMETRY Symm
PROPERTY DismissalJustified
