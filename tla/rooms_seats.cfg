CONSTANTS
  Accounts = {a1, a2, a3}
  Codes = {}
  NoCode = NoCode
  Sizes = {2, 3}
  NoRoom = NoRoom
  Slots = {r1, r2}
  Ops = {"create", "join", "leave", "kick", "change", "seat"}
  MaxRooms = 1
  MaxSeat = 1
  Free = Free
  Orphan = Orphan
  NoReq = NoReq
  SlowHolders = FALSE
  Faults = FALSE
SPECIFICATION Spec
SYMMETRY Symm
INVARIANTS TypeOK Seating IndexSound
PROPERTIES NoResurrection AdmissionRule Atomicity
