SPECIFICATION Spec
CONSTANTS
  Accounts = {a1, a2, a3}
  Codes = {}
  NoCode = NoCode
  Sizes = {2, 4, 6}
  NoRoom = NoRoom
  MaxStarts = 1
  Fleet = {s1}
  staticAddr = static
  Unset = Unset
  SHOP_BY_INDEX <- MCShop
  ITEM_TYPE <- MCTypes
  SlotOf <- MCSlots
  ECO_STEP <- MCEco
  Scenarios <- MCScenarios
INVARIANTS
  ViewsAgree
  HandoffWhole
  SettingsApplied
  GridComplete
SYMMETRY Perms
