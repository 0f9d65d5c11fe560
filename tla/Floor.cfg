SPECIFICATION Spec
CONSTANTS
  cell = cell
  lift = lift
  fuse = fuse
  NoCall = NoCall
  SizeX = 3
  SizeY = 3
  RoomKinds = {cell}
  ExitKinds = {lift}
  ItemKinds = {fuse}
  MaxRoomItems = 2
  Tries = 2
  UniqueItems <- MCUniqueItems
  RepairRecipe <- MCRepairRecipe
INVARIANTS
  TypeOK
  Connected
  Openable
CHECK_DEADLOCK FALSE
