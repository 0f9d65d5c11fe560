SPECIFICATION SavedSpec
CONSTANTS
  hall = hall
  lift = lift
  attic = attic
  ghoulA = ghoulA
  ghoulB = ghoulB
  wire = wire
  wireKind = wireKind
  ghoul = ghoul
  below = {ghoulA}
  anna = anna
  boris = boris
  NoPlayer = NoPlayer
  NoEnemy = NoEnemy
  NoKind = NoKind
  NoRoom = NoRoom
  NoRecord = NoRecord
  MaxOvertaken = 2
  Players = {anna, boris}
  Rooms = {hall, lift, attic}
  Enemies = {ghoulA, ghoulB}
  Items = {wire}
  Kinds = {wireKind}
  EnemyKinds = {ghoul}
  ExitRooms = {lift, attic}
  FloorCount = 2
  LiveRooms = {hall, lift, attic}
  maxInventorySize = 1
  Place <- MCPlace
  Level1Rooms <- MCLevel1Rooms
  RepairRecipe <- MCRepairRecipe
  InitialItems <- MCInitialItems
  InitialEnemies <- MCInitialEnemies
  kind <- MCkind
  ItemConfig <- MCItemConfig
  CraftRecipe <- MCCraftRecipe
  enemyKind <- MCenemyKind
  EnemyConfig <- MCEnemyConfig
CHECK_DEADLOCK FALSE
SYMMETRY Symmetry
INVARIANTS
  SavedPairing
  SavedFloorsBelowRepaired
  SavedNobodyAtZero
  BusyAreFought
PROPERTIES
  RoundTrip
