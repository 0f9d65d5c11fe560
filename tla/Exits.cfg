SPECIFICATION FairSpec
CONSTANTS
  hall = hall
  liftA = liftA
  loft = loft
  liftB = liftB
  rat = rat
  wireA = wireA
  wireB = wireB
  blade = blade
  wireKind = wireKind
  bladeKind = bladeKind
  ratKind = ratKind
  p = p
  q = q
  NoPlayer = NoPlayer
  NoEnemy = NoEnemy
  NoKind = NoKind
  NoRoom = NoRoom
  Players = {p, q}
  Rooms = {hall, liftA, loft, liftB}
  Enemies = {rat}
  Items = {wireA, wireB, blade}
  Kinds = {wireKind, bladeKind}
  EnemyKinds = {ratKind}
  ExitRooms = {liftA, liftB}
  FloorCount = 2
  LiveRooms = {loft}
  maxInventorySize = 1
  Place <- MCPlace
  Level1Rooms <- MCLevel1Rooms
  RepairRecipe <- MCRepairRecipe
  InitialItems <- MCInitialItems
  InitialEnemies <- MCInitialEnemies
  kind <- MCkind
  ItemConfig <- MCItemConfig
  CraftRecipe <- MCCraftRecipe
  enemyKind <- MCenemyKind
  EnemyConfig <- MCEnemyConfig
INVARIANTS
  ItemInOnePlace
  FloorsBelowRepaired
  Described
  InventoryWithinLimit
PROPERTIES
  LootGuarded
  Revival
  BattlesEnd
