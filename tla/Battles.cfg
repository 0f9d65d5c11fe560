SPECIFICATION Spec
CONSTANTS
  hall = hall
  den = den
  ghoulA = ghoulA
  ghoulB = ghoulB
  knife = knife
  medkit = medkit
  plateA = plateA
  plateB = plateB
  knifeKind = knifeKind
  medkitKind = medkitKind
  plateKind = plateKind
  ghoul = ghoul
  p = p
  q = q
  NoPlayer = NoPlayer
  NoEnemy = NoEnemy
  NoKind = NoKind
  NoRoom = NoRoom
  Players = {p, q}
  Rooms = {hall, den}
  Enemies = {ghoulA, ghoulB}
  Items = {medkit, plateA, plateB}
  Kinds = {knifeKind, medkitKind, plateKind}
  EnemyKinds = {ghoul}
  ExitRooms = {}
  FloorCount = 1
  LiveRooms = {den}
  maxInventorySize = 1
  Place <- MCPlace
  Level1Rooms <- MCLevel1Rooms
  RepairRecipe <- MCRepairRecipe
  InitialItems <- MCInitialItems
  InitialEnemies <- MCInitialEnemies
  kind <- MCkind
  ItemConfig <- MCItemConfig
  CraftRecipe <- MCCraftRecipe
  enemyKind <- MCenemyKind
  EnemyConfig <- MCEnemyConfig
SYMMETRY Symmetry
INVARIANTS
  TypeOK
  Pairing
  DeadLieStill
  NobodyAtZero
PROPERTIES
  NoEscape
  WoundedByOpponent
  KillsPayOnce
  DuelSpec
