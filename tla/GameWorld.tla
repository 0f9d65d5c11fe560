----------------------------- MODULE GameWorld -----------------------------
(***************************************************************************)
(* The generated game: players, rooms, enemies and items, and one action   *)
(* per command handler of src/Server/Game/Game.cpp, per way a session      *)
(* binds or drops its player (src/Server/Session.cpp) and per samosbor     *)
(* step of src/Server/Server.cpp.                                          *)
(*                                                                         *)
(* Every handler runs to its end on the thread that polls the io_context,  *)
(* so an action is a whole handler, and the interleaving is the one of the *)
(* commands of several players with the samosbor timers.                   *)
(*                                                                         *)
(* An item is an object: clone() into the new place followed by erase()    *)
(* from the old one moves it.  Items of one kind (one configured ID) have  *)
(* the same name and data, so the first one that matches a name is any one *)
(* of its kind.  The player's level number is only printed and is left out.*)
(***************************************************************************)
EXTENDS Integers, Sequences, FiniteSets

CONSTANTS
  Players,        \* nicknames that may log in
  Rooms,          \* rooms of all floors
  Enemies,        \* enemy objects placed by the generator
  Items,          \* item objects: placed ones, and spares for loot and crafts
  Kinds,          \* configured item IDs
  EnemyKinds,     \* configured enemy IDs
  NoPlayer, NoEnemy, NoKind, NoRoom,

  Place,          \* [Rooms -> [X, Y, F]], Room::location
  ExitRooms,      \* the ExitRooms, at exitCoordinates of their floors
  FloorCount,     \* mapSize.FloorCount
  Level1Rooms,    \* the vector of rooms of the floor of level 1
  LiveRooms,      \* rooms whose ID is in liveRoomsIDs: shelters
  RepairRecipe,   \* [ExitRooms -> [Kinds -> Nat]]
  InitialItems,   \* [Rooms -> SUBSET Items], generated
  InitialEnemies, \* [Rooms -> SUBSET Enemies], generated

  kind,           \* [Items -> Kinds]
  ItemConfig,     \* [Kinds -> [type, power]]: damage, armor or heal
  CraftRecipe,    \* [Kinds -> [Kinds -> Nat]], all zero: cannot be crafted
  enemyKind,      \* [Enemies -> EnemyKinds]
  EnemyConfig,    \* [EnemyKinds -> [health, attack, exp, loot]]
  maxInventorySize

ItemTypes == {"Component", "Weapon", "Armor", "HealingItem"}
Bags == [Kinds -> Nat]

ASSUME SentinelAssumption ==
  /\ NoPlayer \notin Players /\ NoEnemy \notin Enemies
  /\ NoKind \notin Kinds /\ NoRoom \notin Rooms

ASSUME MapAssumption ==
  /\ FloorCount \in Nat \ {0}
  /\ Place \in [Rooms -> [X : Nat, Y : Nat, F : 1..FloorCount]]
  /\ ExitRooms \subseteq Rooms /\ LiveRooms \subseteq Rooms
  /\ \A r, s \in ExitRooms : Place[r].F = Place[s].F => r = s
  /\ Level1Rooms \in Seq(Rooms) /\ Len(Level1Rooms) > 0
  /\ \A i \in 1..Len(Level1Rooms) : Place[Level1Rooms[i]].F = 1

ASSUME ConfigAssumption ==
  /\ kind \in [Items -> Kinds]
  /\ ItemConfig \in [Kinds -> [type : ItemTypes, power : Nat]]
  /\ CraftRecipe \in [Kinds -> Bags] /\ RepairRecipe \in [ExitRooms -> Bags]
  /\ enemyKind \in [Enemies -> EnemyKinds]
  /\ \A k \in EnemyKinds :
       /\ EnemyConfig[k].health \in Nat \ {0} /\ EnemyConfig[k].attack \in Nat
       /\ EnemyConfig[k].exp \in Nat
       /\ EnemyConfig[k].loot \in Seq(Kinds) /\ Len(EnemyConfig[k].loot) > 0
  /\ maxInventorySize \in Nat

ASSUME GeneratedAssumption ==
  /\ IsFiniteSet(Items) /\ IsFiniteSet(Enemies)
  /\ InitialItems \in [Rooms -> SUBSET Items]
  /\ InitialEnemies \in [Rooms -> SUBSET Enemies]
  /\ \A r, s \in Rooms : r # s => /\ InitialItems[r] \cap InitialItems[s] = {}
                                  /\ InitialEnemies[r] \cap InitialEnemies[s] = {}

VARIABLES
  \* players (gamedata.players)
  players,          \* nicknames that have a Player object
  inSession,        \* those bound to a live session (isInSession)
  location,         \* Player::location
  stats,            \* PlayerStats, without level, wepEq/weaponEqID and isDead
  dead,             \* players whose isDead is set
  equipped,         \* weaponEqID, or NoKind when wepEq is false
  inventory,
  fighting,         \* players whose battleStatus.status is InBattle
  opponent,         \* battleStatus.enemy; it is kept after a won fight
  \* rooms and enemies
  items, itemDescription,    \* the objects lying in a room; its texts, per kind
  enemies, enemyDescription,
  enemyHealth, battleWith,   \* Enemy::health, Enemy::battleWith
  broken,           \* exit rooms whose isBroken is set
  samosborGoing

playerVars == <<players, inSession>>
bodyVars   == <<location, stats, dead, equipped, inventory>>
battleVars == <<fighting, opponent, enemyHealth, battleWith>>
itemVars   == <<items, itemDescription>>
enemyVars  == <<enemies, enemyDescription>>
vars == <<playerVars, bodyVars, battleVars, itemVars, enemyVars, broken, samosborGoing>>

-----------------------------------------------------------------------------
(* Helpers *)

Mut_NoUpperBound(n, lo, hi) == IF n < lo THEN lo ELSE n
Clamp(n, lo, hi) == IF n < lo THEN lo ELSE IF n > hi THEN hi ELSE n

OfKind(k, S) == {i \in S : kind[i] = k}
Count(S) == [k \in Kinds |-> Cardinality(OfKind(k, S))]
Holds(S, k) == \E i \in S : kind[i] = k

\* S is exactly the material a recipe asks for
Pays(S, recipe) == Count(S) = recipe

\* objects that exist nowhere: spares for loot and crafted items
Spare == Items \ UNION ({items[r] : r \in Rooms} \cup {inventory[p] : p \in Players})

FreshStats == [health |-> 100, armor |-> 0, expTolevelUp |-> 100, currentExp |-> 0,
               inventoryMaxSize |-> maxInventorySize, weaponSkill |-> 0]

\* rooms[rand() % (size - 1)], or rooms[0] of a single room: never the last one
SpawnRooms == IF Len(Level1Rooms) = 1 THEN {Level1Rooms[1]}
              ELSE {Level1Rooms[i] : i \in 1..(Len(Level1Rooms) - 1)}

\* The same draw from the loot of an enemy
LootKinds(e) == LET loot == EnemyConfig[enemyKind[e]].loot
                IN  IF Len(loot) = 1 THEN {loot[1]}
                    ELSE {loot[i] : i \in 1..(Len(loot) - 1)}

\* The rooms one step north, south, west or east of r
Adjacent(r, s) ==
  /\ Place[r].F = Place[s].F
  /\ \/ Place[r].X = Place[s].X /\ Place[r].Y \in {Place[s].Y - 1, Place[s].Y + 1}
     \/ Place[r].Y = Place[s].Y /\ Place[r].X \in {Place[s].X - 1, Place[s].X + 1}

\* CommandHandler::handle: the dead may do nothing, and only the commands the
\* table allows in battle are served to a player in battle
Mut_TheDeadAct(p) == p \in inSession
MayCommand(p) == p \in inSession /\ p \notin dead

Mut_NoBattleCheck(p) == MayCommand(p)
MayCommandInPeace(p) == MayCommand(p) /\ p \notin fighting

\* The test of Attack, Skip and UseItem: status, not the pointer to the enemy
Mut_TestsPointer(p) == opponent[p] # NoEnemy
InBattle(p) == p \in fighting

\* Battle takes an enemy nobody fights yet
Mut_BusyEnemiesToo(e) == TRUE
IsFree(e) == battleWith[e] = NoPlayer

\* PickupItem is refused while any enemy is in the room, free or fighting
Mut_FreeEnemiesGuard(r) == \E e \in enemies[r] : battleWith[e] = NoPlayer
Guarded(r) == enemies[r] # {}

\* inventory.size() < inventoryMaxSize, where PickupItem and Attack test it
Mut_OneTooMany(bag, s) == Cardinality(bag) <= s.inventoryMaxSize
HasRoomFor(bag, s) == Cardinality(bag) < s.inventoryMaxSize

\* The stairs of room r can be used
Mut_BrokenExitsToo(r) == r \in ExitRooms
UsableExit(r) == r \in ExitRooms \ broken

\* The death test of CheckPlayerDeath
Mut_ZeroLives(s) == s.health < 0
IsKilled(s) == s.health <= 0

\* The texts of room r once one item of kind k has been taken from it
Mut_KeepsText(r, k) == itemDescription
TextErased(r, k) == [itemDescription EXCEPT ![r][k] = @ - 1]

\* The inventory of p after erase()
Mut_NoErase(p, S) == inventory[p]
Without(p, S) == inventory[p] \ S

\* Whom stopSamosbor brings back: it walks the live sessions
Mut_ShelteredStayDead(S) == {p \in S \cap dead : location[p] \notin LiveRooms}
ToRespawn(S) == S \cap dead

\* Enemy::Attack on a player with stats s
Mut_NeverKills(s, e) == [s EXCEPT !.health = Clamp(@ - EnemyConfig[enemyKind[e]].attack, 1, 100)]
Hit(s, e) ==
  LET attack == EnemyConfig[enemyKind[e]].attack
  IN  IF s.armor > 0
      THEN [s EXCEPT !.health = Clamp(@ - (attack \div 2), 0, 100),
                     !.armor  = Clamp(@ - (attack \div 2), 0, 100)]
      ELSE [s EXCEPT !.health = Clamp(@ - attack, 0, 100)]

\* What Game::CheckPlayerDeath does to the players of D, whose health is 0. The
\* other arguments are the values the calling handler has reached by then.
Die(D, stat, inv, fgt, opp, bw) ==
  LET lost(r) == UNION {inv[p] : p \in {q \in D : location[q] = r}}
  IN
  /\ stats' = [p \in Players |->
                 IF p \in D THEN [stat[p] EXCEPT !.health = 100, !.armor = 0, !.currentExp = 0,
                                                 !.weaponSkill = @ \div 2]
                 ELSE stat[p]]
  /\ inventory' = [p \in Players |-> IF p \in D THEN {} ELSE inv[p]]
  /\ equipped' = [p \in Players |-> IF p \in D /\ Holds(inv[p], equipped[p]) THEN NoKind
                                    ELSE equipped[p]]
  /\ items' = [r \in Rooms |-> items[r] \cup lost(r)]
  /\ itemDescription' = [r \in Rooms |->
                           [k \in Kinds |-> itemDescription[r][k] + Count(lost(r))[k]]]
  /\ fighting' = fgt \ D
  /\ opponent' = [p \in Players |-> IF p \in D \cap fgt THEN NoEnemy ELSE opp[p]]
  /\ battleWith' = [e \in Enemies |-> IF \E p \in D \cap fgt : opp[p] = e THEN NoPlayer ELSE bw[e]]
  /\ IF samosborGoing
     THEN dead' = dead \cup D /\ UNCHANGED location
     ELSE /\ dead' = dead \ D
          /\ \E to \in [D -> SpawnRooms] :
               location' = [p \in Players |-> IF p \in D THEN to[p] ELSE location[p]]

\* Game::CheckPlayerDeath for a player whose stats have become s and whose
\* inventory bag: nothing more to do, or death
CheckPlayerDeath(p, s, bag, fgt, opp, bw) ==
  \/ /\ ~IsKilled(s)
     /\ stats' = [stats EXCEPT ![p] = s]
     /\ inventory' = [inventory EXCEPT ![p] = bag]
     /\ fighting' = fgt /\ opponent' = opp /\ battleWith' = bw
     /\ UNCHANGED <<itemVars, location, dead, equipped>>
  \/ /\ IsKilled(s)
     /\ Die({p}, [stats EXCEPT ![p] = s], [inventory EXCEPT ![p] = bag], fgt, opp, bw)

\* enemy->Attack(ply), then CheckPlayerDeath(ply)
EnemyTurn(p, s, bag) ==
  CheckPlayerDeath(p, Hit(s, opponent[p]), bag, fighting, opponent, battleWith)

-----------------------------------------------------------------------------
(* The generated world *)

Init ==
  /\ players = {} /\ inSession = {} /\ dead = {} /\ fighting = {}
  /\ location  = [p \in Players |-> NoRoom]
  /\ stats     = [p \in Players |-> FreshStats]
  /\ equipped  = [p \in Players |-> NoKind]
  /\ inventory = [p \in Players |-> {}]
  /\ opponent  = [p \in Players |-> NoEnemy]
  /\ items = InitialItems
  /\ itemDescription = [r \in Rooms |-> Count(InitialItems[r])]
  /\ enemies = InitialEnemies
  /\ enemyDescription =
       [r \in Rooms |-> [k \in EnemyKinds |->
                           Cardinality({e \in InitialEnemies[r] : enemyKind[e] = k})]]
  /\ enemyHealth = [e \in Enemies |-> EnemyConfig[enemyKind[e]].health]
  /\ battleWith  = [e \in Enemies |-> NoPlayer]
  /\ broken = ExitRooms
  /\ samosborGoing = FALSE

-----------------------------------------------------------------------------
(* Sessions *)

\* Session::firstTime with a nickname no Player has: Game::SpawnPlayer
SpawnPlayer(p) ==
  /\ p \notin players
  /\ players' = players \cup {p}
  /\ inSession' = inSession \cup {p}
  /\ \E r \in SpawnRooms : location' = [location EXCEPT ![p] = r]
  /\ stats' = [stats EXCEPT ![p] = FreshStats]
  /\ UNCHANGED <<dead, equipped, inventory, battleVars, itemVars, enemyVars, broken, samosborGoing>>

\* Session::firstTime with the nickname of a Player that is in no session
Rejoin(p) ==
  /\ p \in players \ inSession
  /\ inSession' = inSession \cup {p}
  /\ UNCHANGED <<players, bodyVars, battleVars, itemVars, enemyVars, broken, samosborGoing>>

\* The session is destroyed; its Player stays where and as it is
Disconnect(p) ==
  /\ p \in inSession
  /\ inSession' = inSession \ {p}
  /\ UNCHANGED <<players, bodyVars, battleVars, itemVars, enemyVars, broken, samosborGoing>>

-----------------------------------------------------------------------------
(* Walking *)

Move(p, r) ==
  /\ MayCommandInPeace(p)
  /\ Adjacent(location[p], r)
  /\ location' = [location EXCEPT ![p] = r]
  /\ UNCHANGED <<playerVars, stats, dead, equipped, inventory, battleVars, itemVars, enemyVars,
                 broken, samosborGoing>>

\* dir is 1 for up and -1 for down
ChangeFloor(p, dir) ==
  LET here == location[p]
      level == Place[here].F
  IN
  /\ MayCommandInPeace(p)
  /\ UsableExit(here)
  /\ IF dir = 1 THEN level < FloorCount ELSE level > 1
  /\ \E r \in ExitRooms :
       /\ Place[r].F = level + dir
       /\ location' = [location EXCEPT ![p] = r]
  /\ UNCHANGED <<playerVars, stats, dead, equipped, inventory, battleVars, itemVars, enemyVars,
                 broken, samosborGoing>>

-----------------------------------------------------------------------------
(* Items *)

PickupItem(p, i) ==
  LET here == location[p] IN
  /\ MayCommandInPeace(p)
  /\ ~Guarded(here)
  /\ i \in items[here]
  /\ itemDescription[here][kind[i]] > 0
  /\ HasRoomFor(inventory[p], stats[p])
  /\ inventory' = [inventory EXCEPT ![p] = @ \cup {i}]
  /\ items' = [items EXCEPT ![here] = @ \ {i}]
  /\ itemDescription' = TextErased(here, kind[i])
  /\ UNCHANGED <<playerVars, location, stats, dead, equipped, battleVars, enemyVars, broken, samosborGoing>>

DropItem(p, i) ==
  LET here == location[p] IN
  /\ MayCommandInPeace(p)
  /\ i \in inventory[p]
  /\ equipped' = [equipped EXCEPT ![p] = IF @ = kind[i] THEN NoKind ELSE @]
  /\ inventory' = [inventory EXCEPT ![p] = Without(p, {i})]
  /\ items' = [items EXCEPT ![here] = @ \cup {i}]
  /\ itemDescription' = [itemDescription EXCEPT ![here][kind[i]] = @ + 1]
  /\ UNCHANGED <<playerVars, location, stats, dead, battleVars, enemyVars, broken, samosborGoing>>

\* The material goes, the product comes; nothing looks at the equipped weapon
\* or at the size of the inventory.  Bound: a spare object is left for the product.
Craft(p, product) ==
  /\ MayCommandInPeace(p)
  /\ product \in Spare
  /\ \E k \in Kinds : CraftRecipe[kind[product]][k] > 0
  /\ \E material \in SUBSET inventory[p] :
       /\ Pays(material, CraftRecipe[kind[product]])
       /\ inventory' = [inventory EXCEPT ![p] = Without(p, material) \cup {product}]
  /\ UNCHANGED <<playerVars, location, stats, dead, equipped, battleVars, itemVars, enemyVars,
                 broken, samosborGoing>>

RepairExit(p) ==
  LET here == location[p] IN
  /\ MayCommandInPeace(p)
  /\ here \in ExitRooms \cap broken
  /\ \E material \in SUBSET inventory[p] :
       /\ Pays(material, RepairRecipe[here])
       /\ inventory' = [inventory EXCEPT ![p] = Without(p, material)]
  /\ broken' = broken \ {here}
  /\ UNCHANGED <<playerVars, location, stats, dead, equipped, battleVars, itemVars, enemyVars, samosborGoing>>

\* Item::use of the four item classes: the stats it leaves, and whether the
\* item is used up
Using(s, i) ==
  LET it == ItemConfig[kind[i]] IN
  CASE it.type = "Armor" /\ s.armor < 100 ->
         [stats |-> [s EXCEPT !.armor = Clamp(@ + it.power, 0, 100)], consumed |-> {i}]
    [] it.type = "HealingItem" /\ s.health < 100 ->
         [stats |-> [s EXCEPT !.health = Clamp(@ + it.power, 0, 100)], consumed |-> {i}]
    [] OTHER -> [stats |-> s, consumed |-> {}]

\* The use of an item, or of a name that matches nothing in the inventory
Uses(p) == {Using(stats[p], i) : i \in inventory[p]} \cup {[stats |-> stats[p], consumed |-> {}]}

\* In battle the enemy then strikes, whatever the use did
UseItem(p) ==
  /\ MayCommand(p)
  /\ \E use \in Uses(p) :
       \/ InBattle(p) /\ EnemyTurn(p, use.stats, Without(p, use.consumed))
       \/ /\ ~InBattle(p)
          /\ stats' = [stats EXCEPT ![p] = use.stats]
          /\ inventory' = [inventory EXCEPT ![p] = Without(p, use.consumed)]
          /\ UNCHANGED <<location, dead, equipped, fighting, opponent, battleWith, itemVars>>
  /\ UNCHANGED <<playerVars, enemyHealth, enemyVars, broken, samosborGoing>>

Equip(p, i) ==
  /\ MayCommand(p)
  /\ i \in inventory[p]
  /\ ItemConfig[kind[i]].type = "Weapon"
  /\ equipped' = [equipped EXCEPT ![p] = kind[i]]
  /\ UNCHANGED <<playerVars, location, stats, dead, inventory, battleVars, itemVars, enemyVars,
                 broken, samosborGoing>>

-----------------------------------------------------------------------------
(* Battles *)

\* Battle(name) takes the first free enemy of that name in the room; in 51
\* draws of 100 it strikes at once
Battle(p, e) ==
  LET fgt == fighting \cup {p}
      opp == [opponent EXCEPT ![p] = e]
      bw  == [battleWith EXCEPT ![e] = p]
  IN
  /\ MayCommandInPeace(p)
  /\ e \in enemies[location[p]]
  /\ IsFree(e)
  /\ \/ /\ fighting' = fgt /\ opponent' = opp /\ battleWith' = bw
        /\ UNCHANGED <<bodyVars, itemVars>>
     \/ CheckPlayerDeath(p, Hit(stats[p], e), inventory[p], fgt, opp, bw)
  /\ UNCHANGED <<playerVars, enemyHealth, enemyVars, broken, samosborGoing>>

\* The blows Attack may strike: 5 with bare hands; the damage of the equipped
\* kind if the inventory still holds one; otherwise none
Blows(p) ==
  IF equipped[p] = NoKind THEN {5 + stats[p].weaponSkill}
  ELSE IF Holds(inventory[p], equipped[p])
       THEN {ItemConfig[equipped[p]].power + stats[p].weaponSkill}
       ELSE {}

\* Game::CheckLevelUp: at most one level per call; expTolevelUp *= 1.1
CheckLevelUp(s) ==
  IF s.currentExp < s.expTolevelUp THEN s
  ELSE [s EXCEPT !.currentExp = @ - s.expTolevelUp, !.expTolevelUp = (@ * 11) \div 10,
                 !.weaponSkill = @ + 1, !.inventoryMaxSize = @ + 1]

\* The enemy is beaten: experience, loot if there is room for it, and the enemy
\* leaves the room. Bound: a spare object is left for the loot. The room's
\* enemies whose battleWith is p are at most one (Pairing).
Win(p, e) ==
  LET here == location[p]
      s == CheckLevelUp([stats[p] EXCEPT !.currentExp = @ + EnemyConfig[enemyKind[e]].exp])
  IN
  /\ stats' = [stats EXCEPT ![p] = s]
  /\ \E k \in LootKinds(e) :
       IF HasRoomFor(inventory[p], s)
       THEN \E i \in OfKind(k, Spare) : inventory' = [inventory EXCEPT ![p] = @ \cup {i}]
       ELSE UNCHANGED inventory
  /\ enemyDescription' = [enemyDescription EXCEPT ![here][enemyKind[e]] = IF @ > 0 THEN @ - 1 ELSE 0]
  /\ enemies' = [enemies EXCEPT ![here] = {x \in @ : battleWith[x] # p}]
  /\ battleWith' = [battleWith EXCEPT ![e] = NoPlayer]
  /\ fighting' = fighting \ {p}
  /\ UNCHANGED <<location, dead, equipped, opponent, itemVars>>

Attack(p) ==
  LET e == opponent[p] IN
  /\ MayCommand(p) /\ InBattle(p)
  /\ \/ \E blow \in Blows(p) :
          LET left == Clamp(enemyHealth[e] - blow, 0, 1000) IN
          /\ enemyHealth' = [enemyHealth EXCEPT ![e] = left]
          /\ \/ left = 0 /\ Win(p, e)
             \/ left > 0 /\ EnemyTurn(p, stats[p], inventory[p]) /\ UNCHANGED enemyVars
     \/ /\ Blows(p) = {}
        /\ EnemyTurn(p, stats[p], inventory[p])
        /\ UNCHANGED <<enemyHealth, enemyVars>>
  /\ UNCHANGED <<playerVars, broken, samosborGoing>>

Skip(p) ==
  /\ MayCommand(p) /\ InBattle(p)
  /\ EnemyTurn(p, stats[p], inventory[p])
  /\ UNCHANGED <<playerVars, enemyHealth, enemyVars, broken, samosborGoing>>

-----------------------------------------------------------------------------
(* The samosbor *)

StartSamosbor ==
  /\ ~samosborGoing
  /\ samosborGoing' = TRUE
  /\ UNCHANGED <<playerVars, bodyVars, battleVars, itemVars, enemyVars, broken>>

\* Server::checkPlayersSamosbor, once a second: kills whom a session holds
\* outside the shelters
CheckPlayersSamosbor ==
  LET caught == {p \in inSession \ dead : location[p] \notin LiveRooms} IN
  /\ samosborGoing /\ caught # {}
  /\ Die(caught, stats, inventory, fighting, opponent, battleWith)
  /\ UNCHANGED <<playerVars, enemyHealth, enemyVars, broken, samosborGoing>>

\* Server::stopSamosbor: RespawnPlayer for the player of every live session
StopSamosbor ==
  LET back == ToRespawn(inSession) IN
  /\ samosborGoing
  /\ samosborGoing' = FALSE
  /\ dead' = dead \ back
  /\ \E to \in [back -> SpawnRooms] :
       location' = [p \in Players |-> IF p \in back THEN to[p] ELSE location[p]]
  /\ UNCHANGED <<playerVars, stats, equipped, inventory, battleVars, itemVars, enemyVars, broken>>

-----------------------------------------------------------------------------

SessionStep(p) == SpawnPlayer(p) \/ Rejoin(p) \/ Disconnect(p)

Command(p) ==
  \/ \E r \in Rooms : Move(p, r)
  \/ \E dir \in {1, -1} : ChangeFloor(p, dir)
  \/ \E i \in Items : PickupItem(p, i) \/ DropItem(p, i) \/ Craft(p, i) \/ Equip(p, i)
  \/ RepairExit(p) \/ UseItem(p)
  \/ \E e \in Enemies : Battle(p, e)
  \/ Attack(p) \/ Skip(p)

Samosbor == StartSamosbor \/ CheckPlayersSamosbor \/ StopSamosbor

Next == (\E p \in Players : SessionStep(p) \/ Command(p)) \/ Samosbor

Spec == Init /\ [][Next]_vars

\* The timers of the samosbor expire: each arms the next, and nothing the players
\* do holds one back
FairSpec == Spec /\ WF_vars(StartSamosbor) /\ WF_vars(StopSamosbor)

-----------------------------------------------------------------------------
(* What is always true *)

Stats == [health : 0..100, armor : 0..100, expTolevelUp : Nat, currentExp : Nat,
          inventoryMaxSize : Nat, weaponSkill : Nat]

TypeOK ==
  /\ players \in SUBSET Players /\ inSession \in SUBSET players
  /\ dead \in SUBSET players /\ fighting \in SUBSET players
  /\ location \in [Players -> Rooms \cup {NoRoom}]
  /\ \A p \in players : location[p] \in Rooms
  /\ stats \in [Players -> Stats]
  /\ equipped \in [Players -> Kinds \cup {NoKind}]
  /\ inventory \in [Players -> SUBSET Items]
  /\ opponent \in [Players -> Enemies \cup {NoEnemy}]
  /\ items \in [Rooms -> SUBSET Items]
  /\ itemDescription \in [Rooms -> Bags]
  /\ enemies \in [Rooms -> SUBSET Enemies]
  /\ enemyDescription \in [Rooms -> [EnemyKinds -> Nat]]
  /\ enemyHealth \in [Enemies -> Nat]
  /\ battleWith \in [Enemies -> Players \cup {NoPlayer}]
  /\ broken \in SUBSET ExitRooms
  /\ samosborGoing \in BOOLEAN

\* Battles are pairs: the enemy of a player in battle stands in the player's
\* room and names that player, and an enemy that names a player is the one that
\* player fights. (Battle, Attack, CheckPlayerDeath and the samosbor each write
\* one side of both pointers; a half-open pair blocks the enemy for everyone, or
\* lets Attack reach an enemy of another room.)
Pairing ==
  /\ \A p \in fighting : /\ opponent[p] \in enemies[location[p]]
                         /\ battleWith[opponent[p]] = p
  /\ \A e \in Enemies : battleWith[e] # NoPlayer =>
       battleWith[e] \in fighting /\ opponent[battleWith[e]] = e

\* No object is in two rooms, two inventories, or a room and an inventory:
\* every clone() into a new place is matched by the erase() from the old one.
ItemInOnePlace ==
  /\ \A r, s \in Rooms : r # s => items[r] \cap items[s] = {}
  /\ \A p, q \in Players : p # q => inventory[p] \cap inventory[q] = {}
  /\ \A r \in Rooms, p \in Players : items[r] \cap inventory[p] = {}

\* The texts Look shows are those of what is in the room. PickupItem needs the
\* text of an item: an item without one could never be taken again.
Described ==
  \A r \in Rooms :
    /\ itemDescription[r] = Count(items[r])
    /\ \A k \in EnemyKinds :
         enemyDescription[r][k] = Cardinality({e \in enemies[r] : enemyKind[e] = k})

\* Neither pick-ups, loot nor crafting (which does not test the limit) fill an
\* inventory beyond its size.
InventoryWithinLimit ==
  \A p \in Players : Cardinality(inventory[p]) <= stats[p].inventoryMaxSize

\* A dead player has left its battle and its belongings, and has the health it
\* will come back with; nothing it sends changes that.
DeadLieStill ==
  \A p \in dead : /\ p \notin fighting /\ inventory[p] = {}
                  /\ stats[p].health = 100 /\ stats[p].armor = 0

\* Between handlers nobody is at zero health: every handler in which an enemy
\* strikes ends with the death check, and a beaten enemy leaves its room.
NobodyAtZero ==
  /\ \A p \in Players : stats[p].health > 0
  /\ \A r \in Rooms : \A e \in enemies[r] : enemyHealth[e] > 0

\* Whoever is above a floor came through its repaired exit, or through that of
\* the floor it stands on: exits never break again and death leads down.
FloorsBelowRepaired ==
  \A p \in players : \A r \in ExitRooms :
    Place[r].F < Place[location[p]].F => r \notin broken

-----------------------------------------------------------------------------
(* What a step may never do *)

\* Items leave a room only when no enemy is in it, not even one that is busy
\* with another player.
LootGuarded ==
  [][\A r \in Rooms : items[r] \ items'[r] # {} => enemies[r] = {}]_vars

\* Leaving the room of one's battle costs the battle and the whole inventory:
\* the only way out is death, and it is not into the samosbor.
NoEscape ==
  [][\A p \in fighting : location'[p] # location[p] =>
       /\ p \notin fighting' /\ inventory'[p] = {} /\ ~samosborGoing
       /\ inventory[p] \subseteq (UNION {items'[r] : r \in Rooms}) \cup Spare']_vars

\* An enemy loses health only to the player it is in battle with, who is
\* connected, alive and in battle with it; enemies never recover.
WoundedByOpponent ==
  [][\A e \in Enemies : enemyHealth'[e] # enemyHealth[e] =>
       /\ enemyHealth'[e] < enemyHealth[e]
       /\ battleWith[e] \in (inSession \cap fighting) \ dead
       /\ opponent[battleWith[e]] = e]_vars

\* Experience and skill come from beating an enemy that was alive before the
\* step: the pointer Attack leaves to a beaten enemy never pays twice.
KillsPayOnce ==
  [][\A p \in Players :
       \/ stats'[p].currentExp > stats[p].currentExp
       \/ stats'[p].weaponSkill > stats[p].weaponSkill
       => \E e \in Enemies : enemyHealth[e] > 0 /\ enemyHealth'[e] = 0 /\ battleWith[e] = p]_vars

-----------------------------------------------------------------------------
(* What a battle is *)

Duel == INSTANCE Duels
  WITH duels <- {<<p, opponent[p]>> : p \in fighting},
       health <- enemyHealth,
       FullHealth <- [e \in Enemies |-> EnemyConfig[enemyKind[e]].health]

\* Battle, Attack, Skip, UseItem and the samosbor, seen through the status and the
\* pointer of the players, are duels: one enemy for one player, wounded by that
\* player alone, until one of the two is dead.
DuelSpec == Duel!Spec

-----------------------------------------------------------------------------
(* What must happen *)

\* Who is dead and stays connected is brought back: the next samosbor to end
\* walks every live session. (It is the next one, and not the present one, for
\* a player that missed the end of the samosbor it died in.)
Revival ==
  \A p \in Players : p \in dead /\ p \in inSession ~> p \notin dead \/ p \notin inSession

\* A player who attacks whenever that has any effect cannot stay in a position to
\* attack for ever: it gets out of the battle, also when its weapon has been used
\* up and it strikes nothing, since the enemy answers every blow that does not beat
\* it (Game::Attack, Game.cpp:2206). A battle where attacks have no effect at all
\* would violate this.
BattlesEnd ==
  \A p \in Players : WF_vars(Attack(p)) => []<>~(ENABLED Attack(p))
=============================================================================
