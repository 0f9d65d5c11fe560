------------------------------ MODULE SaveLoad ------------------------------
(***************************************************************************)
(* A game that is saved, lost in a crash or by a reset, and loaded:        *)
(* Game::SaveGame and Game::LoadGame of src/Server/Game/Game.cpp and the   *)
(* save and load of the structures, around the world of GameWorld.         *)
(*                                                                         *)
(* An autosave is a handler and writes its file in one step.  The          *)
(* terminal's 'save' takes no lock: it writes the rooms, floor by floor,   *)
(* and then player by player, while handlers run between two records, and  *)
(* amid one.  Such a file shows its records at different moments.          *)
(*                                                                         *)
(* Objects are written as configured IDs: a battle is the ID of the enemy. *)
(* Neither isDead nor the health of an enemy is written.                   *)
(***************************************************************************)
EXTENDS GameWorld

CONSTANTS
  MaxOvertaken,  \* Bound: handlers that run while a 'save' is writing
  NoRecord       \* what is not written

VARIABLES
  file,       \* the save that is being written, or is complete and will be loaded
  overtaken   \* handlers that ever ran while a 'save' was writing

worldVars == <<playerVars, bodyVars, battleVars, itemVars, enemyVars, broken, samosborGoing>>
saveVars == <<file, overtaken>>
allVars == <<worldVars, saveVars>>

CountEnemies(S) == [k \in EnemyKinds |-> Cardinality({e \in S : enemyKind[e] = k})]

-----------------------------------------------------------------------------
(* SaveGame *)

\* Room::save; an exit has a flag of its own
Mut_PlainRoom(r) ==
  [items |-> Count(items[r]), enemies |-> CountEnemies(enemies[r]), broken |-> r \in ExitRooms]
RoomRecord(r) ==
  [items |-> Count(items[r]), enemies |-> CountEnemies(enemies[r]), broken |-> r \in broken]

\* Battle::save: the ID of the enemy, if the player is in battle
Mut_NoBattle(p) == {}
Foe(p) == {enemyKind[opponent[p]] : q \in {p} \cap fighting}

\* Player::save
PlayerRecord(p) ==
  [location |-> location[p], stats |-> stats[p], equipped |-> equipped[p],
   bag |-> Count(inventory[p]), foe |-> Foe(p)]

Blank == [rooms |-> [r \in Rooms |-> NoRecord], players |-> [p \in Players |-> NoRecord]]
WholeFile == [rooms |-> [r \in Rooms |-> RoomRecord(r)],
              players |-> [p \in Players |-> IF p \in players THEN PlayerRecord(p) ELSE NoRecord]]

RoomsWritten == \A r \in Rooms : file.rooms[r] # NoRecord
Saved == {p \in Players : file.players[p] # NoRecord}
Complete == RoomsWritten /\ players \subseteq Saved

\* Bounds: a complete save is followed by its loading at once, since what happens
\* in between is lost; a game that was loaded from a file that handlers have
\* overtaken is not followed any further
Playing == ~Complete /\ (overtaken > 0 => file # Blank)

Autosave ==
  /\ Playing /\ file = Blank
  /\ file' = WholeFile
  /\ UNCHANGED <<worldVars, overtaken>>

\* The turn of room r, floor by floor and row by row, and of player p
Before(s, r) ==
  \/ Place[s].F < Place[r].F
  \/ Place[s].F = Place[r].F /\ Place[s].Y < Place[r].Y
  \/ Place[s].F = Place[r].F /\ Place[s].Y = Place[r].Y /\ Place[s].X < Place[r].X
MayWrite(r) ==
  /\ Playing
  /\ file.rooms[r] = NoRecord
  /\ \A s \in Rooms : Before(s, r) => file.rooms[s] # NoRecord
MaySave(p) == Playing /\ RoomsWritten /\ p \in players \ Saved

SaveRoom(r) ==
  /\ MayWrite(r)
  /\ file' = [file EXCEPT !.rooms[r] = RoomRecord(r)]
  /\ UNCHANGED <<worldVars, overtaken>>

SavePlayer(p) ==
  /\ MaySave(p)
  /\ file' = [file EXCEPT !.players[p] = PlayerRecord(p)]
  /\ UNCHANGED <<worldVars, overtaken>>

\* A handler that runs beside the terminal's thread. Bound: nobody logs in for the
\* first time while players are written, which their number precedes.
Overtake ==
  /\ Next
  /\ RoomsWritten => players' = players
  /\ overtaken < MaxOvertaken /\ overtaken' = overtaken + 1

\* In this step p is killed: between the blow and Game::CheckPlayerDeath its
\* health is 0
Killed(p) ==
  \/ p \in dead' \ dead
  \/ p \in fighting \ fighting' /\ opponent'[p] = NoEnemy
  \/ \E e \in Enemies : Battle(p, e) /\ p \notin fighting'

\* What can be written amid a handler. It moves objects one by one, and each list
\* and each number is read before or after it has changed.
Partly(old, new) ==
  {c \in [Kinds -> 0..Cardinality(Items)] : \A k \in Kinds : c[k] \in old[k]..new[k] \cup new[k]..old[k]}

RoomsAmid(r) ==
  [items : Partly(Count(items[r]), Count(items[r])'),
   enemies : {CountEnemies(enemies[r]), CountEnemies(enemies[r])'},
   broken : {(r \in broken), (r \in broken')}]

StatsAmid(p) ==
  LET old == stats[p]  new == stats'[p] IN
  [health : {old.health, new.health} \cup {0 : q \in {x \in {p} : Killed(x)}},
   armor : {old.armor, new.armor},
   expTolevelUp : {old.expTolevelUp, new.expTolevelUp},
   currentExp : {old.currentExp, new.currentExp},
   inventoryMaxSize : {old.inventoryMaxSize, new.inventoryMaxSize},
   weaponSkill : {old.weaponSkill, new.weaponSkill}]

\* The location is written first, and a handler that changes it changes it last.
\* The battle may be set while its enemy is not yet.
PlayersAmid(p) ==
  [location : {location[p]},
   stats : StatsAmid(p),
   equipped : {equipped[p], equipped'[p]},
   bag : Partly(Count(inventory[p]), Count(inventory[p])'),
   foe : {Foe(p), Foe(p)'} \cup
         {{enemyKind[e]} : e \in {x \in Enemies : x = opponent[p] /\ p \in fighting' \ fighting}}]

SaveRoomAmid(r) ==
  /\ MayWrite(r)
  /\ Overtake
  /\ \E record \in RoomsAmid(r) : file' = [file EXCEPT !.rooms[r] = record]

SavePlayerAmid(p) ==
  /\ MaySave(p)
  /\ Overtake
  /\ \E record \in PlayersAmid(p) : file' = [file EXCEPT !.players[p] = record]

-----------------------------------------------------------------------------
(* LoadGame *)

\* Room::load and the inventories of Player::load: clones of configured items.
\* Bound: there are objects for all of them.
LoadItems ==
  \E lies \in [Items -> Rooms \cup {NoRoom}], carried \in [Items -> Players \cup {NoPlayer}] :
    /\ \A i \in Items : lies[i] = NoRoom \/ carried[i] = NoPlayer
    /\ items' = [r \in Rooms |-> {i \in Items : lies[i] = r}]
    /\ inventory' = [p \in Players |-> {i \in Items : carried[i] = p}]
    /\ \A r \in Rooms : Count(items'[r]) = file.rooms[r].items
    /\ \A p \in Players : IF p \in Saved
                          THEN Count(inventory'[p]) = file.players[p].bag
                          ELSE inventory'[p] = {}
    /\ itemDescription' = [r \in Rooms |-> Count(items'[r])]

\* Enemies are clones of what is configured; their own health is not in the file
Mut_Restored == [e \in Enemies |-> 0]
Restored == [e \in Enemies |-> EnemyConfig[enemyKind[e]].health]

LoadEnemies ==
  \E stands \in [Enemies -> Rooms \cup {NoRoom}] :
    /\ enemies' = [r \in Rooms |-> {e \in Enemies : stands[e] = r}]
    /\ \A r \in Rooms : CountEnemies(enemies'[r]) = file.rooms[r].enemies
    /\ enemyDescription' = [r \in Rooms |-> CountEnemies(enemies'[r])]
    /\ enemyHealth' = Restored

\* SpawnPlayer, then load: alive, and in no session
LoadPlayers ==
  LET saved == file.players IN
  /\ players' = Saved /\ inSession' = {} /\ dead' = {}
  /\ location'  = [p \in Players |-> IF p \in players' THEN saved[p].location ELSE NoRoom]
  /\ stats'     = [p \in Players |-> IF p \in players' THEN saved[p].stats ELSE FreshStats]
  /\ equipped'  = [p \in Players |-> IF p \in players' THEN saved[p].equipped ELSE NoKind]
  /\ fighting'  = {p \in players' : saved[p].foe # {}}

\* SetPlayerBattleEnemy, player after player: the first to be loaded takes every
\* enemy of its room that has the ID, and fights the last of them; a later one of
\* that ID and room finds none
Mut_AnyRoom(p, e) == file.players[p].foe = {enemyKind[e]}
Wants(p, e) == e \in enemies'[location'[p]] /\ file.players[p].foe = {enemyKind[e]}

LoadBattles ==
  LET wanting(e) == {p \in fighting' : Wants(p, e)}
      taken(p) == {e \in Enemies : battleWith'[e] = p}
  IN
  /\ \E order \in SUBSET fighting' :
       /\ \A p, q \in order : \A e \in Enemies : {p, q} \subseteq wanting(e) => p = q
       /\ \A e \in Enemies : wanting(e) # {} => wanting(e) \cap order # {}
       /\ battleWith' = [e \in Enemies |->
            IF wanting(e) = {} THEN NoPlayer ELSE CHOOSE p \in order : p \in wanting(e)]
  /\ opponent' \in [Players -> Enemies \cup {NoEnemy}]
  /\ \A p \in Players : IF p \in fighting' /\ taken(p) # {} THEN opponent'[p] \in taken(p)
                        ELSE opponent'[p] = NoEnemy

\* The program is started anew, or 'reset' was typed; then 'load'
Load ==
  /\ Complete
  /\ LoadItems /\ LoadEnemies /\ LoadPlayers /\ LoadBattles
  /\ broken' = {r \in ExitRooms : file.rooms[r].broken}
  /\ samosborGoing' = FALSE
  /\ file' = Blank
  /\ UNCHANGED overtaken

-----------------------------------------------------------------------------

\* A handler of the running game, while no file is written or between two records
Play ==
  /\ Playing
  /\ IF file = Blank THEN Next /\ UNCHANGED overtaken ELSE Overtake
  /\ UNCHANGED file

SavedInit == Init /\ file = Blank /\ overtaken = 0

SavedNext ==
  \/ Play \/ Autosave \/ Load
  \/ \E r \in Rooms : SaveRoom(r) \/ SaveRoomAmid(r)
  \/ \E p \in Players : SavePlayer(p) \/ SavePlayerAmid(p)

SavedSpec == SavedInit /\ [][SavedNext]_allVars

-----------------------------------------------------------------------------
(* What is always true *)

\* Battles are pairs, through any number of crashes and loads: a file that shows one
\* moment gives every fighter its enemy and no enemy two. (A file that handlers have
\* overtaken may show two players with the one enemy that one of them had left to the
\* other, and the second to be loaded then fights a null pointer.)
SavedPairing == overtaken = 0 => Pairing

\* And whatever the file: an enemy that a loaded game shows as busy is fought by the
\* player it names, and nobody is kept from an enemy for ever. No enemy can be lost to
\* a save that handlers overtake, only a fighter can be left without one.
BusyAreFought ==
  \A e \in Enemies : LET fighter == battleWith[e] IN
    fighter # NoPlayer =>
      fighter \in fighting /\ opponent[fighter] = e /\ e \in enemies[location[fighter]]

\* Nobody comes back at zero health, though neither the health of enemies nor who is
\* dead is written. (The file of a 'save' may have caught a player between a blow
\* and the death check.)
SavedNobodyAtZero == overtaken = 0 => NobodyAtZero

\* The exits stay in step with who has passed them, through any number of crashes
\* and loads: the file of a 'save' that handlers have overtaken is excepted, its
\* players may have climbed through an exit its rooms show broken.
SavedFloorsBelowRepaired == overtaken = 0 => FloorsBelowRepaired

-----------------------------------------------------------------------------
(* What a step may never do *)

\* Loading what no handler has overtaken gives back the game that was saved: the
\* same belongings and exits, the same enemies, and whoever was in battle fights
\* an enemy of the same ID in the same room.
RoundTrip ==
  [][Complete /\ file' = Blank /\ overtaken = 0 =>
       /\ players' = players /\ broken' = broken /\ fighting' = fighting
       /\ \A p \in players : /\ location'[p] = location[p] /\ stats'[p] = stats[p]
                             /\ equipped'[p] = equipped[p]
                             /\ Count(inventory'[p]) = Count(inventory[p])
       /\ \A p \in fighting : enemyKind[opponent'[p]] = enemyKind[opponent[p]]
       /\ \A r \in Rooms : /\ Count(items'[r]) = Count(items[r])
                           /\ CountEnemies(enemies'[r]) = CountEnemies(enemies[r])]_allVars
=============================================================================
