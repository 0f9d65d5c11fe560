------------------------------ MODULE SaveProofs ------------------------------
(***************************************************************************)
(* What survives a crash: theorems about SaveLoad for every map and any    *)
(* number of players, saves and loads.  A file that no handler has         *)
(* overtaken shows the game as it is; loading it gives that game back, as  *)
(* sound as a generated one.  Of a file that handlers have overtaken less  *)
(* is left: its objects are in one place, and no enemy in it is busy with  *)
(* a player who does not fight it.  Battles need that an ID and a room     *)
(* tell which enemy is meant: no room was generated with two enemies of    *)
(* one ID.                                                                 *)
(***************************************************************************)
EXTENDS SaveLoad, ItemProofs

-----------------------------------------------------------------------------
(* Files that no handler has overtaken *)

\* A file has a place for every room and for every player.
Shape ==
  /\ file = [rooms |-> file.rooms, players |-> file.players]
  /\ file.rooms = [r \in Rooms |-> file.rooms[r]]
  /\ file.players = [p \in Players |-> file.players[p]]

\* The records that are written show the game as it is: nothing happens between
\* two of them, and between a complete file and its loading.
Fresh ==
  /\ overtaken \in Nat /\ Shape
  /\ overtaken = 0 =>
       /\ \A r \in Rooms : file.rooms[r] # NoRecord => file.rooms[r] = RoomRecord(r)
       /\ \A p \in Players : file.players[p] # NoRecord =>
            p \in players /\ file.players[p] = PlayerRecord(p)

LEMMA RecordFields ==
  /\ \A r : /\ RoomRecord(r).items = Count(items[r])
           /\ RoomRecord(r).enemies = CountEnemies(enemies[r])
           /\ RoomRecord(r).broken = (r \in broken)
  /\ \A p : /\ PlayerRecord(p).location = location[p] /\ PlayerRecord(p).stats = stats[p]
           /\ PlayerRecord(p).equipped = equipped[p] /\ PlayerRecord(p).foe = Foe(p)
           /\ PlayerRecord(p).bag = Count(inventory[p])
BY DEF RoomRecord, PlayerRecord

\* What is written of the world does not change while the world does not.
LEMMA RecordsStay ==
  ASSUME UNCHANGED worldVars
  PROVE  /\ \A r \in Rooms : RoomRecord(r)' = RoomRecord(r)
         /\ \A p \in Players : PlayerRecord(p)' = PlayerRecord(p)
         /\ players' = players
BY DEF worldVars, playerVars, bodyVars, battleVars, itemVars, enemyVars,
       RoomRecord, PlayerRecord, Foe, Count, OfKind, CountEnemies

\* What a step does to the file: nothing, a record of a room or of a player is
\* added to it, it is written whole, or it is loaded.
Adds(r, record) == file' = [file EXCEPT !.rooms[r] = record]
AddsPlayer(p, record) == file' = [file EXCEPT !.players[p] = record]

LEMMA Written ==
  ASSUME Shape
  PROVE  /\ file' = file => Shape'
         /\ file' = Blank \/ file' = WholeFile => Shape'
         /\ \A r \in Rooms : \A record : Adds(r, record) =>
              /\ Shape' /\ file'.players = file.players
              /\ \A s \in Rooms : file'.rooms[s] = IF s = r THEN record ELSE file.rooms[s]
         /\ \A p \in Players : \A record : AddsPlayer(p, record) =>
              /\ Shape' /\ file'.rooms = file.rooms
              /\ \A q \in Players : file'.players[q] = IF q = p THEN record ELSE file.players[q]
<1>1. file' = file => Shape'
  BY DEF Shape
<1>2. file' = Blank \/ file' = WholeFile => Shape'
  BY DEF Shape, Blank, WholeFile
<1>3. ASSUME NEW r \in Rooms, NEW record, Adds(r, record)
      PROVE  /\ Shape' /\ file'.players = file.players
             /\ \A s \in Rooms : file'.rooms[s] = IF s = r THEN record ELSE file.rooms[s]
  BY <1>3 DEF Shape, Adds
<1>4. ASSUME NEW p \in Players, NEW record, AddsPlayer(p, record)
      PROVE  /\ Shape' /\ file'.rooms = file.rooms
             /\ \A q \in Players : file'.players[q] = IF q = p THEN record ELSE file.players[q]
  BY <1>4 DEF Shape, AddsPlayer
<1> QED BY <1>1, <1>2, <1>3, <1>4

LEMMA FreshKept == Fresh /\ [SavedNext]_allVars => Fresh'
<1> SUFFICES ASSUME Fresh, [SavedNext]_allVars PROVE Fresh'
  OBVIOUS
<1> USE DEF Fresh
<1>1. CASE Play
  <2>1. file' = file /\ Shape'
    BY <1>1, Written DEF Play
  <2>2. overtaken' \in Nat /\ (overtaken' = 0 => file = Blank)
    BY <1>1 DEF Play, Overtake
  <2>3. file = Blank => /\ \A r \in Rooms : file.rooms[r] = NoRecord
                        /\ \A p \in Players : file.players[p] = NoRecord
    BY DEF Blank
  <2> QED BY <2>1, <2>2, <2>3
<1>2. CASE Load
  <2>1. file' = Blank /\ overtaken' = overtaken /\ Shape'
    BY <1>2, Written DEF Load
  <2>2. /\ \A r \in Rooms : file'.rooms[r] = NoRecord
        /\ \A p \in Players : file'.players[p] = NoRecord
    BY <2>1 DEF Blank
  <2> QED BY <2>1, <2>2
<1>3. CASE Autosave
  <2>1. file' = WholeFile /\ overtaken' = overtaken /\ Shape' /\ UNCHANGED worldVars
    BY <1>3, Written DEF Autosave
  <2>2. /\ \A r \in Rooms : file'.rooms[r] = RoomRecord(r)
        /\ \A p \in Players : file'.players[p] = IF p \in players THEN PlayerRecord(p) ELSE NoRecord
    BY <2>1 DEF WholeFile
  <2> QED BY <2>1, <2>2, RecordsStay
<1>4. ASSUME NEW r \in Rooms, SaveRoom(r) PROVE Fresh'
  <2>1. Adds(r, RoomRecord(r)) /\ overtaken' = overtaken /\ UNCHANGED worldVars
    BY <1>4 DEF SaveRoom, Adds
  <2>2. /\ Shape' /\ file'.players = file.players
        /\ \A s \in Rooms : file'.rooms[s] = IF s = r THEN RoomRecord(r) ELSE file.rooms[s]
    BY <2>1, Written
  <2> QED BY <2>1, <2>2, RecordsStay
<1>5. ASSUME NEW p \in Players, SavePlayer(p) PROVE Fresh'
  <2>1. AddsPlayer(p, PlayerRecord(p)) /\ overtaken' = overtaken /\ UNCHANGED worldVars
        /\ p \in players
    BY <1>5 DEF SavePlayer, AddsPlayer, MaySave
  <2>2. /\ Shape' /\ file'.rooms = file.rooms
        /\ \A q \in Players : file'.players[q] = IF q = p THEN PlayerRecord(p) ELSE file.players[q]
    BY <2>1, Written
  <2> QED BY <2>1, <2>2, RecordsStay
<1>6. ASSUME NEW p \in Players, SavePlayerAmid(p) PROVE Fresh'
  <2>1. PICK record \in PlayersAmid(p) : AddsPlayer(p, record)
    BY <1>6 DEF SavePlayerAmid, AddsPlayer
  <2>2. Shape'
    BY <2>1, Written
  <2>3. overtaken' \in Nat /\ overtaken' # 0
    BY <1>6 DEF SavePlayerAmid, Overtake
  <2> QED BY <2>2, <2>3
<1>7. CASE UNCHANGED allVars
  <2>1. file' = file /\ overtaken' = overtaken /\ UNCHANGED worldVars
    BY <1>7 DEF allVars, saveVars
  <2> QED BY <2>1, RecordsStay, Written
<1>8. ASSUME NEW r \in Rooms, SaveRoomAmid(r) PROVE Fresh'
  <2>1. PICK record \in RoomsAmid(r) : Adds(r, record)
    BY <1>8 DEF SaveRoomAmid, Adds
  <2>2. Shape'
    BY <2>1, Written
  <2>3. overtaken' \in Nat /\ overtaken' # 0
    BY <1>8 DEF SaveRoomAmid, Overtake
  <2> QED BY <2>2, <2>3
<1> QED BY <1>1, <1>2, <1>3, <1>4, <1>5, <1>6, <1>7, <1>8 DEF SavedNext

\* A complete one shows all of it.
LEMMA FreshIsWhole ==
  ASSUME Fresh, Complete, overtaken = 0, players \subseteq Players
  PROVE  /\ Saved = players
         /\ \A r \in Rooms : file.rooms[r] = RoomRecord(r)
         /\ \A p \in players : file.players[p] = PlayerRecord(p)
BY DEF Fresh, Complete, RoomsWritten, Saved

\* A step of the file is a step of the world, a load, or leaves the world alone; and
\* no step takes back that handlers have overtaken a save.
LEMMA SavedSteps ==
  ASSUME overtaken \in Nat, [SavedNext]_allVars
  PROVE  /\ overtaken' \in Nat /\ (overtaken' = 0 => overtaken = 0)
         /\ [Next]_vars \/ Load \/ UNCHANGED worldVars
BY DEF SavedNext, Play, Overtake, Autosave, SaveRoom, SaveRoomAmid, SavePlayer, SavePlayerAmid,
       Load, allVars, saveVars

\* As long as no handler has overtaken a save, the players are where they came
\* through repaired exits; loading puts both back as they were.
Climbed == overtaken = 0 => Placed /\ FloorsBelowRepaired

LEMMA ClimbedKept == Fresh /\ Climbed /\ [SavedNext]_allVars => Climbed'
<1> SUFFICES ASSUME Fresh, Climbed, [SavedNext]_allVars, overtaken' = 0
             PROVE  Placed' /\ FloorsBelowRepaired'
  BY DEF Climbed
<1>1. overtaken = 0 /\ ([Next]_vars \/ Load \/ UNCHANGED worldVars)
  BY SavedSteps DEF Fresh
<1>2. Placed /\ FloorsBelowRepaired
  BY <1>1 DEF Climbed
<1>3. CASE [Next]_vars
  BY <1>2, <1>3, PlacedKept, FloorsKept
<1>4. CASE Load
  <2>1. /\ Saved = players
        /\ \A r \in Rooms : file.rooms[r] = RoomRecord(r)
        /\ \A p \in players : file.players[p] = PlayerRecord(p)
    BY <1>1, <1>2, <1>4, FreshIsWhole DEF Load, Placed
  <2>2. \A r \in Rooms : file.rooms[r].broken = (r \in broken)
    BY <2>1, RecordFields
  <2>3. players' = players /\ broken' = {r \in ExitRooms : r \in broken}
    BY <1>4, <2>1, <2>2, MapAssumption DEF Load, LoadPlayers
  <2>4. \A p \in players : file.players[p].location = location[p]
    BY <2>1, RecordFields
  <2>5. location' = [p \in Players |-> IF p \in players THEN location[p] ELSE NoRoom]
    BY <1>4, <2>3, <2>4 DEF Load, LoadPlayers
  <2>6. Placed'
    BY <1>2, <2>3, <2>5 DEF Placed
  <2>7. \A p \in players : location'[p] = location[p]
    BY <1>2, <2>5 DEF Placed
  <2> QED BY <1>2, <2>3, <2>6, <2>7 DEF FloorsBelowRepaired
<1>5. CASE UNCHANGED worldVars
  BY <1>2, <1>5 DEF worldVars, playerVars, bodyVars, Placed, FloorsBelowRepaired
<1> QED BY <1>1, <1>3, <1>4, <1>5

LEMMA InitFresh == SavedInit => Fresh /\ Climbed
BY DEF SavedInit, Init, Blank, Fresh, Shape, Climbed, Placed, FloorsBelowRepaired

\* Through any number of crashes, resets and loads: who is above a floor finds its
\* exit repaired, unless handlers ran while a save was writing (Game::SaveGame and
\* Game::LoadGame, Game.cpp:2842-2932). Whatever else a load with twins breaks, it
\* does not break this.
THEOREM LoadedFloorsAreOpened == SavedSpec => []SavedFloorsBelowRepaired
<1>1. Climbed => SavedFloorsBelowRepaired
  BY DEF Climbed, SavedFloorsBelowRepaired
<1> QED BY InitFresh, FreshKept, ClimbedKept, <1>1, PTL DEF SavedSpec

-----------------------------------------------------------------------------
(* Battles *)

\* No room was generated with two enemies of one ID.
NoTwins ==
  \A r \in Rooms : \A e, f \in InitialEnemies[r] : enemyKind[e] = enemyKind[f] => e = f

\* And none has come into being since.
Alone == \A r \in Rooms : \A e, f \in enemies[r] : enemyKind[e] = enemyKind[f] => e = f

\* Of an ID a room is written with one enemy or none.
RoomsOK == \A r \in Rooms : file.rooms[r].enemies \in [EnemyKinds -> {0, 1}]

\* The record of a player.
PlayerRecords ==
  [location : Rooms, stats : Stats, equipped : Kinds \cup {NoKind}, bag : Bags,
   foe : {{}} \cup {{k} : k \in EnemyKinds}]

\* Whoever was in battle has its enemy among the rooms, and no two have the same one.
Matched ==
  \A p \in Saved : \A k \in file.players[p].foe :
    /\ file.rooms[file.players[p].location].enemies[k] = 1
    /\ \A q \in Saved :
         /\ file.players[q].foe = file.players[p].foe
         /\ file.players[q].location = file.players[p].location
         => q = p

FileOK == RoomsOK /\ Matched /\ \A p \in Saved : file.players[p] \in PlayerRecords

-----------------------------------------------------------------------------
(* Counting enemies of one ID *)

LEMMA CountIsNat ==
  ASSUME NEW S \in SUBSET Enemies
  PROVE  CountEnemies(S) \in [EnemyKinds -> Nat]
<1>1. ASSUME NEW k \in EnemyKinds
      PROVE  Cardinality({e \in S : enemyKind[e] = k}) \in Nat
  <2>1. {e \in S : enemyKind[e] = k} \in SUBSET Enemies
    OBVIOUS
  <2>2. IsFiniteSet({e \in S : enemyKind[e] = k})
    BY <2>1, GeneratedAssumption, FS_Subset
  <2> QED BY <2>2, FS_CardinalityType
<1> QED BY <1>1 DEF CountEnemies

\* Without twins an ID is counted once or not at all.
LEMMA CountAlone ==
  ASSUME NEW S \in SUBSET Enemies,
         \A e, f \in S : enemyKind[e] = enemyKind[f] => e = f
  PROVE  /\ CountEnemies(S) \in [EnemyKinds -> {0, 1}]
         /\ \A e \in S : CountEnemies(S)[enemyKind[e]] = 1
<1> DEFINE Of(k) == {e \in S : enemyKind[e] = k}
<1>1. ASSUME NEW e \in S PROVE Cardinality(Of(enemyKind[e])) = 1 /\ enemyKind[e] \in EnemyKinds
  <2>1. Of(enemyKind[e]) = {e}
    OBVIOUS
  <2> HIDE DEF Of
  <2>2. Cardinality(Of(enemyKind[e])) = 1
    BY <2>1, FS_Singleton
  <2>3. enemyKind[e] \in EnemyKinds
    BY ConfigAssumption
  <2> QED BY <2>2, <2>3
<1>2. ASSUME NEW k \in EnemyKinds PROVE Cardinality(Of(k)) \in {0, 1}
  <2>1. CASE Of(k) = {}
    <3> HIDE DEF Of
    <3> QED BY <2>1, FS_EmptySet
  <2>2. CASE Of(k) # {}
    <3>1. PICK e \in S : enemyKind[e] = k
      BY <2>2
    <3> HIDE DEF Of
    <3> QED BY <3>1, <1>1
  <2> QED BY <2>1, <2>2
<1>3. CountEnemies(S) = [k \in EnemyKinds |-> Cardinality(Of(k))]
  BY DEF CountEnemies
<1> HIDE DEF Of
<1> QED BY <1>1, <1>2, <1>3

\* And who is counted once is there, and alone.
LEMMA AloneCount ==
  ASSUME NEW S \in SUBSET Enemies, CountEnemies(S) \in [EnemyKinds -> {0, 1}]
  PROVE  /\ \A e, f \in S : enemyKind[e] = enemyKind[f] => e = f
         /\ \A k \in EnemyKinds : CountEnemies(S)[k] = 1 => \E e \in S : enemyKind[e] = k
<1> DEFINE Of(k) == {e \in S : enemyKind[e] = k}
<1>1. ASSUME NEW k \in EnemyKinds PROVE CountEnemies(S)[k] = Cardinality(Of(k)) /\ IsFiniteSet(Of(k))
  <2>1. Of(k) \in SUBSET Enemies
    OBVIOUS
  <2>2. IsFiniteSet(Of(k))
    <3> HIDE DEF Of
    <3> QED BY <2>1, GeneratedAssumption, FS_Subset
  <2> QED BY <2>2 DEF CountEnemies
<1>2. ASSUME NEW e \in S, NEW f \in S, enemyKind[e] = enemyKind[f] PROVE e = f
  <2> DEFINE k == enemyKind[e]
  <2>1. k \in EnemyKinds
    BY ConfigAssumption
  <2>2. e \in Of(k) /\ f \in Of(k)
    BY <1>2
  <2> HIDE DEF Of, k
  <2>3. Cardinality(Of(k)) \in {0, 1} /\ IsFiniteSet(Of(k))
    BY <1>1, <2>1
  <2>4. Of(k) # {}
    BY <2>2
  <2>5. Cardinality(Of(k)) = 1
    BY <2>3, <2>4, FS_EmptySet
  <2>6. \E x : Of(k) = {x}
    BY <2>3, <2>5, FS_Singleton
  <2> QED BY <2>2, <2>6
<1>3. ASSUME NEW k \in EnemyKinds, CountEnemies(S)[k] = 1 PROVE \E e \in S : enemyKind[e] = k
  <2>1. Of(k) # {}
    <3> HIDE DEF Of
    <3>1. Cardinality(Of(k)) = 1
      BY <1>1, <1>3
    <3> QED BY <3>1, FS_EmptySet
  <2> QED BY <2>1
<1> QED BY <1>2, <1>3

-----------------------------------------------------------------------------
(* Saving *)

LEMMA RoomsAreWritten ==
  ASSUME IInv, Alone, NEW r \in Rooms
  PROVE  /\ CountEnemies(enemies[r]) \in [EnemyKinds -> {0, 1}]
         /\ \A e \in enemies[r] : CountEnemies(enemies[r])[enemyKind[e]] = 1
<1>1. enemies[r] \in SUBSET Enemies
  BY DEF IInv, TypeOK
<1> QED BY <1>1, CountAlone DEF Alone

LEMMA EveryRoomIsWritten ==
  IInv /\ Alone => \A r \in Rooms : CountEnemies(enemies[r]) \in [EnemyKinds -> {0, 1}]
BY RoomsAreWritten

LEMMA EveryRoomIsWrittenThen ==
  (IInv /\ Alone => \A r \in Rooms : CountEnemies(enemies[r]) \in [EnemyKinds -> {0, 1}])'
BY EveryRoomIsWritten, PTL

\* Pairing makes of the IDs and rooms of the players' enemies a matching.
LEMMA WholeIsOK ==
  ASSUME IInv, Alone, Saved = players,
         \A r \in Rooms : file.rooms[r] = RoomRecord(r),
         \A p \in players : file.players[p] = PlayerRecord(p)
  PROVE  FileOK
<1>1. \A r \in Rooms : file.rooms[r].enemies = CountEnemies(enemies[r])
  BY RecordFields
<1>2. ASSUME NEW p \in fighting
      PROVE  /\ Foe(p) = {enemyKind[opponent[p]]} /\ opponent[p] \in Enemies
             /\ enemyKind[opponent[p]] \in EnemyKinds
             /\ p \in players /\ location[p] \in Rooms
             /\ opponent[p] \in enemies[location[p]] /\ battleWith[opponent[p]] = p
  <2>1. p \in players /\ location[p] \in Rooms
    BY DEF IInv, TypeOK
  <2>2. opponent[p] \in enemies[location[p]] /\ battleWith[opponent[p]] = p
    BY DEF IInv, Pairing
  <2>3. opponent[p] \in Enemies
    BY <2>1, <2>2 DEF IInv, TypeOK
  <2>4. enemyKind[opponent[p]] \in EnemyKinds
    BY <2>3, ConfigAssumption
  <2>5. Foe(p) = {enemyKind[opponent[p]]}
    BY DEF Foe
  <2> QED BY <2>1, <2>2, <2>3, <2>4, <2>5
<1>3. ASSUME NEW p \in players, p \notin fighting
      PROVE  Foe(p) = {}
  BY <1>3 DEF Foe
<1>4. ASSUME NEW p \in players PROVE PlayerRecord(p) \in PlayerRecords
  <2>1. Foe(p) \in {{}} \cup {{k} : k \in EnemyKinds}
    BY <1>2, <1>3
  <2>2. /\ p \in Players /\ location[p] \in Rooms /\ stats[p] \in Stats
        /\ equipped[p] \in Kinds \cup {NoKind} /\ inventory[p] \in SUBSET Items
    BY DEF IInv, TypeOK
  <2>3. Count(inventory[p]) \in Bags
    BY <2>2, CountType
  <2> HIDE DEF Stats, Bags
  <2> QED BY <2>1, <2>2, <2>3 DEF PlayerRecord, PlayerRecords
<1>5. \A p \in players : /\ file.players[p].foe = Foe(p)
                         /\ file.players[p].location = location[p]
  BY RecordFields
<1>6. ASSUME NEW p \in players, NEW k \in Foe(p)
      PROVE  /\ file.rooms[location[p]].enemies[k] = 1
             /\ \A q \in players : Foe(q) = Foe(p) /\ location[q] = location[p] => q = p
  <2>1. p \in fighting
    BY <1>3
  <2>2. k = enemyKind[opponent[p]]
    BY <1>2, <2>1
  <2>3. file.rooms[location[p]].enemies[k] = 1
    BY <1>1, <1>2, <2>1, <2>2, RoomsAreWritten
  <2>4. ASSUME NEW q \in players, Foe(q) = Foe(p), location[q] = location[p]
        PROVE  q = p
    <3>1. q \in fighting
      BY <1>3, <2>4
    <3>2. enemyKind[opponent[q]] = enemyKind[opponent[p]]
      BY <1>2, <2>1, <2>4, <3>1
    <3>3. opponent[q] = opponent[p]
      BY <1>2, <2>1, <2>4, <3>1, <3>2 DEF Alone
    <3> QED BY <1>2, <2>1, <3>1, <3>3
  <2> QED BY <2>3, <2>4
<1>7. Matched
  BY <1>5, <1>6 DEF Matched
<1>8. RoomsOK
  BY <1>1, RoomsAreWritten DEF RoomsOK
<1> QED BY <1>4, <1>7, <1>8 DEF FileOK

-----------------------------------------------------------------------------
(* Loading *)

LEMMA EnemiesLoaded ==
  ASSUME RoomsOK, Load
  PROVE  /\ enemies' \in [Rooms -> SUBSET Enemies]
         /\ \A r, s \in Rooms : r # s => enemies'[r] \cap enemies'[s] = {}
         /\ \A r \in Rooms : CountEnemies(enemies'[r]) = file.rooms[r].enemies
         /\ Alone'
         /\ \A r \in Rooms : \A k \in EnemyKinds :
              file.rooms[r].enemies[k] = 1 => \E e \in enemies'[r] : enemyKind[e] = k
<1>1. PICK stands \in [Enemies -> Rooms \cup {NoRoom}] :
        /\ enemies' = [r \in Rooms |-> {e \in Enemies : stands[e] = r}]
        /\ \A r \in Rooms : CountEnemies(enemies'[r]) = file.rooms[r].enemies
  BY DEF Load, LoadEnemies
<1>2. /\ enemies' \in [Rooms -> SUBSET Enemies]
      /\ \A r, s \in Rooms : r # s => enemies'[r] \cap enemies'[s] = {}
  BY <1>1
<1>3. ASSUME NEW r \in Rooms
      PROVE  /\ enemies'[r] \in SUBSET Enemies
             /\ CountEnemies(enemies'[r]) \in [EnemyKinds -> {0, 1}]
  <2>1. file.rooms[r].enemies \in [EnemyKinds -> {0, 1}]
    BY DEF RoomsOK
  <2>2. CountEnemies(enemies'[r]) = file.rooms[r].enemies
    BY <1>1
  <2> QED BY <1>2, <2>1, <2>2
<1>4. ASSUME NEW r \in Rooms
      PROVE  /\ \A e, f \in enemies'[r] : enemyKind[e] = enemyKind[f] => e = f
             /\ \A k \in EnemyKinds :
                  CountEnemies(enemies'[r])[k] = 1 => \E e \in enemies'[r] : enemyKind[e] = k
  BY <1>3, AloneCount
<1>5. Alone'
  BY <1>4 DEF Alone
<1>6. ASSUME NEW r \in Rooms, NEW k \in EnemyKinds, file.rooms[r].enemies[k] = 1
      PROVE  \E e \in enemies'[r] : enemyKind[e] = k
  <2>1. CountEnemies(enemies'[r])[k] = 1
    BY <1>1, <1>6
  <2> QED BY <1>4, <2>1
<1>7. \A r \in Rooms : CountEnemies(enemies'[r]) = file.rooms[r].enemies
  BY <1>1
<1> HIDE DEF CountEnemies
<1> QED BY <1>2, <1>5, <1>6, <1>7

LEMMA PlayersLoaded ==
  ASSUME FileOK, Load
  PROVE  /\ players' = Saved /\ players' \in SUBSET Players
         /\ inSession' = {} /\ dead' = {} /\ fighting' \in SUBSET players'
         /\ \A p \in players' : /\ file.players[p] \in PlayerRecords
                                /\ location'[p] = file.players[p].location
                                /\ stats'[p] = file.players[p].stats
                                /\ equipped'[p] = file.players[p].equipped
         /\ location' \in [Players -> Rooms \cup {NoRoom}]
         /\ stats' \in [Players -> Stats]
         /\ equipped' \in [Players -> Kinds \cup {NoKind}]
<1>1. LoadPlayers
  BY DEF Load
<1>2. /\ players' = Saved /\ players' \in SUBSET Players
      /\ inSession' = {} /\ dead' = {} /\ fighting' \in SUBSET players'
  BY <1>1 DEF LoadPlayers, Saved
<1>3. \A p \in players' : file.players[p] \in PlayerRecords
  BY <1>2 DEF FileOK
<1>4. FreshStats \in Stats
  BY ConfigAssumption DEF FreshStats, Stats
<1>5. \A p \in players' : /\ file.players[p].location \in Rooms
                          /\ file.players[p].stats \in Stats
                          /\ file.players[p].equipped \in Kinds \cup {NoKind}
  BY <1>3 DEF PlayerRecords
<1>6. /\ location' = [p \in Players |-> IF p \in players' THEN file.players[p].location ELSE NoRoom]
      /\ stats' = [p \in Players |-> IF p \in players' THEN file.players[p].stats ELSE FreshStats]
      /\ equipped' = [p \in Players |-> IF p \in players' THEN file.players[p].equipped ELSE NoKind]
  BY <1>1 DEF LoadPlayers
<1> HIDE DEF Stats
<1> QED BY <1>2, <1>3, <1>4, <1>5, <1>6

\* The file tells of each player in battle which enemy it fought, and of no other.
LEMMA FoeLoaded ==
  ASSUME FileOK, Load, NEW p \in fighting'
  PROVE  \E e \in Enemies : /\ \A x \in Enemies : Wants(p, x) <=> x = e
                            /\ \A q \in fighting' : Wants(q, e) => q = p
<1>0. RoomsOK
  BY DEF FileOK
<1>1. /\ p \in players' /\ fighting' \subseteq players' /\ players' = Saved
      /\ file.players[p] \in PlayerRecords
      /\ \A q \in players' : location'[q] = file.players[q].location
  BY PlayersLoaded
<1>2. \A q \in players' : location'[q] \in Rooms
  BY PlayersLoaded DEF PlayerRecords
<1>3. file.players[p].foe # {}
  BY DEF Load, LoadPlayers
<1>4. PICK k \in EnemyKinds : file.players[p].foe = {k}
  BY <1>1, <1>3 DEF PlayerRecords
<1>5. /\ file.rooms[location'[p]].enemies[k] = 1
      /\ \A q \in players' :
           file.players[q].foe = {k} /\ location'[q] = location'[p] => q = p
  <2>1. p \in Saved /\ k \in file.players[p].foe
    BY <1>1, <1>4
  <2>2. Matched
    BY DEF FileOK
  <2>3. /\ file.rooms[file.players[p].location].enemies[k] = 1
        /\ \A q \in Saved :
             file.players[q].foe = file.players[p].foe
             /\ file.players[q].location = file.players[p].location => q = p
    BY <2>1, <2>2 DEF Matched
  <2>4. location'[p] = file.players[p].location
    BY <1>1
  <2>5. \A q \in players' : location'[q] = file.players[q].location
    BY <1>1
  <2> QED BY <1>1, <1>4, <2>3, <2>4, <2>5
<1>6. PICK e \in enemies'[location'[p]] : enemyKind[e] = k
  BY <1>0, <1>1, <1>2, <1>5, EnemiesLoaded
<1>7. e \in Enemies
  BY <1>0, <1>1, <1>2, EnemiesLoaded
<1>8. ASSUME NEW x \in Enemies PROVE Wants(p, x) <=> x = e
  <2>1. Wants(p, e)
    BY <1>4, <1>6 DEF Wants
  <2>2. ASSUME Wants(p, x) PROVE x = e
    <3>1. x \in enemies'[location'[p]] /\ enemyKind[x] = k
      BY <1>4, <2>2 DEF Wants
    <3>2. Alone'
      BY <1>0, EnemiesLoaded
    <3> QED BY <1>1, <1>2, <1>6, <3>1, <3>2 DEF Alone
  <2> QED BY <2>1, <2>2
<1>9. ASSUME NEW q \in fighting', Wants(q, e) PROVE q = p
  <2>1. e \in enemies'[location'[q]] /\ file.players[q].foe = {k}
    BY <1>6, <1>9 DEF Wants
  <2>2. location'[q] = location'[p]
    BY <1>0, <1>1, <1>2, <1>6, <2>1, EnemiesLoaded
  <2> QED BY <1>1, <1>5, <2>1, <2>2
<1> QED BY <1>7, <1>8, <1>9

\* SetPlayerBattleEnemy finds it: battles are pairs again, with the same IDs.
LEMMA BattlesLoaded ==
  ASSUME FileOK, Load
  PROVE  /\ Pairing'
         /\ opponent' \in [Players -> Enemies \cup {NoEnemy}]
         /\ battleWith' \in [Enemies -> Players \cup {NoPlayer}]
         /\ \A p \in fighting' : file.players[p].foe = {enemyKind[opponent'[p]]}
<1> DEFINE wanting(e) == {p \in fighting' : Wants(p, e)}
           taken(p) == {e \in Enemies : battleWith'[e] = p}
<1>1. fighting' \subseteq Players
  BY PlayersLoaded
<1>2. PICK order \in SUBSET fighting' :
        /\ \A e \in Enemies : wanting(e) # {} => wanting(e) \cap order # {}
        /\ battleWith' = [e \in Enemies |->
             IF wanting(e) = {} THEN NoPlayer ELSE CHOOSE p \in order : p \in wanting(e)]
  BY DEF Load, LoadBattles
<1>3. /\ opponent' \in [Players -> Enemies \cup {NoEnemy}]
      /\ \A p \in Players : IF p \in fighting' /\ taken(p) # {} THEN opponent'[p] \in taken(p)
                            ELSE opponent'[p] = NoEnemy
  BY DEF Load, LoadBattles
<1>4. ASSUME NEW e \in Enemies, wanting(e) # {}
      PROVE  battleWith'[e] \in wanting(e)
  <2>1. \E p \in order : p \in wanting(e)
    BY <1>2, <1>4
  <2>2. battleWith'[e] = CHOOSE p \in order : p \in wanting(e)
    BY <1>2, <1>4
  <2> HIDE DEF wanting
  <2> QED BY <2>1, <2>2
<1>5. ASSUME NEW e \in Enemies, wanting(e) = {}
      PROVE  battleWith'[e] = NoPlayer
  BY <1>2, <1>5
<1>6. battleWith' \in [Enemies -> Players \cup {NoPlayer}]
  <2>1. \A e \in Enemies : battleWith'[e] \in Players \cup {NoPlayer}
    BY <1>1, <1>4, <1>5
  <2>2. battleWith' = [e \in Enemies |-> battleWith'[e]]
    <3> HIDE DEF wanting
    <3> QED BY <1>2
  <2> QED BY <2>1, <2>2
<1>7. ASSUME NEW p \in fighting'
      PROVE  opponent'[p] \in Enemies /\ battleWith'[opponent'[p]] = p /\ Wants(p, opponent'[p])
  <2>1. PICK e \in Enemies : /\ \A x \in Enemies : Wants(p, x) <=> x = e
                             /\ \A q \in fighting' : Wants(q, e) => q = p
    BY FoeLoaded
  <2>2. wanting(e) = {p}
    BY <2>1
  <2>3. battleWith'[e] = p
    BY <1>4, <2>2
  <2>4. taken(p) # {}
    BY <2>3
  <2>5. opponent'[p] \in taken(p) /\ p \in Players
    BY <1>1, <1>3, <2>4
  <2>6. opponent'[p] \in Enemies /\ battleWith'[opponent'[p]] = p
    BY <2>5
  <2>7. p # NoPlayer
    BY <1>1, SentinelAssumption
  <2>8. wanting(opponent'[p]) # {}
    BY <1>5, <2>6, <2>7
  <2>9. p \in wanting(opponent'[p])
    BY <1>4, <2>6, <2>8
  <2> QED BY <2>6, <2>9
<1>8. ASSUME NEW e \in Enemies, battleWith'[e] # NoPlayer
      PROVE  battleWith'[e] \in fighting' /\ opponent'[battleWith'[e]] = e
  <2> DEFINE p == battleWith'[e]
  <2>1. p \in fighting' /\ Wants(p, e)
    BY <1>4, <1>5, <1>8
  <2> HIDE DEF p
  <2>2. PICK x \in Enemies : \A y \in Enemies : Wants(p, y) <=> y = x
    BY <2>1, FoeLoaded
  <2>3. opponent'[p] = e
    BY <1>7, <2>1, <2>2
  <2> QED BY <2>1, <2>3 DEF p
<1>9. \A p \in fighting' : /\ opponent'[p] \in enemies'[location'[p]]
                           /\ file.players[p].foe = {enemyKind[opponent'[p]]}
  BY <1>7 DEF Wants
<1>10. Pairing'
  BY <1>7, <1>8, <1>9 DEF Pairing
<1> QED BY <1>3, <1>6, <1>9, <1>10

\* And what is needed of a file that handlers have overtaken: who takes an enemy
\* takes it in its own room, and there is one of that ID.
LEMMA BusyLoaded ==
  ASSUME RoomsOK, Load, \A p \in Saved : file.players[p].location \in Rooms
  PROVE  BusyAreFought'
<1> DEFINE wanting(e) == {p \in fighting' : Wants(p, e)}
           taken(p) == {e \in Enemies : battleWith'[e] = p}
<1>1. /\ fighting' \subseteq Players
      /\ \A p \in fighting' : location'[p] \in Rooms
  <2>1. players' = Saved /\ players' \subseteq Players /\ fighting' \subseteq players'
    BY DEF Load, LoadPlayers, Saved
  <2>2. location' = [p \in Players |-> IF p \in players' THEN file.players[p].location ELSE NoRoom]
    BY DEF Load, LoadPlayers
  <2> QED BY <2>1, <2>2
<1>2. PICK order \in SUBSET fighting' :
        /\ \A e \in Enemies : wanting(e) # {} => wanting(e) \cap order # {}
        /\ battleWith' = [e \in Enemies |->
             IF wanting(e) = {} THEN NoPlayer ELSE CHOOSE p \in order : p \in wanting(e)]
  BY DEF Load, LoadBattles
<1>3. \A p \in Players : IF p \in fighting' /\ taken(p) # {} THEN opponent'[p] \in taken(p)
                         ELSE opponent'[p] = NoEnemy
  BY DEF Load, LoadBattles
<1>4. ASSUME NEW e \in Enemies, battleWith'[e] # NoPlayer
      PROVE  battleWith'[e] \in fighting' /\ Wants(battleWith'[e], e)
  <2>1. wanting(e) # {}
    BY <1>2, <1>4
  <2>2. \E p \in order : p \in wanting(e)
    BY <1>2, <2>1
  <2>3. battleWith'[e] = CHOOSE p \in order : p \in wanting(e)
    <3> HIDE DEF wanting
    <3> QED BY <1>2, <2>1
  <2>4. battleWith'[e] \in wanting(e)
    <3> HIDE DEF wanting
    <3> QED BY <2>2, <2>3
  <2> QED BY <2>4
<1>5. ASSUME NEW e \in Enemies, NEW p, p = battleWith'[e], p # NoPlayer
      PROVE  p \in fighting' /\ opponent'[p] = e /\ e \in enemies'[location'[p]]
  <2>1. p \in fighting' /\ p \in Players /\ Wants(p, e) /\ location'[p] \in Rooms
    BY <1>1, <1>4, <1>5
  <2>2. opponent'[p] \in taken(p)
    BY <1>3, <1>5, <2>1
  <2>3. PICK x \in Enemies : x = opponent'[p] /\ battleWith'[x] = p
    BY <2>2
  <2>4. Wants(p, x)
    BY <1>4, <1>5, <2>3
  <2>5. /\ e \in enemies'[location'[p]] /\ x \in enemies'[location'[p]]
        /\ enemyKind[e] = enemyKind[x]
    BY <2>1, <2>4 DEF Wants
  <2>6. Alone'
    BY EnemiesLoaded
  <2>7. e = x
    BY <2>1, <2>5, <2>6 DEF Alone
  <2> QED BY <2>1, <2>3, <2>5, <2>7
<1> QED BY <1>5 DEF BusyAreFought

LEMMA LoadKeeps ==
  ASSUME FileOK, Load
  PROVE  IInv' /\ Alone'
<1>1. Alone' /\ enemies' \in [Rooms -> SUBSET Enemies]
  BY EnemiesLoaded DEF FileOK
<1>2. /\ players' \in SUBSET Players /\ inSession' = {} /\ dead' = {}
      /\ fighting' \in SUBSET players'
      /\ location' \in [Players -> Rooms \cup {NoRoom}]
      /\ \A p \in players' : location'[p] \in Rooms
      /\ stats' \in [Players -> Stats]
      /\ equipped' \in [Players -> Kinds \cup {NoKind}]
  BY PlayersLoaded DEF PlayerRecords
<1>3. /\ Pairing' /\ opponent' \in [Players -> Enemies \cup {NoEnemy}]
      /\ battleWith' \in [Enemies -> Players \cup {NoPlayer}]
  BY BattlesLoaded
<1>4. /\ items' \in [Rooms -> SUBSET Items] /\ inventory' \in [Players -> SUBSET Items]
      /\ itemDescription' = [r \in Rooms |-> Count(items'[r])]
  BY DEF Load, LoadItems
<1>5. itemDescription' \in [Rooms -> Bags]
  BY <1>4, CountType
<1>6. enemyDescription' \in [Rooms -> [EnemyKinds -> Nat]]
  <2>1. enemyDescription' = [r \in Rooms |-> CountEnemies(enemies'[r])]
    BY DEF Load, LoadEnemies
  <2>2. \A r \in Rooms : CountEnemies(enemies'[r]) \in [EnemyKinds -> Nat]
    BY <1>1, CountIsNat
  <2> QED BY <2>1, <2>2
<1>7. enemyHealth' \in [Enemies -> Nat]
  <2>1. enemyHealth' = [e \in Enemies |-> EnemyConfig[enemyKind[e]].health]
    BY DEF Load, LoadEnemies, Restored
  <2>2. \A e \in Enemies : EnemyConfig[enemyKind[e]].health \in Nat
    BY ConfigAssumption
  <2> QED BY <2>1, <2>2
<1>8. broken' \in SUBSET ExitRooms /\ samosborGoing' \in BOOLEAN
  BY DEF Load
<1>9. TypeOK'
  <2> HIDE DEF Stats, Bags
  <2> QED BY <1>1, <1>2, <1>3, <1>4, <1>5, <1>6, <1>7, <1>8 DEF TypeOK
<1>10. DeadLieStill'
  BY <1>2 DEF DeadLieStill
<1> QED BY <1>1, <1>3, <1>9, <1>10 DEF IInv

-----------------------------------------------------------------------------
(* A loaded game is as sound as a generated one *)

\* As many objects of every kind are as many objects: the matches between the
\* objects of one kind make up one match between all.
LEMMA CountSize ==
  ASSUME NEW S \in SUBSET Items, NEW T \in SUBSET Items, Count(S) = Count(T)
  PROVE  Cardinality(S) <= Cardinality(T)
<1> DEFINE m(k) == CHOOSE f : f \in Bijection(OfKind(k, S), OfKind(k, T))
           match == [i \in S |-> m(kind[i])[i]]
<1>1. ASSUME NEW k \in Kinds
      PROVE  m(k) \in Bijection(OfKind(k, S), OfKind(k, T))
  <2>1. Cardinality(OfKind(k, S)) = Count(S)[k] /\ Cardinality(OfKind(k, T)) = Count(T)[k]
    BY DEF Count
  <2>2. IsFiniteSet(OfKind(k, S)) /\ IsFiniteSet(OfKind(k, T))
    BY KindFinite
  <2>3. ExistsBijection(OfKind(k, S), OfKind(k, T))
    BY <2>1, <2>2, FS_SameCardinalityBij
  <2> QED BY <2>3 DEF ExistsBijection
<1> HIDE DEF m
<1>2. ASSUME NEW i \in S
      PROVE  /\ kind[i] \in Kinds /\ i \in OfKind(kind[i], S)
             /\ match[i] \in OfKind(kind[i], T)
  <2>1. kind[i] \in Kinds /\ i \in OfKind(kind[i], S)
    BY ConfigAssumption DEF OfKind
  <2>2. m(kind[i]) \in [OfKind(kind[i], S) -> OfKind(kind[i], T)]
    BY <1>1, <2>1 DEF Bijection, Injection
  <2> QED BY <2>1, <2>2
<1>3. ASSUME NEW i \in S, NEW j \in S, match[i] = match[j]
      PROVE  i = j
  <2>1. kind[i] = kind[j]
    BY <1>2, <1>3 DEF OfKind
  <2>2. m(kind[i])[i] = m(kind[i])[j]
    BY <1>3, <2>1
  <2>3. IsInjective(m(kind[i])) /\ DOMAIN m(kind[i]) = OfKind(kind[i], S)
    BY <1>1, <1>2 DEF Bijection, Injection
  <2>4. i \in OfKind(kind[i], S) /\ j \in OfKind(kind[i], S)
    BY <1>2, <2>1
  <2> QED BY <2>2, <2>3, <2>4 DEF IsInjective
<1>4. match \in Injection(S, T)
  <2>1. \A i \in S : match[i] \in T
    BY <1>2 DEF OfKind
  <2>2. match \in [S -> T]
    BY <2>1
  <2>3. IsInjective(match)
    BY <1>3 DEF IsInjective
  <2> QED BY <2>2, <2>3 DEF Injection
<1>5. IsFiniteSet(T)
  BY ItemsFinite
<1> HIDE DEF match
<1> QED BY <1>4, <1>5, FS_Injection

\* Players were saved alive and with no more than they can carry.
FileSound ==
  \A p \in Saved :
    /\ file.players[p].stats.health > 0
    /\ \E S \in SUBSET Items :
         /\ Count(S) = file.players[p].bag
         /\ Cardinality(S) <= file.players[p].stats.inventoryMaxSize

LEMMA WholeIsSound ==
  ASSUME BInv, OInv, Saved = players,
         \A p \in players : file.players[p] = PlayerRecord(p)
  PROVE  FileSound
<1>1. \A p \in players : /\ file.players[p].stats = stats[p]
                         /\ file.players[p].bag = Count(inventory[p])
  BY RecordFields
<1>2. \A p \in players : /\ stats[p].health > 0 /\ inventory[p] \in SUBSET Items
                         /\ Cardinality(inventory[p]) <= stats[p].inventoryMaxSize
  BY DEF BInv, NobodyAtZero, OInv, InventoryWithinLimit, IInv, TypeOK
<1> QED BY <1>1, <1>2 DEF FileSound

LEMMA ObjectsLoaded ==
  ASSUME Load
  PROVE  /\ ItemInOnePlace'
         /\ \A r \in Rooms : itemDescription'[r] = Count(items'[r])
         /\ inventory' \in [Players -> SUBSET Items]
         /\ \A p \in Players : IF p \in Saved
                               THEN Count(inventory'[p]) = file.players[p].bag
                               ELSE inventory'[p] = {}
<1>1. PICK lies \in [Items -> Rooms \cup {NoRoom}] :
        \E carried \in [Items -> Players \cup {NoPlayer}] :
          /\ \A i \in Items : lies[i] = NoRoom \/ carried[i] = NoPlayer
          /\ items' = [r \in Rooms |-> {i \in Items : lies[i] = r}]
          /\ inventory' = [p \in Players |-> {i \in Items : carried[i] = p}]
  BY DEF Load, LoadItems
<1>2. PICK carried \in [Items -> Players \cup {NoPlayer}] :
          /\ \A i \in Items : lies[i] = NoRoom \/ carried[i] = NoPlayer
          /\ items' = [r \in Rooms |-> {i \in Items : lies[i] = r}]
          /\ inventory' = [p \in Players |-> {i \in Items : carried[i] = p}]
  BY <1>1
<1>3. ItemInOnePlace'
  BY <1>2, SentinelAssumption DEF ItemInOnePlace
<1>4. inventory' \in [Players -> SUBSET Items]
  BY <1>2
<1>5. /\ \A p \in Players : IF p \in Saved
                            THEN Count(inventory'[p]) = file.players[p].bag
                            ELSE inventory'[p] = {}
      /\ itemDescription' = [r \in Rooms |-> Count(items'[r])]
  BY DEF Load, LoadItems
<1> QED BY <1>3, <1>4, <1>5

\* The texts are made anew from what is loaded.
LEMMA TextsLoaded ==
  ASSUME Load
  PROVE  Described'
<1>1. enemyDescription' = [r \in Rooms |-> CountEnemies(enemies'[r])]
  BY DEF Load, LoadEnemies
<1>2. \A r \in Rooms : \A k \in EnemyKinds :
        enemyDescription'[r][k] = Cardinality({e \in enemies'[r] : enemyKind[e] = k})
  BY <1>1 DEF CountEnemies
<1>3. \A r \in Rooms : itemDescription'[r] = Count(items'[r])
  BY ObjectsLoaded
<1> QED BY <1>2, <1>3 DEF Described, Count, OfKind

LEMMA LoadIsSound ==
  ASSUME FileOK, FileSound, Load
  PROVE  BInv' /\ OInv'
<1>1. IInv'
  BY LoadKeeps
<1>2. EnemiesApart'
  BY EnemiesLoaded DEF EnemiesApart, FileOK
<1>3. LoadPlayers /\ players' = Saved /\ players' \in SUBSET Players
  BY PlayersLoaded DEF Load
<1>4. stats' = [p \in Players |-> IF p \in players' THEN file.players[p].stats ELSE FreshStats]
  BY <1>3 DEF LoadPlayers
<1>5. NobodyAtZero'
  <2>1. ASSUME NEW p \in Players PROVE stats'[p].health > 0
    <3>1. CASE p \in players'
      BY <1>3, <1>4, <3>1 DEF FileSound
    <3>2. CASE p \notin players'
      BY <1>4, <3>2 DEF FreshStats
    <3> QED BY <3>1, <3>2
  <2>2. \A e \in Enemies : enemyHealth'[e] > 0
    BY ConfigAssumption DEF Load, LoadEnemies, Restored
  <2>3. \A r \in Rooms : enemies'[r] \in SUBSET Enemies
    BY EnemiesLoaded DEF FileOK
  <2> QED BY <2>1, <2>2, <2>3 DEF NobodyAtZero
<1>6. Described'
  BY TextsLoaded
<1>7. InventoryWithinLimit'
  <2>1. ASSUME NEW p \in Players PROVE Cardinality(inventory'[p]) <= stats'[p].inventoryMaxSize
    <3>1. CASE p \in players'
      <4>1. PICK S \in SUBSET Items :
              /\ Count(S) = file.players[p].bag
              /\ Cardinality(S) <= file.players[p].stats.inventoryMaxSize
        BY <1>3, <3>1 DEF FileSound
      <4>2. Count(inventory'[p]) = Count(S) /\ inventory'[p] \in SUBSET Items
        BY <1>3, <3>1, <4>1, ObjectsLoaded
      <4>3. Cardinality(inventory'[p]) <= Cardinality(S)
        BY <4>2, CountSize
      <4>4. stats'[p] = file.players[p].stats
        BY <1>3, <1>4, <3>1
      <4>5. stats'[p].inventoryMaxSize \in Nat
        BY <1>1 DEF IInv, TypeOK, Stats
      <4>6. Cardinality(inventory'[p]) \in Nat /\ Cardinality(S) \in Nat
        BY <4>2, ItemsFinite
      <4> QED BY <4>1, <4>3, <4>4, <4>5, <4>6
    <3>2. CASE p \notin players'
      <4>1. inventory'[p] = {}
        BY <1>3, <3>2, ObjectsLoaded
      <4>2. Cardinality(inventory'[p]) = 0
        BY <4>1, FS_EmptySet
      <4>3. stats'[p].inventoryMaxSize = maxInventorySize /\ maxInventorySize \in Nat
        BY <1>4, <3>2, ConfigAssumption DEF FreshStats
      <4> QED BY <4>2, <4>3
    <3> QED BY <3>1, <3>2
  <2> QED BY <2>1 DEF InventoryWithinLimit
<1>8. Newcomers'
  BY <1>3, ObjectsLoaded DEF Newcomers
<1>9. ItemInOnePlace'
  BY ObjectsLoaded
<1> QED BY <1>1, <1>2, <1>5, <1>6, <1>7, <1>8, <1>9 DEF BInv, OInv

-----------------------------------------------------------------------------
(* The theorems *)

\* What a generated game keeps, and a loaded one.
Sound == Alone /\ BInv /\ OInv

\* The invariant: the game is sound unless it was loaded from a file that handlers
\* have overtaken; of every file, and of every game, what BusyLoaded,
\* ObjectsLoaded and TextsLoaded need and give.
SInv ==
  /\ Fresh
  /\ overtaken = 0 \/ file # Blank => Sound
  /\ \A r \in Rooms : file.rooms[r] # NoRecord =>
       file.rooms[r].enemies \in [EnemyKinds -> {0, 1}]
  /\ \A p \in Saved : file.players[p].location \in Rooms
  /\ BusyAreFought /\ ItemInOnePlace /\ Described

LEMMA SoundImplies == Sound => BusyAreFought /\ ItemInOnePlace /\ Described
<1> SUFFICES ASSUME Sound PROVE BusyAreFought /\ ItemInOnePlace /\ Described
  OBVIOUS
<1>1. Pairing /\ ItemInOnePlace /\ Described
  BY DEF Sound, BInv, OInv, IInv
<1>2. BusyAreFought
  BY <1>1 DEF Pairing, BusyAreFought
<1> QED BY <1>1, <1>2

LEMMA SoundKept ==
  ASSUME Sound, [Next]_vars
  PROVE  Sound'
<1>1. BInv' /\ OInv' /\ Thinned
  BY NextBInv, NextOInv, NextMakesStep DEF Sound, BInv, Step
<1>2. Alone'
  BY <1>1 DEF Thinned, Alone, Sound
<1> QED BY <1>1, <1>2 DEF Sound

LEMMA InitSInv == NoTwins /\ SavedInit => SInv
<1> SUFFICES ASSUME NoTwins, SavedInit PROVE SInv
  OBVIOUS
<1>1. Init /\ file = Blank /\ Fresh
  BY InitFresh DEF SavedInit
<1>2. Alone
  BY <1>1 DEF Init, Alone, NoTwins
<1>3. Sound
  BY <1>1, <1>2, InitBInv, InitOInv DEF Sound
<1>4. /\ \A r \in Rooms : file.rooms[r] = NoRecord
      /\ Saved = {}
  BY <1>1 DEF Blank, Saved
<1> QED BY <1>1, <1>3, <1>4, SoundImplies DEF SInv

\* Loading what no handler has overtaken.
LEMMA WholeIsLoaded ==
  ASSUME SInv, Load, overtaken = 0
  PROVE  FileOK /\ Sound'
<1>1. Sound /\ IInv /\ Alone /\ players \subseteq Players
  BY DEF SInv, Sound, BInv, IInv, TypeOK
<1>2. /\ Saved = players
      /\ \A r \in Rooms : file.rooms[r] = RoomRecord(r)
      /\ \A p \in players : file.players[p] = PlayerRecord(p)
  BY <1>1, FreshIsWhole DEF SInv, Load
<1>3. FileOK
  BY <1>1, <1>2, WholeIsOK
<1>4. FileSound
  BY <1>1, <1>2, WholeIsSound DEF Sound
<1> QED BY <1>3, <1>4, LoadKeeps, LoadIsSound DEF Sound

\* A record joins the file: its room shows one enemy of an ID or none, its player
\* is in a room.
LEMMA RecordsKept ==
  ASSUME SInv, Sound', Fresh',
         \A r \in Rooms : file'.rooms[r] \in {NoRecord, file.rooms[r]}
           \/ file'.rooms[r].enemies \in [EnemyKinds -> {0, 1}],
         \A p \in Players : file'.players[p] \in {NoRecord, file.players[p]}
           \/ file'.players[p].location \in Rooms
  PROVE  SInv'
<1>1. (BusyAreFought /\ ItemInOnePlace /\ Described)'
  BY SoundImplies, PTL
<1>2. \A r \in Rooms : file'.rooms[r] # NoRecord =>
        file'.rooms[r].enemies \in [EnemyKinds -> {0, 1}]
  BY DEF SInv
<1>3. \A p \in Saved' : file'.players[p].location \in Rooms
  BY DEF SInv, Saved
<1> QED BY <1>1, <1>2, <1>3 DEF SInv

LEMMA NextSInv == SInv /\ [SavedNext]_allVars => SInv'
<1> SUFFICES ASSUME SInv, [SavedNext]_allVars PROVE SInv'
  OBVIOUS
<1> USE DEF SInv
<1>1. Fresh' /\ overtaken \in Nat
  BY FreshKept DEF Fresh
<1>2. ASSUME Playing PROVE Sound /\ IInv /\ Alone
  BY <1>1, <1>2 DEF Playing, Sound, BInv
<1>3. ASSUME UNCHANGED worldVars, Sound PROVE Sound'
  <2>1. UNCHANGED vars
    BY <1>3 DEF worldVars, vars
  <2> QED BY <1>3, <2>1, SoundKept
<1>4. CASE Play
  <2>1. Playing /\ [Next]_vars /\ file' = file
    BY <1>4 DEF Play, Overtake
  <2>2. Sound'
    BY <1>2, <2>1, SoundKept
  <2> QED BY <1>1, <2>1, <2>2, RecordsKept
<1>5. CASE Autosave
  <2>1. Playing /\ UNCHANGED worldVars /\ file' = WholeFile
    BY <1>5 DEF Autosave
  <2>2. Sound'
    BY <1>2, <1>3, <2>1
  <2>3. /\ \A r \in Rooms : file'.rooms[r].enemies \in [EnemyKinds -> {0, 1}]
        /\ \A p \in players : file'.players[p].location \in Rooms
        /\ \A p \in Players \ players : file'.players[p] = NoRecord
    <3>1. /\ \A r \in Rooms : file'.rooms[r] = RoomRecord(r)
          /\ \A p \in Players : file'.players[p] = IF p \in players THEN PlayerRecord(p) ELSE NoRecord
      BY <2>1 DEF WholeFile
    <3>2. \A p \in players : p \in Players /\ location[p] \in Rooms
      BY <1>2, <2>1 DEF IInv, TypeOK
    <3> QED BY <1>2, <2>1, <3>1, <3>2, RecordFields, RoomsAreWritten
  <2> QED BY <1>1, <2>2, <2>3, RecordsKept
<1>6. ASSUME NEW r \in Rooms, SaveRoom(r) PROVE SInv'
  <2>1. Playing /\ UNCHANGED worldVars /\ Adds(r, RoomRecord(r)) /\ Shape
    BY <1>6 DEF SaveRoom, MayWrite, Adds, Fresh
  <2>2. Sound'
    BY <1>2, <1>3, <2>1
  <2>3. /\ file'.players = file.players
        /\ \A s \in Rooms : file'.rooms[s] = IF s = r THEN RoomRecord(r) ELSE file.rooms[s]
    BY <2>1, Written
  <2>4. RoomRecord(r).enemies \in [EnemyKinds -> {0, 1}]
    BY <1>2, <2>1, RecordFields, RoomsAreWritten
  <2> QED BY <1>1, <2>2, <2>3, <2>4, RecordsKept
<1>7. ASSUME NEW p \in Players, NEW record, AddsPlayer(p, record), record.location = location[p],
             MaySave(p), Sound'
      PROVE  SInv'
  <2>1. Playing /\ p \in players /\ Shape
    BY <1>7 DEF MaySave, Fresh
  <2>2. /\ file'.rooms = file.rooms
        /\ \A q \in Players : file'.players[q] = IF q = p THEN record ELSE file.players[q]
    BY <1>7, <2>1, Written
  <2>3. record.location \in Rooms
    BY <1>2, <1>7, <2>1 DEF IInv, TypeOK
  <2> QED BY <1>1, <1>7, <2>2, <2>3, RecordsKept
<1>8. ASSUME NEW p \in Players, SavePlayer(p) PROVE SInv'
  <2>1. MaySave(p) /\ Playing /\ UNCHANGED worldVars /\ AddsPlayer(p, PlayerRecord(p))
    BY <1>8 DEF SavePlayer, MaySave, AddsPlayer
  <2>2. Sound'
    BY <1>2, <1>3, <2>1
  <2>3. PlayerRecord(p).location = location[p]
    BY RecordFields
  <2> QED BY <1>7, <2>1, <2>2, <2>3
<1>9. ASSUME NEW p \in Players, SavePlayerAmid(p) PROVE SInv'
  <2>1. MaySave(p) /\ Playing /\ Next
    BY <1>9 DEF SavePlayerAmid, MaySave, Overtake
  <2>2. PICK record \in PlayersAmid(p) : AddsPlayer(p, record)
    BY <1>9 DEF SavePlayerAmid, AddsPlayer
  <2>3. record.location = location[p]
    BY <2>2 DEF PlayersAmid
  <2>4. Sound'
    BY <1>2, <2>1, SoundKept
  <2> QED BY <1>7, <2>1, <2>2, <2>3, <2>4
<1>10. ASSUME NEW r \in Rooms, SaveRoomAmid(r) PROVE SInv'
  <2>1. Playing /\ Next /\ Shape
    BY <1>10 DEF SaveRoomAmid, MayWrite, Overtake, Fresh
  <2>2. PICK record \in RoomsAmid(r) : Adds(r, record)
    BY <1>10 DEF SaveRoomAmid, Adds
  <2>3. Sound'
    BY <1>2, <2>1, SoundKept
  <2>4. (IInv /\ Alone)'
    BY <2>3 DEF Sound, BInv
  <2>5. \A s \in Rooms : CountEnemies(enemies[s])' \in [EnemyKinds -> {0, 1}]
    BY <2>4, EveryRoomIsWrittenThen
  <2>6. record.enemies \in [EnemyKinds -> {0, 1}]
    <3>1. record.enemies \in {CountEnemies(enemies[r]), CountEnemies(enemies[r])'}
      BY <2>2 DEF RoomsAmid
    <3>2. CountEnemies(enemies[r]) \in [EnemyKinds -> {0, 1}]
      BY <1>2, <2>1, EveryRoomIsWritten
    <3>3. CountEnemies(enemies[r])' \in [EnemyKinds -> {0, 1}]
      BY <2>5
    <3>4. CASE record.enemies = CountEnemies(enemies[r])
      BY <3>2, <3>4
    <3>5. CASE record.enemies = CountEnemies(enemies[r])'
      BY <3>3, <3>5
    <3> QED BY <3>1, <3>4, <3>5
  <2>7. /\ file'.players = file.players
        /\ \A s \in Rooms : file'.rooms[s] = IF s = r THEN record ELSE file.rooms[s]
    BY <2>1, <2>2, Written
  <2> QED BY <1>1, <2>3, <2>6, <2>7, RecordsKept
<1>11. CASE Load
  <2>1. file' = Blank /\ overtaken' = overtaken
    BY <1>11 DEF Load
  <2>2. /\ \A r \in Rooms : file'.rooms[r] = NoRecord
        /\ \A p \in Players : file'.players[p] = NoRecord
    BY <2>1 DEF Blank
  <2>3. CASE overtaken = 0
    <3>1. Sound'
      BY <1>11, <2>3, WholeIsLoaded
    <3> QED BY <1>1, <2>2, <3>1, RecordsKept
  <2>4. CASE overtaken # 0
    <3>1. RoomsOK
      BY <1>11 DEF Load, Complete, RoomsWritten, RoomsOK
    <3>2. BusyAreFought' /\ ItemInOnePlace' /\ Described'
      BY <1>11, <3>1, BusyLoaded, ObjectsLoaded, TextsLoaded
    <3>3. Saved' = {}
      BY <2>2 DEF Saved
    <3> QED BY <1>1, <2>1, <2>2, <2>4, <3>2, <3>3
  <2> QED BY <2>3, <2>4
<1>12. CASE UNCHANGED allVars
  <2>1. file' = file /\ overtaken' = overtaken /\ UNCHANGED worldVars /\ UNCHANGED vars
    BY <1>12 DEF allVars, saveVars, worldVars, vars
  <2>2. CASE Sound
    BY <1>1, <1>3, <2>1, <2>2, RecordsKept
  <2>3. CASE ~Sound
    <3>1. overtaken' # 0 /\ file' = Blank
      BY <2>1, <2>3
    <3>2. BusyAreFought' /\ ItemInOnePlace' /\ Described'
      BY <2>1 DEF vars, playerVars, bodyVars, battleVars, itemVars, enemyVars,
                  BusyAreFought, ItemInOnePlace, Described, Count, OfKind
    <3> QED BY <1>1, <2>1, <3>1, <3>2 DEF Saved
  <2> QED BY <2>2, <2>3
<1> QED BY <1>4, <1>5, <1>6, <1>8, <1>9, <1>10, <1>11, <1>12 DEF SavedNext

\* Where no room was generated with two enemies of one ID, battles are pairs before
\* and after every load of a file that shows one moment
\* (Game::SetPlayerBattleEnemy, Game.cpp:2827-2840).
THEOREM LoadedBattlesArePairs == NoTwins => (SavedSpec => []SavedPairing)
<1> SUFFICES ASSUME NoTwins PROVE SavedSpec => []SavedPairing
  OBVIOUS
<1>1. SavedInit => SInv
  BY InitSInv
<1>2. SInv => SavedPairing
  BY DEF SInv, Sound, BInv, IInv, SavedPairing
<1> QED BY <1>1, <1>2, NextSInv, PTL DEF SavedSpec

\* And of every file, whatever handlers have done while it was written: no enemy
\* comes back busy with a player who does not fight it, though two players may be
\* written with the same enemy (Game.cpp:2849-2862).
THEOREM NoEnemyIsLost == NoTwins => (SavedSpec => []BusyAreFought)
<1> SUFFICES ASSUME NoTwins PROVE SavedSpec => []BusyAreFought
  OBVIOUS
<1>1. SavedInit => SInv
  BY InitSInv
<1>2. SInv => BusyAreFought
  BY DEF SInv
<1> QED BY <1>1, <1>2, NextSInv, PTL DEF SavedSpec

\* Loading a file that no handler has overtaken gives back the players and their
\* belongings, the exits, and the battles with enemies of the same IDs.
THEOREM LoadGivesBack == NoTwins => (SavedSpec => RoundTrip)
<1> SUFFICES ASSUME NoTwins PROVE SavedSpec => RoundTrip
  OBVIOUS
<1> DEFINE Back ==
      Complete /\ file' = Blank /\ overtaken = 0 =>
       /\ players' = players /\ broken' = broken /\ fighting' = fighting
       /\ \A p \in players : /\ location'[p] = location[p] /\ stats'[p] = stats[p]
                             /\ equipped'[p] = equipped[p]
                             /\ Count(inventory'[p]) = Count(inventory[p])
       /\ \A p \in fighting : enemyKind[opponent'[p]] = enemyKind[opponent[p]]
       /\ \A r \in Rooms : /\ Count(items'[r]) = Count(items[r])
                           /\ CountEnemies(enemies'[r]) = CountEnemies(enemies[r])
<1>1. SavedInit => SInv
  BY InitSInv
<1>2. SInv /\ [SavedNext]_allVars => [Back]_allVars
  <2> SUFFICES ASSUME SInv, [SavedNext]_allVars, Complete, file' = Blank, overtaken = 0,
                      ~UNCHANGED allVars
               PROVE  Back
    OBVIOUS
  <2>1. Load
    BY DEF SavedNext, Play, Autosave, SaveRoom, SaveRoomAmid, SavePlayer, SavePlayerAmid,
           MayWrite, MaySave, Playing
  <2>2. /\ fighting \in SUBSET players /\ players \in SUBSET Players /\ broken \subseteq ExitRooms
        /\ ExitRooms \subseteq Rooms
    BY MapAssumption DEF SInv, Sound, BInv, IInv, TypeOK
  <2>3. /\ FileOK /\ RoomsOK /\ Saved = players
        /\ \A r \in Rooms : file.rooms[r] = RoomRecord(r)
        /\ \A p \in players : file.players[p] = PlayerRecord(p)
    BY <2>1, <2>2, WholeIsLoaded, FreshIsWhole DEF SInv, FileOK
  <2>4. players' = players
    BY <2>1, <2>3 DEF Load, LoadPlayers
  <2>5. \A p \in players :
          /\ file.players[p].location = location[p] /\ file.players[p].stats = stats[p]
          /\ file.players[p].equipped = equipped[p]
          /\ file.players[p].bag = Count(inventory[p]) /\ file.players[p].foe = Foe(p)
    BY <2>3, RecordFields
  <2>6. \A p \in players : /\ location'[p] = location[p] /\ stats'[p] = stats[p]
                           /\ equipped'[p] = equipped[p]
    BY <2>1, <2>3, <2>4, <2>5, PlayersLoaded
  <2>7. ASSUME NEW p \in players PROVE Count(inventory'[p]) = Count(inventory[p])
    <3>1. \A q \in Players : q \in Saved => Count(inventory'[q]) = file.players[q].bag
      BY <2>1 DEF Load, LoadItems
    <3>2. p \in Players /\ p \in Saved
      BY <2>2, <2>3
    <3>3. Count(inventory'[p]) = file.players[p].bag
      BY <3>1, <3>2
    <3> QED BY <2>5, <3>3
  <2>8. \A p \in players : Foe(p) # {} <=> p \in fighting
    BY DEF Foe
  <2>9. fighting' = fighting
    <3>1. fighting' = {p \in players' : file.players[p].foe # {}}
      BY <2>1 DEF Load, LoadPlayers
    <3> QED BY <2>2, <2>4, <2>5, <2>8, <3>1
  <2>10. ASSUME NEW p \in fighting PROVE enemyKind[opponent'[p]] = enemyKind[opponent[p]]
    <3>1. file.players[p].foe = {enemyKind[opponent'[p]]}
      BY <2>1, <2>3, <2>9, BattlesLoaded
    <3>2. Foe(p) = {enemyKind[opponent[p]]}
      BY DEF Foe
    <3> QED BY <2>2, <2>5, <3>1, <3>2
  <2>11. broken' = broken
    <3>1. \A r \in Rooms : file.rooms[r].broken = (r \in broken)
      BY <2>3, RecordFields
    <3>2. broken' = {r \in ExitRooms : file.rooms[r].broken}
      BY <2>1 DEF Load
    <3> QED BY <2>2, <3>1, <3>2
  <2>12. ASSUME NEW r \in Rooms PROVE Count(items'[r]) = Count(items[r])
    <3>1. Count(items'[r]) = file.rooms[r].items
      BY <2>1 DEF Load, LoadItems
    <3> QED BY <2>3, <3>1, RecordFields
  <2>13. ASSUME NEW r \in Rooms PROVE CountEnemies(enemies'[r]) = CountEnemies(enemies[r])
    <3>1. CountEnemies(enemies'[r]) = file.rooms[r].enemies
      BY <2>1, <2>3, EnemiesLoaded
    <3> QED BY <2>3, <3>1, RecordFields
  <2> QED BY <2>4, <2>6, <2>7, <2>9, <2>10, <2>11, <2>12, <2>13
<1>3. SavedSpec => []SInv
  BY <1>1, NextSInv, PTL DEF SavedSpec
<1> HIDE DEF Back
<1>4. SavedSpec => [][Back]_allVars
  BY <1>2, <1>3, PTL DEF SavedSpec
<1> QED BY <1>4 DEF RoundTrip, Back

\* What holds of a generated game holds of one that was saved and loaded any number
\* of times from files that show one moment: nobody is at zero health, though the
\* health of enemies is not written, and no inventory is too full. Of every file,
\* objects are loaded into one place and rooms show what is in them (Room::load,
\* Player::load, Game::LoadGame, Game.cpp:2871-2932).
THEOREM LoadedGameIsSound ==
  NoTwins => (SavedSpec => [](/\ SavedNobodyAtZero
                              /\ overtaken = 0 => TypeOK /\ DeadLieStill /\ InventoryWithinLimit
                              /\ ItemInOnePlace /\ Described))
<1> SUFFICES ASSUME NoTwins
             PROVE  SavedSpec =>
                      [](/\ SavedNobodyAtZero
                         /\ overtaken = 0 => TypeOK /\ DeadLieStill /\ InventoryWithinLimit
                         /\ ItemInOnePlace /\ Described)
  OBVIOUS
<1>1. SavedInit => SInv
  BY InitSInv
<1>2. SInv => /\ SavedNobodyAtZero
              /\ overtaken = 0 => TypeOK /\ DeadLieStill /\ InventoryWithinLimit
              /\ ItemInOnePlace /\ Described
  BY DEF SInv, Sound, IInv, BInv, OInv, SavedNobodyAtZero
<1> QED BY <1>1, <1>2, NextSInv, PTL DEF SavedSpec
=============================================================================
