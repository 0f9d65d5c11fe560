--------------------------- MODULE GameWorldProofs ---------------------------
(***************************************************************************)
(* Theorems about GameWorld for every value of its constants.  TypeOK is   *)
(* not inductive alone: a blow of the enemy of p is a number only if the   *)
(* pointer of p names an enemy, which is Pairing; and Pairing survives the *)
(* end of a samosbor, which carries the dead away, only if the dead are in *)
(* no battle, which is part of DeadLieStill.  The three are proved as one. *)
(***************************************************************************)
EXTENDS GameWorld, TLAPS, FiniteSetTheorems

\* Clamping stays between its bounds.
LEMMA ClampType ==
  \A n \in Int : Clamp(n, 0, 100) \in 0..100 /\ Clamp(n, 0, 1000) \in 0..1000
BY DEF Clamp

\* Integer halves and the growth of the level threshold stay natural.
LEMMA DivType ==
  \A n \in Nat : n \div 2 \in Nat /\ (n * 11) \div 10 \in Nat
OBVIOUS

\* Counting a set of items gives a bag.
LEMMA CountType ==
  ASSUME NEW S \in SUBSET Items
  PROVE  Count(S) \in Bags
<1> SUFFICES ASSUME NEW k \in Kinds PROVE Cardinality(OfKind(k, S)) \in Nat
  BY DEF Count, Bags
<1>1. OfKind(k, S) \subseteq Items
  BY DEF OfKind
<1>2. IsFiniteSet(OfKind(k, S))
  BY <1>1, GeneratedAssumption, FS_Subset
<1> QED BY <1>2, FS_CardinalityType

\* Players appear in rooms of floor 1.
LEMMA SpawnRoomsType ==
  ASSUME NEW r \in SpawnRooms
  PROVE  r \in Rooms /\ Place[r].F = 1
BY MapAssumption DEF SpawnRooms

\* A blow leaves well-formed stats and touches health and armor only.
LEMMA HitType ==
  ASSUME NEW s \in Stats, NEW e \in Enemies
  PROVE  Hit(s, e) \in Stats
<1> DEFINE attack == EnemyConfig[enemyKind[e]].attack
<1>1. attack \in Nat
  BY ConfigAssumption
<1>2. attack \div 2 \in Nat
  BY <1>1, DivType
<1>3. s.health \in 0..100 /\ s.armor \in 0..100
  BY DEF Stats
<1>4. /\ Clamp(s.health - (attack \div 2), 0, 100) \in 0..100
      /\ Clamp(s.armor - (attack \div 2), 0, 100) \in 0..100
      /\ Clamp(s.health - attack, 0, 100) \in 0..100
  <2>1. /\ s.health - (attack \div 2) \in Int
        /\ s.armor - (attack \div 2) \in Int
        /\ s.health - attack \in Int
    BY <1>1, <1>2, <1>3
  <2> QED BY <2>1, ClampType
<1> QED BY <1>4 DEF Hit, Stats

\* The stats of a dead player are well-formed.
LEMMA DeathStatsType ==
  ASSUME NEW s \in Stats
  PROVE  [s EXCEPT !.health = 100, !.armor = 0, !.currentExp = 0,
                   !.weaponSkill = s.weaponSkill \div 2] \in Stats
<1>1. s.weaponSkill \div 2 \in Nat
  BY DivType DEF Stats
<1>2. \A h, a \in 0..100 : \A c, w \in Nat :
        [s EXCEPT !.health = h, !.armor = a, !.currentExp = c, !.weaponSkill = w] \in Stats
  BY DEF Stats
<1>3. 100 \in 0..100 /\ 0 \in 0..100 /\ 0 \in Nat
  OBVIOUS
<1> QED BY <1>1, <1>2, <1>3

-----------------------------------------------------------------------------
(* The inductive invariant *)

\* Pairing of the values a handler has reached in mid-course
Paired(fgt, opp, bw) ==
  /\ \A p \in fgt : opp[p] \in enemies[location[p]] /\ bw[opp[p]] = p
  /\ \A e \in Enemies : bw[e] # NoPlayer => bw[e] \in fgt /\ opp[bw[e]] = e

\* DeadLieStill of such values
Lying(stat, inv, fgt) ==
  \A p \in dead : /\ p \notin fgt /\ inv[p] = {}
                  /\ stat[p].health = 100 /\ stat[p].armor = 0

IInv == TypeOK /\ Pairing /\ DeadLieStill

\* Death keeps the types and the pairs: who dies leaves its battle on both sides.
LEMMA DieInv ==
  ASSUME IInv,
         NEW D \in SUBSET (players \ dead),
         NEW stat \in [Players -> Stats], NEW inv \in [Players -> SUBSET Items],
         NEW fgt \in SUBSET players, NEW opp \in [Players -> Enemies \cup {NoEnemy}],
         NEW bw \in [Enemies -> Players \cup {NoPlayer}],
         Paired(fgt, opp, bw), Lying(stat, inv, fgt),
         Die(D, stat, inv, fgt, opp, bw),
         enemyHealth' \in [Enemies -> Nat],
         UNCHANGED <<playerVars, enemyVars, broken, samosborGoing>>
  PROVE  IInv'
<1> DEFINE lost(r) == UNION {inv[p] : p \in {q \in D : location[q] = r}}
<1> USE DEF IInv
<1>1. /\ players' \in SUBSET Players /\ inSession' \in SUBSET players'
      /\ enemies' \in [Rooms -> SUBSET Enemies]
      /\ enemyDescription' \in [Rooms -> [EnemyKinds -> Nat]]
      /\ broken' \in SUBSET ExitRooms /\ samosborGoing' \in BOOLEAN
  BY DEF TypeOK, playerVars, enemyVars
<1>2. stats' \in [Players -> Stats]
  <2> SUFFICES ASSUME NEW p \in Players PROVE stats'[p] \in Stats
    BY DEF Die
  <2>1. stat[p] \in Stats
    OBVIOUS
  <2>2. stats'[p] = IF p \in D THEN [stat[p] EXCEPT !.health = 100, !.armor = 0, !.currentExp = 0,
                                                    !.weaponSkill = stat[p].weaponSkill \div 2]
                    ELSE stat[p]
    BY DEF Die
  <2> QED BY <2>1, <2>2, DeathStatsType
<1>3. inventory' \in [Players -> SUBSET Items] /\ equipped' \in [Players -> Kinds \cup {NoKind}]
  BY DEF Die, TypeOK
<1>4. \A r \in Rooms : lost(r) \subseteq Items
  BY DEF TypeOK
<1>5. items' \in [Rooms -> SUBSET Items]
  BY <1>4 DEF Die, TypeOK
<1>6. itemDescription' \in [Rooms -> Bags]
  <2>1. \A r \in Rooms : Count(lost(r)) \in Bags
    BY <1>4, CountType
  <2>2. itemDescription' = [r \in Rooms |->
                             [k \in Kinds |-> itemDescription[r][k] + Count(lost(r))[k]]]
    BY DEF Die
  <2> HIDE DEF lost
  <2> QED BY <2>1, <2>2 DEF Bags, TypeOK
<1>7. fighting' \in SUBSET players' /\ opponent' \in [Players -> Enemies \cup {NoEnemy}]
  BY DEF Die, playerVars
<1>8. battleWith' \in [Enemies -> Players \cup {NoPlayer}]
  BY DEF Die
<1>9. /\ dead' \in SUBSET players'
      /\ location' \in [Players -> Rooms \cup {NoRoom}]
      /\ \A p \in players' : location'[p] \in Rooms
  <2>1. dead' \in SUBSET players' /\ players' = players
    BY DEF Die, TypeOK, playerVars
  <2>2. CASE samosborGoing
    BY <2>1, <2>2 DEF Die, TypeOK
  <2>3. CASE ~samosborGoing
    <3>1. PICK to \in [D -> SpawnRooms] :
            location' = [p \in Players |-> IF p \in D THEN to[p] ELSE location[p]]
      BY <2>3 DEF Die
    <3>2. \A p \in D : to[p] \in Rooms
      BY SpawnRoomsType
    <3>3. players \subseteq Players
      BY DEF TypeOK
    <3>4. \A p \in Players : location[p] \in Rooms \cup {NoRoom} /\ (p \in players => location[p] \in Rooms)
      BY DEF TypeOK
    <3> QED BY <2>1, <3>1, <3>2, <3>3, <3>4
  <2> QED BY <2>1, <2>2, <2>3
<1>10. TypeOK'
  BY <1>1, <1>2, <1>3, <1>5, <1>6, <1>7, <1>8, <1>9 DEF TypeOK
<1>11. Pairing'
  <2>1. \A p \in Players \ D : location'[p] = location[p]
    BY DEF Die, TypeOK
  <2>2. /\ fighting' = fgt \ D
        /\ \A p \in Players : opponent'[p] = IF p \in D \cap fgt THEN NoEnemy ELSE opp[p]
        /\ \A e \in Enemies : battleWith'[e] =
             IF \E p \in D \cap fgt : opp[p] = e THEN NoPlayer ELSE bw[e]
    BY DEF Die
  <2>3. enemies' = enemies
    BY DEF enemyVars
  <2>4. ASSUME NEW p \in fighting'
        PROVE  opponent'[p] \in enemies'[location'[p]] /\ battleWith'[opponent'[p]] = p
    <3>1. p \in fgt /\ p \notin D /\ p \in Players
      BY <2>2 DEF TypeOK
    <3>2. /\ opponent'[p] = opp[p] /\ location'[p] = location[p]
          /\ opp[p] \in enemies[location[p]] /\ bw[opp[p]] = p
      BY <2>1, <2>2, <3>1 DEF Paired
    <3>3. opp[p] \in Enemies
      BY <3>1, <3>2 DEF TypeOK
    <3>4. ~ \E q \in D \cap fgt : opp[q] = opp[p]
      BY <3>1, <3>2 DEF Paired
    <3> QED BY <2>2, <2>3, <3>2, <3>3, <3>4
  <2>5. ASSUME NEW e \in Enemies, battleWith'[e] # NoPlayer
        PROVE  battleWith'[e] \in fighting' /\ opponent'[battleWith'[e]] = e
    <3>1. /\ battleWith'[e] = bw[e] /\ ~ \E p \in D \cap fgt : opp[p] = e
          /\ bw[e] # NoPlayer
      BY <2>2, <2>5
    <3>2. bw[e] \in fgt /\ opp[bw[e]] = e
      BY <3>1 DEF Paired
    <3> QED BY <2>2, <3>1, <3>2 DEF TypeOK
  <2> QED BY <2>4, <2>5 DEF Pairing
<1>12. DeadLieStill'
  <2>1. dead' \subseteq dead \cup D /\ dead \cap D = {} /\ dead \subseteq Players /\ D \subseteq Players
    BY DEF Die, TypeOK
  <2>2. ASSUME NEW p \in dead
        PROVE  /\ p \notin fighting' /\ inventory'[p] = {}
               /\ stats'[p].health = 100 /\ stats'[p].armor = 0
    <3>1. p \notin D /\ p \in Players
      BY <2>1
    <3>2. fighting' = fgt \ D /\ inventory'[p] = inv[p] /\ stats'[p] = stat[p]
      BY <3>1 DEF Die
    <3> QED BY <3>2 DEF Lying
  <2>3. ASSUME NEW p \in D
        PROVE  /\ p \notin fighting' /\ inventory'[p] = {}
               /\ stats'[p].health = 100 /\ stats'[p].armor = 0
    <3>1. p \in Players /\ stat[p] \in Stats
      BY <2>1
    <3>2. /\ fighting' = fgt \ D /\ inventory'[p] = {}
          /\ stats'[p] = [stat[p] EXCEPT !.health = 100, !.armor = 0, !.currentExp = 0,
                                         !.weaponSkill = stat[p].weaponSkill \div 2]
      BY <3>1 DEF Die
    <3> QED BY <3>1, <3>2 DEF Stats
  <2> QED BY <2>1, <2>2, <2>3 DEF DeadLieStill
<1> QED BY <1>10, <1>11, <1>12

\* The death check keeps the types and the pairs, whatever it finds.
LEMMA CheckPlayerDeathInv ==
  ASSUME IInv,
         NEW p \in players \ dead, NEW s \in Stats, NEW bag \in SUBSET Items,
         NEW fgt \in SUBSET players, NEW opp \in [Players -> Enemies \cup {NoEnemy}],
         NEW bw \in [Enemies -> Players \cup {NoPlayer}],
         Paired(fgt, opp, bw), fgt \cap dead = {},
         CheckPlayerDeath(p, s, bag, fgt, opp, bw),
         enemyHealth' \in [Enemies -> Nat],
         UNCHANGED <<playerVars, enemyVars, broken, samosborGoing>>
  PROVE  IInv'
<1> DEFINE stat == [stats EXCEPT ![p] = s]
           inv == [inventory EXCEPT ![p] = bag]
<1>1. stat \in [Players -> Stats] /\ inv \in [Players -> SUBSET Items]
  BY DEF IInv, TypeOK
<1>4. Lying(stat, inv, fgt)
  BY DEF Lying, IInv, DeadLieStill, TypeOK
<1>2. CASE IsKilled(s)
  <2>1. {p} \in SUBSET (players \ dead)
    OBVIOUS
  <2>2. Die({p}, stat, inv, fgt, opp, bw)
    BY <1>2 DEF CheckPlayerDeath
  <2> HIDE DEF stat, inv
  <2> QED BY <1>1, <1>4, <2>1, <2>2, DieInv
<1>3. CASE ~IsKilled(s)
  <2>1. /\ stats' = stat /\ inventory' = inv
        /\ fighting' = fgt /\ opponent' = opp /\ battleWith' = bw
        /\ UNCHANGED <<itemVars, location, dead, equipped>>
    BY <1>3 DEF CheckPlayerDeath
  <2> HIDE DEF stat, inv
  <2>2. TypeOK'
    BY <1>1, <2>1 DEF IInv, TypeOK, playerVars, enemyVars, itemVars
  <2>3. Pairing'
    BY <2>1 DEF Paired, Pairing, enemyVars
  <2>4. DeadLieStill'
    BY <1>4, <2>1 DEF Lying, DeadLieStill
  <2> QED BY <2>2, <2>3, <2>4 DEF IInv
<1> QED BY <1>2, <1>3

\* The blow of the enemy of a player in battle keeps the types and the pairs.
LEMMA EnemyTurnInv ==
  ASSUME IInv,
         NEW p \in fighting, NEW s \in Stats, NEW bag \in SUBSET Items,
         EnemyTurn(p, s, bag),
         enemyHealth' \in [Enemies -> Nat],
         UNCHANGED <<playerVars, enemyVars, broken, samosborGoing>>
  PROVE  IInv'
<1>1. p \in players \ dead /\ opponent[p] \in Enemies /\ fighting \cap dead = {}
  BY DEF IInv, TypeOK, Pairing, DeadLieStill
<1>2. Hit(s, opponent[p]) \in Stats
  BY <1>1, HitType
<1>3. Paired(fighting, opponent, battleWith)
  BY DEF IInv, Pairing, Paired
<1>4. /\ fighting \in SUBSET players
      /\ opponent \in [Players -> Enemies \cup {NoEnemy}]
      /\ battleWith \in [Enemies -> Players \cup {NoPlayer}]
  BY DEF IInv, TypeOK
<1> QED BY <1>1, <1>2, <1>3, <1>4, CheckPlayerDeathInv DEF EnemyTurn

-----------------------------------------------------------------------------
(* One lemma per action *)

THEOREM InitInv == Init => IInv
<1> SUFFICES ASSUME Init PROVE IInv
  OBVIOUS
<1>1. FreshStats \in Stats
  <2>1. 100 \in 0..100 /\ 0 \in 0..100 /\ 0 \in Nat /\ 100 \in Nat
    OBVIOUS
  <2> QED BY <2>1, ConfigAssumption DEF FreshStats, Stats
<1>2. itemDescription \in [Rooms -> Bags]
  BY CountType, GeneratedAssumption DEF Init
<1>3. enemyDescription \in [Rooms -> [EnemyKinds -> Nat]]
  <2>1. \A r \in Rooms, k \in EnemyKinds :
          Cardinality({e \in InitialEnemies[r] : enemyKind[e] = k}) \in Nat
    <3> TAKE r \in Rooms, k \in EnemyKinds
    <3>1. IsFiniteSet({e \in InitialEnemies[r] : enemyKind[e] = k})
      BY GeneratedAssumption, FS_Subset
    <3> QED BY <3>1, FS_CardinalityType
  <2> QED BY <2>1 DEF Init
<1>4. enemyHealth \in [Enemies -> Nat]
  BY ConfigAssumption DEF Init
<1>5. TypeOK
  BY <1>1, <1>2, <1>3, <1>4, GeneratedAssumption, MapAssumption DEF Init, TypeOK
<1>6. Pairing
  BY DEF Init, Pairing
<1>7. DeadLieStill
  BY DEF Init, DeadLieStill
<1> QED BY <1>5, <1>6, <1>7 DEF IInv

\* Sessions come and go without touching a body or a battle.
LEMMA SessionInv ==
  ASSUME IInv, NEW p \in Players, SessionStep(p)
  PROVE  IInv'
<1> USE DEF IInv
<1>1. CASE SpawnPlayer(p)
  <2>1. FreshStats \in Stats
    <3>1. 100 \in 0..100 /\ 0 \in 0..100 /\ 0 \in Nat /\ 100 \in Nat
      OBVIOUS
    <3> QED BY <3>1, ConfigAssumption DEF FreshStats, Stats
  <2>2. TypeOK'
    BY <1>1, <2>1, SpawnRoomsType
    DEF SpawnPlayer, TypeOK, battleVars, itemVars, enemyVars
  <2>3. Pairing'
    BY <1>1 DEF SpawnPlayer, TypeOK, Pairing, battleVars, enemyVars
  <2>4. DeadLieStill'
    BY <1>1 DEF SpawnPlayer, TypeOK, DeadLieStill, battleVars
  <2> QED BY <2>2, <2>3, <2>4
<1>2. CASE Rejoin(p) \/ Disconnect(p)
  BY <1>2 DEF Rejoin, Disconnect, TypeOK, Pairing, DeadLieStill, bodyVars, battleVars, itemVars, enemyVars
<1> QED BY <1>1, <1>2 DEF SessionStep

\* A player who is served a peaceful command is in no battle, so that its room,
\* its inventory and its stats may change.
LEMMA WalkInv ==
  ASSUME IInv, NEW p \in Players, NEW r \in Rooms, NEW dir \in {1, -1},
         Move(p, r) \/ ChangeFloor(p, dir)
  PROVE  IInv'
<1> USE DEF IInv
<1>1. /\ p \notin fighting /\ \E s \in Rooms : location' = [location EXCEPT ![p] = s]
      /\ UNCHANGED <<playerVars, stats, dead, equipped, inventory, battleVars, itemVars, enemyVars,
                     broken, samosborGoing>>
  BY MapAssumption DEF Move, ChangeFloor, MayCommandInPeace, MayCommand
<1>2. TypeOK'
  BY <1>1 DEF TypeOK, playerVars, battleVars, itemVars, enemyVars
<1>3. Pairing'
  BY <1>1 DEF TypeOK, Pairing, battleVars, enemyVars
<1>4. DeadLieStill'
  BY <1>1 DEF DeadLieStill, battleVars
<1> QED BY <1>2, <1>3, <1>4

LEMMA ItemInv ==
  ASSUME IInv, NEW p \in Players, NEW i \in Items,
         PickupItem(p, i) \/ DropItem(p, i) \/ Craft(p, i) \/ Equip(p, i)
  PROVE  IInv'
<1> USE DEF IInv
<1>1. kind[i] \in Kinds
  BY ConfigAssumption
<1>2. p \in players \ dead /\ location[p] \in Rooms
  BY DEF PickupItem, DropItem, Craft, Equip, MayCommandInPeace, MayCommand, TypeOK
<1>3. UNCHANGED <<playerVars, location, stats, dead, battleVars, enemyVars, broken, samosborGoing>>
  BY DEF PickupItem, DropItem, Craft, Equip, itemVars
<1>4. inventory' \in [Players -> SUBSET Items]
  BY <1>2 DEF PickupItem, DropItem, Craft, Equip, Without, TypeOK
<1>5. equipped' \in [Players -> Kinds \cup {NoKind}]
  BY <1>1 DEF PickupItem, DropItem, Craft, Equip, TypeOK
<1>6. items' \in [Rooms -> SUBSET Items]
  <2>1. CASE PickupItem(p, i) \/ DropItem(p, i)
    BY <1>2, <2>1 DEF PickupItem, DropItem, TypeOK
  <2>2. CASE Craft(p, i) \/ Equip(p, i)
    BY <2>2 DEF Craft, Equip, itemVars, TypeOK
  <2> QED BY <2>1, <2>2
<1>7. itemDescription' \in [Rooms -> Bags]
  <2>1. itemDescription[location[p]][kind[i]] \in Nat
    BY <1>1, <1>2 DEF TypeOK, Bags
  <2>2. CASE PickupItem(p, i)
    BY <1>1, <1>2, <2>1, <2>2 DEF PickupItem, TextErased, TypeOK, Bags
  <2>3. CASE DropItem(p, i)
    BY <1>1, <1>2, <2>1, <2>3 DEF DropItem, TypeOK, Bags
  <2>4. CASE Craft(p, i) \/ Equip(p, i)
    BY <2>4 DEF Craft, Equip, itemVars, TypeOK
  <2> QED BY <2>2, <2>3, <2>4
<1>8. TypeOK'
  BY <1>3, <1>4, <1>5, <1>6, <1>7 DEF TypeOK, playerVars, battleVars, enemyVars
<1>9. Pairing'
  BY <1>3 DEF Pairing, battleVars, enemyVars
<1>10. DeadLieStill'
  <2>1. \A q \in dead : inventory'[q] = inventory[q]
    BY <1>2 DEF PickupItem, DropItem, Craft, Equip, TypeOK
  <2> QED BY <1>3, <2>1 DEF DeadLieStill, battleVars
<1> QED BY <1>8, <1>9, <1>10

LEMMA RepairInv ==
  ASSUME IInv, NEW p \in Players, RepairExit(p)
  PROVE  IInv'
<1>1. PICK material : inventory' = [inventory EXCEPT ![p] = Without(p, material)]
  BY DEF RepairExit
<1>2. /\ UNCHANGED <<playerVars, location, stats, dead, equipped, battleVars, itemVars, enemyVars,
                     samosborGoing>>
      /\ broken' \subseteq broken /\ p \notin dead
  BY DEF RepairExit, MayCommandInPeace, MayCommand
<1>3. inventory' \in [Players -> SUBSET Items] /\ \A q \in dead : inventory'[q] = inventory[q]
  BY <1>1, <1>2 DEF Without, IInv, TypeOK
<1>4. TypeOK'
  BY <1>2, <1>3 DEF IInv, TypeOK, playerVars, battleVars, itemVars, enemyVars
<1>5. Pairing' /\ DeadLieStill'
  BY <1>2, <1>3 DEF IInv, Pairing, DeadLieStill, battleVars, enemyVars
<1> QED BY <1>4, <1>5 DEF IInv

\* Using an item leaves well-formed stats.
LEMMA UsesType ==
  ASSUME IInv, NEW p \in Players, NEW use \in Uses(p)
  PROVE  use.stats \in Stats
<1>1. stats[p] \in Stats
  BY DEF IInv, TypeOK
<1>2. CASE use = [stats |-> stats[p], consumed |-> {}]
  BY <1>1, <1>2
<1>3. ASSUME NEW i \in inventory[p], use = Using(stats[p], i)
      PROVE  use.stats \in Stats
  <2> DEFINE s == stats[p]
             it == ItemConfig[kind[i]]
  <2>1. i \in Items
    BY DEF IInv, TypeOK
  <2>2. it.power \in Nat
    BY <2>1, ConfigAssumption
  <2>3. s.health \in 0..100 /\ s.armor \in 0..100
    BY <1>1 DEF Stats
  <2>4. /\ Clamp(s.armor + it.power, 0, 100) \in 0..100
        /\ Clamp(s.health + it.power, 0, 100) \in 0..100
    <3>1. s.armor + it.power \in Int /\ s.health + it.power \in Int
      BY <2>2, <2>3
    <3> QED BY <3>1, ClampType
  <2>5. \A n \in 0..100 : [s EXCEPT !.armor = n] \in Stats /\ [s EXCEPT !.health = n] \in Stats
    BY <1>1 DEF Stats
  <2>6. CASE it.type = "Armor" /\ s.armor < 100
    <3>1. use.stats = [s EXCEPT !.armor = Clamp(s.armor + it.power, 0, 100)]
      BY <1>3, <2>6 DEF Using
    <3> QED BY <3>1, <2>4, <2>5
  <2>7. CASE it.type = "HealingItem" /\ s.health < 100
    <3>1. use.stats = [s EXCEPT !.health = Clamp(s.health + it.power, 0, 100)]
      BY <1>3, <2>7 DEF Using
    <3> QED BY <3>1, <2>4, <2>5
  <2>8. CASE ~(it.type = "Armor" /\ s.armor < 100) /\ ~(it.type = "HealingItem" /\ s.health < 100)
    BY <1>1, <1>3, <2>8 DEF Using
  <2> QED BY <2>6, <2>7, <2>8
<1> QED BY <1>2, <1>3 DEF Uses

LEMMA UseItemInv ==
  ASSUME IInv, NEW p \in Players, UseItem(p)
  PROVE  IInv'
<1>1. PICK use \in Uses(p) :
        \/ InBattle(p) /\ EnemyTurn(p, use.stats, Without(p, use.consumed))
        \/ /\ ~InBattle(p)
           /\ stats' = [stats EXCEPT ![p] = use.stats]
           /\ inventory' = [inventory EXCEPT ![p] = Without(p, use.consumed)]
           /\ UNCHANGED <<location, dead, equipped, fighting, opponent, battleWith, itemVars>>
  BY DEF UseItem
<1>2. use.stats \in Stats /\ Without(p, use.consumed) \in SUBSET Items
  BY UsesType DEF Without, IInv, TypeOK
<1>3. UNCHANGED <<playerVars, enemyHealth, enemyVars, broken, samosborGoing>>
  BY DEF UseItem
<1>4. enemyHealth' \in [Enemies -> Nat]
  BY <1>3 DEF IInv, TypeOK
<1>5. CASE InBattle(p) /\ EnemyTurn(p, use.stats, Without(p, use.consumed))
  BY <1>2, <1>3, <1>4, <1>5, EnemyTurnInv DEF InBattle
<1>6. CASE ~(InBattle(p) /\ EnemyTurn(p, use.stats, Without(p, use.consumed)))
  <2> DEFINE s == use.stats
             bag == Without(p, use.consumed)
  <2>1. /\ stats' = [stats EXCEPT ![p] = s] /\ inventory' = [inventory EXCEPT ![p] = bag]
        /\ UNCHANGED <<location, dead, equipped, fighting, opponent, battleWith, itemVars>>
    BY <1>1, <1>6
  <2>2. s \in Stats /\ bag \in SUBSET Items /\ p \notin dead
    BY <1>2 DEF UseItem, MayCommand
  <2> HIDE DEF s, bag
  <2>3. TypeOK'
    BY <1>3, <2>1, <2>2 DEF IInv, TypeOK, playerVars, enemyVars, itemVars
  <2>4. Pairing'
    BY <1>3, <2>1 DEF IInv, Pairing, enemyVars
  <2>5. DeadLieStill'
    BY <2>1, <2>2 DEF IInv, TypeOK, DeadLieStill
  <2> QED BY <2>3, <2>4, <2>5 DEF IInv
<1> QED BY <1>5, <1>6

\* A battle is begun on both sides at once, with an enemy of the room that is free.
LEMMA BattleInv ==
  ASSUME IInv, NEW p \in Players, NEW e \in Enemies, Battle(p, e)
  PROVE  IInv'
<1> DEFINE fgt == fighting \cup {p}
           opp == [opponent EXCEPT ![p] = e]
           bw  == [battleWith EXCEPT ![e] = p]
<1>1. /\ p \in players \ dead /\ p \notin fighting /\ location[p] \in Rooms
      /\ e \in enemies[location[p]] /\ battleWith[e] = NoPlayer
  BY DEF Battle, MayCommandInPeace, MayCommand, IsFree, IInv, TypeOK
<1>2. /\ fgt \in SUBSET players
      /\ opp \in [Players -> Enemies \cup {NoEnemy}]
      /\ bw \in [Enemies -> Players \cup {NoPlayer}]
      /\ fgt \cap dead = {}
  BY <1>1 DEF IInv, TypeOK, DeadLieStill
<1>3. Paired(fgt, opp, bw)
  <2>1. ASSUME NEW q \in fgt PROVE opp[q] \in enemies[location[q]] /\ bw[opp[q]] = q
    <3>1. CASE q = p
      BY <1>1, <3>1 DEF IInv, TypeOK
    <3>2. CASE q # p
      <4>1. q \in fighting /\ q \in Players
        BY <3>2 DEF IInv, TypeOK
      <4>2. opponent[q] \in enemies[location[q]] /\ battleWith[opponent[q]] = q
        BY <4>1 DEF IInv, Pairing
      <4>3. opponent[q] # e /\ opponent[q] \in Enemies
        BY <1>1, <4>1, <4>2, SentinelAssumption DEF IInv, TypeOK
      <4> QED BY <3>2, <4>1, <4>2, <4>3 DEF IInv, TypeOK
    <3> QED BY <3>1, <3>2
  <2>2. ASSUME NEW x \in Enemies, bw[x] # NoPlayer PROVE bw[x] \in fgt /\ opp[bw[x]] = x
    <3>1. CASE x = e
      BY <1>1, <3>1 DEF IInv, TypeOK
    <3>2. CASE x # e
      <4>1. battleWith[x] \in fighting /\ opponent[battleWith[x]] = x /\ bw[x] = battleWith[x]
        BY <2>2, <3>2 DEF IInv, TypeOK, Pairing
      <4> QED BY <1>1, <4>1 DEF IInv, TypeOK
    <3> QED BY <3>1, <3>2
  <2> QED BY <2>1, <2>2 DEF Paired
<1>4. UNCHANGED <<playerVars, enemyHealth, enemyVars, broken, samosborGoing>>
  BY DEF Battle
<1>5. enemyHealth' \in [Enemies -> Nat]
  BY <1>4 DEF IInv, TypeOK
<1>6. CASE CheckPlayerDeath(p, Hit(stats[p], e), inventory[p], fgt, opp, bw)
  <2>1. Hit(stats[p], e) \in Stats /\ inventory[p] \in SUBSET Items
    BY HitType DEF IInv, TypeOK
  <2> HIDE DEF fgt, opp, bw
  <2> QED BY <1>1, <1>2, <1>3, <1>4, <1>5, <1>6, <2>1, CheckPlayerDeathInv
<1>7. CASE /\ fighting' = fgt /\ opponent' = opp /\ battleWith' = bw
           /\ UNCHANGED <<bodyVars, itemVars>>
  <2> HIDE DEF fgt, opp, bw
  <2>1. TypeOK'
    BY <1>2, <1>4, <1>7 DEF IInv, TypeOK, playerVars, bodyVars, itemVars, enemyVars
  <2>2. Pairing'
    BY <1>3, <1>4, <1>7 DEF Paired, Pairing, bodyVars, enemyVars
  <2>3. DeadLieStill'
    BY <1>2, <1>7 DEF IInv, DeadLieStill, bodyVars
  <2> QED BY <2>1, <2>2, <2>3 DEF IInv
<1> QED BY <1>6, <1>7 DEF Battle

\* A level gained leaves well-formed stats: what is left of the experience is
\* natural because the threshold was reached.
LEMMA LevelType ==
  ASSUME NEW s \in Stats, NEW gain \in Nat
  PROVE  CheckLevelUp([s EXCEPT !.currentExp = s.currentExp + gain]) \in Stats
<1> DEFINE t == [s EXCEPT !.currentExp = s.currentExp + gain]
<1>1. t \in Stats
  <2>1. s.currentExp + gain \in Nat
    BY DEF Stats
  <2>2. \A c \in Nat : [s EXCEPT !.currentExp = c] \in Stats
    BY DEF Stats
  <2> QED BY <2>1, <2>2
<1> SUFFICES CheckLevelUp(t) \in Stats
  OBVIOUS
<1> HIDE DEF t
<1>2. CASE t.currentExp < t.expTolevelUp
  BY <1>1, <1>2 DEF CheckLevelUp
<1>3. CASE ~(t.currentExp < t.expTolevelUp)
  <2> DEFINE rest == t.currentExp - t.expTolevelUp
             next == (t.expTolevelUp * 11) \div 10
             skill == t.weaponSkill + 1
             size == t.inventoryMaxSize + 1
  <2>1. /\ rest \in Nat
        /\ skill \in Nat /\ size \in Nat
    BY <1>1, <1>3 DEF Stats
  <2>2. next \in Nat
    BY <1>1, DivType DEF Stats
  <2>3. CheckLevelUp(t) = [t EXCEPT !.currentExp = rest, !.expTolevelUp = next,
                                    !.weaponSkill = skill, !.inventoryMaxSize = size]
    BY <1>3 DEF CheckLevelUp
  <2> HIDE DEF rest, next, skill, size
  <2>4. [t EXCEPT !.currentExp = rest, !.expTolevelUp = next,
                  !.weaponSkill = skill, !.inventoryMaxSize = size] \in Stats
    BY <1>1, <2>1, <2>2 DEF Stats
  <2> QED BY <2>3, <2>4
<1> QED BY <1>2, <1>3

\* A won fight dissolves one pair: the enemies it removes from the room are
\* the opponent alone, so no other player loses its own.
LEMMA WinInv ==
  ASSUME IInv, NEW p \in fighting, Win(p, opponent[p]),
         enemyHealth' \in [Enemies -> Nat],
         UNCHANGED <<playerVars, broken, samosborGoing>>
  PROVE  IInv'
<1> DEFINE e == opponent[p]
           here == location[p]
           gain == EnemyConfig[enemyKind[e]].exp
           s == CheckLevelUp([stats[p] EXCEPT !.currentExp = stats[p].currentExp + gain])
<1>1. /\ p \in Players /\ p \in players /\ p \notin dead
      /\ here \in Rooms /\ e \in Enemies /\ battleWith[e] = p
  BY DEF IInv, TypeOK, Pairing, DeadLieStill
<1>2. s \in Stats
  <2>1. stats[p] \in Stats /\ gain \in Nat
    BY <1>1, ConfigAssumption DEF IInv, TypeOK
  <2> HIDE DEF gain
  <2> QED BY <2>1, LevelType
<1>3. /\ stats' = [stats EXCEPT ![p] = s]
      /\ enemyDescription' =
           [enemyDescription EXCEPT ![here][enemyKind[e]] = IF @ > 0 THEN @ - 1 ELSE 0]
      /\ enemies' = [enemies EXCEPT ![here] = {x \in @ : battleWith[x] # p}]
      /\ battleWith' = [battleWith EXCEPT ![e] = NoPlayer]
      /\ fighting' = fighting \ {p}
      /\ UNCHANGED <<location, dead, equipped, opponent, itemVars>>
  BY DEF Win
<1>4. /\ inventory' \in [Players -> SUBSET Items]
      /\ \A q \in Players \ {p} : inventory'[q] = inventory[q]
  <2>1. \A k \in Kinds : OfKind(k, Spare) \subseteq Items
    BY DEF OfKind, Spare
  <2>2. LootKinds(e) \subseteq Kinds
    BY <1>1, ConfigAssumption DEF LootKinds
  <2>3. PICK k \in LootKinds(e) :
          IF HasRoomFor(inventory[p], s)
          THEN \E i \in OfKind(k, Spare) : inventory' = [inventory EXCEPT ![p] = @ \cup {i}]
          ELSE UNCHANGED inventory
    BY DEF Win
  <2> HIDE DEF s, e
  <2>4. \/ \E i \in Items : inventory' = [inventory EXCEPT ![p] = inventory[p] \cup {i}]
        \/ inventory' = inventory
    BY <2>1, <2>2, <2>3
  <2> QED BY <2>4 DEF IInv, TypeOK
<1> HIDE DEF s
<1>5. enemyDescription' \in [Rooms -> [EnemyKinds -> Nat]]
  <2>1. enemyKind[e] \in EnemyKinds
    BY <1>1, ConfigAssumption
  <2>2. enemyDescription[here] \in [EnemyKinds -> Nat]
    BY <1>1 DEF IInv, TypeOK
  <2>3. enemyDescription[here][enemyKind[e]] \in Nat
    BY <2>1, <2>2
  <2> DEFINE n == IF enemyDescription[here][enemyKind[e]] > 0
                  THEN enemyDescription[here][enemyKind[e]] - 1 ELSE 0
  <2>4. n \in Nat
    BY <2>3
  <2>5. enemyDescription' = [enemyDescription EXCEPT ![here] = [@ EXCEPT ![enemyKind[e]] = n]]
    BY <1>3
  <2> HIDE DEF n, e, here
  <2> QED BY <1>1, <2>1, <2>2, <2>4, <2>5 DEF IInv, TypeOK
<1>6. TypeOK'
  BY <1>1, <1>2, <1>3, <1>4, <1>5 DEF IInv, TypeOK, playerVars, itemVars
<1>7. Pairing'
  <2>1. ASSUME NEW q \in fighting'
        PROVE  opponent'[q] \in enemies'[location'[q]] /\ battleWith'[opponent'[q]] = q
    <3>1. q \in fighting /\ q # p /\ q \in Players /\ location[q] \in Rooms
      BY <1>3 DEF IInv, TypeOK
    <3>2. /\ opponent[q] \in enemies[location[q]] /\ opponent[q] \in Enemies
          /\ battleWith[opponent[q]] = q
      BY <3>1 DEF IInv, Pairing, TypeOK
    <3>3. opponent[q] # e
      BY <1>1, <3>1, <3>2
    <3>4. opponent[q] \in enemies'[location[q]]
      BY <1>1, <1>3, <3>1, <3>2 DEF IInv, TypeOK
    <3>5. battleWith'[opponent[q]] = q
      BY <1>3, <3>2, <3>3 DEF IInv, TypeOK
    <3> QED BY <1>3, <3>4, <3>5
  <2>2. ASSUME NEW x \in Enemies, battleWith'[x] # NoPlayer
        PROVE  battleWith'[x] \in fighting' /\ opponent'[battleWith'[x]] = x
    <3>1. x # e /\ battleWith'[x] = battleWith[x]
      BY <1>1, <1>3, <2>2 DEF IInv, TypeOK
    <3>2. battleWith[x] \in fighting /\ opponent[battleWith[x]] = x
      BY <2>2, <3>1 DEF IInv, Pairing
    <3> QED BY <1>3, <3>1, <3>2
  <2> QED BY <2>1, <2>2 DEF Pairing
<1>8. DeadLieStill'
  BY <1>1, <1>3, <1>4 DEF IInv, TypeOK, DeadLieStill
<1> QED BY <1>6, <1>7, <1>8 DEF IInv

LEMMA AttackInv ==
  ASSUME IInv, NEW p \in Players, Attack(p)
  PROVE  IInv'
<1> DEFINE e == opponent[p]
<1>1. p \in fighting /\ UNCHANGED <<playerVars, broken, samosborGoing>>
  BY DEF Attack, InBattle
<1>2. stats[p] \in Stats /\ inventory[p] \in SUBSET Items
  BY DEF IInv, TypeOK
<1>3. CASE \E blow \in Blows(p) :
             LET left == Clamp(enemyHealth[e] - blow, 0, 1000) IN
             /\ enemyHealth' = [enemyHealth EXCEPT ![e] = left]
             /\ \/ left = 0 /\ Win(p, e)
                \/ left > 0 /\ EnemyTurn(p, stats[p], inventory[p]) /\ UNCHANGED enemyVars
  <2> DEFINE left(blow) == Clamp(enemyHealth[e] - blow, 0, 1000)
  <2>1. PICK blow \in Blows(p) :
          /\ enemyHealth' = [enemyHealth EXCEPT ![e] = left(blow)]
          /\ \/ Win(p, e)
             \/ EnemyTurn(p, stats[p], inventory[p]) /\ UNCHANGED enemyVars
    BY <1>3
  <2>2. blow \in Nat
    <3>1. stats[p].weaponSkill \in Nat
      BY <1>2 DEF Stats
    <3>2. equipped[p] # NoKind => ItemConfig[equipped[p]].power \in Nat
      BY ConfigAssumption DEF IInv, TypeOK
    <3> QED BY <3>1, <3>2 DEF Blows
  <2>3. e \in Enemies /\ enemyHealth[e] \in Nat
    BY <1>1 DEF IInv, TypeOK, Pairing
  <2>4. enemyHealth[e] - blow \in Int
    BY <2>2, <2>3
  <2>5. left(blow) \in 0..1000
    BY <2>4, ClampType
  <2> HIDE DEF left
  <2>6. enemyHealth' \in [Enemies -> Nat]
    <3>1. left(blow) \in Nat
      BY <2>5
    <3> HIDE DEF e
    <3> QED BY <2>1, <2>3, <3>1 DEF IInv, TypeOK
  <2>7. CASE Win(p, e)
    BY <1>1, <2>6, <2>7, WinInv
  <2>8. CASE EnemyTurn(p, stats[p], inventory[p]) /\ UNCHANGED enemyVars
    BY <1>1, <1>2, <2>6, <2>8, EnemyTurnInv
  <2> QED BY <2>1, <2>7, <2>8
<1>4. CASE EnemyTurn(p, stats[p], inventory[p]) /\ UNCHANGED <<enemyHealth, enemyVars>>
  <2>1. enemyHealth' \in [Enemies -> Nat]
    BY <1>4 DEF IInv, TypeOK
  <2> QED BY <1>1, <1>2, <1>4, <2>1, EnemyTurnInv
<1> QED BY <1>3, <1>4 DEF Attack

LEMMA SkipInv ==
  ASSUME IInv, NEW p \in Players, Skip(p)
  PROVE  IInv'
<1>1. p \in fighting /\ enemyHealth' \in [Enemies -> Nat]
  BY DEF Skip, InBattle, IInv, TypeOK
<1>2. stats[p] \in Stats /\ inventory[p] \in SUBSET Items
  BY DEF IInv, TypeOK
<1> QED BY <1>1, <1>2, EnemyTurnInv DEF Skip

\* The samosbor kills connected players, whatever they are doing, and brings
\* back dead ones, who by DeadLieStill are in no battle.
LEMMA SamosborInv ==
  ASSUME IInv, Samosbor
  PROVE  IInv'
<1>1. CASE StartSamosbor
  BY <1>1 DEF StartSamosbor, IInv, TypeOK, Pairing, DeadLieStill,
              playerVars, bodyVars, battleVars, itemVars, enemyVars
<1>2. CASE CheckPlayersSamosbor
  <2> DEFINE caught == {p \in inSession \ dead : location[p] \notin LiveRooms}
  <2>1. /\ Die(caught, stats, inventory, fighting, opponent, battleWith)
        /\ UNCHANGED <<playerVars, enemyHealth, enemyVars, broken, samosborGoing>>
    BY <1>2 DEF CheckPlayersSamosbor
  <2>2. caught \in SUBSET (players \ dead)
    BY DEF IInv, TypeOK
  <2>3. Paired(fighting, opponent, battleWith) /\ Lying(stats, inventory, fighting)
    BY DEF IInv, Pairing, DeadLieStill, Paired, Lying
  <2>4. /\ stats \in [Players -> Stats] /\ inventory \in [Players -> SUBSET Items]
        /\ fighting \in SUBSET players /\ opponent \in [Players -> Enemies \cup {NoEnemy}]
        /\ battleWith \in [Enemies -> Players \cup {NoPlayer}]
        /\ enemyHealth' \in [Enemies -> Nat]
    BY <2>1 DEF IInv, TypeOK
  <2> HIDE DEF caught
  <2> QED BY <2>1, <2>2, <2>3, <2>4, DieInv
<1>3. CASE StopSamosbor
  <2> DEFINE back == ToRespawn(inSession)
  <2>1. /\ back \subseteq dead /\ dead' = dead \ back /\ samosborGoing' = FALSE
        /\ UNCHANGED <<playerVars, stats, equipped, inventory, battleVars, itemVars, enemyVars, broken>>
    BY <1>3 DEF StopSamosbor, ToRespawn
  <2>2. PICK to \in [back -> SpawnRooms] :
          location' = [p \in Players |-> IF p \in back THEN to[p] ELSE location[p]]
    BY <1>3 DEF StopSamosbor
  <2> HIDE DEF back
  <2>3. /\ \A p \in Players : location'[p] \in Rooms \/ (p \notin back /\ location'[p] = location[p])
        /\ \A p \in fighting : location'[p] = location[p]
    BY <2>1, <2>2, SpawnRoomsType DEF IInv, TypeOK, DeadLieStill
  <2>4. location' \in [Players -> Rooms \cup {NoRoom}] /\ \A p \in players : location'[p] \in Rooms
    BY <2>2, <2>3 DEF IInv, TypeOK
  <2>5. TypeOK'
    BY <2>1, <2>4 DEF IInv, TypeOK, playerVars, battleVars, itemVars, enemyVars
  <2>6. Pairing'
    BY <2>1, <2>3 DEF IInv, TypeOK, Pairing, battleVars, enemyVars
  <2>7. DeadLieStill'
    BY <2>1 DEF IInv, DeadLieStill, battleVars
  <2> QED BY <2>5, <2>6, <2>7 DEF IInv
<1> QED BY <1>1, <1>2, <1>3 DEF Samosbor

-----------------------------------------------------------------------------
(* The theorems *)

\* Every step of the game keeps the inductive invariant.
THEOREM NextInv == IInv /\ [Next]_vars => IInv'
<1> SUFFICES ASSUME IInv, [Next]_vars PROVE IInv'
  OBVIOUS
<1>1. ASSUME NEW p \in Players, SessionStep(p) PROVE IInv'
  BY <1>1, SessionInv
<1>2. ASSUME NEW p \in Players, Command(p) PROVE IInv'
  <2>1. ASSUME NEW r \in Rooms, Move(p, r) PROVE IInv'
    <3>1. 1 \in {1, -1}
      OBVIOUS
    <3> QED BY <2>1, <3>1, WalkInv
  <2>2. ASSUME NEW dir \in {1, -1}, ChangeFloor(p, dir) PROVE IInv'
    <3>1. location[p] \in Rooms
      BY <2>2 DEF ChangeFloor, MayCommandInPeace, MayCommand, IInv, TypeOK
    <3> QED BY <2>2, <3>1, WalkInv
  <2>3. ASSUME NEW i \in Items, PickupItem(p, i) \/ DropItem(p, i) \/ Craft(p, i) \/ Equip(p, i)
        PROVE  IInv'
    BY <2>3, ItemInv
  <2>4. CASE RepairExit(p)
    BY <2>4, RepairInv
  <2>5. CASE UseItem(p)
    BY <2>5, UseItemInv
  <2>6. ASSUME NEW e \in Enemies, Battle(p, e) PROVE IInv'
    BY <2>6, BattleInv
  <2>7. CASE Attack(p) \/ Skip(p)
    BY <2>7, AttackInv, SkipInv
  <2> QED BY <1>2, <2>1, <2>2, <2>3, <2>4, <2>5, <2>6, <2>7 DEF Command
<1>3. CASE Samosbor
  BY <1>3, SamosborInv
<1>4. CASE UNCHANGED vars
  BY <1>4 DEF vars, playerVars, bodyVars, battleVars, itemVars, enemyVars,
              IInv, TypeOK, Pairing, DeadLieStill
<1> QED BY <1>1, <1>2, <1>3, <1>4 DEF Next

\* The state is well-formed in every game, on every map.
THEOREM TypeCorrect == Spec => []TypeOK
<1>1. IInv => TypeOK
  BY DEF IInv
<1> QED BY InitInv, NextInv, <1>1, PTL DEF Spec

\* A player and an enemy are in battle with each other or not at all, whatever
\* the number of players and enemies and however their commands, deaths,
\* disconnections and the samosbor interleave.
THEOREM BattlesArePairs == Spec => []Pairing
<1>1. IInv => Pairing
  BY DEF IInv
<1> QED BY InitInv, NextInv, <1>1, PTL DEF Spec

\* The dead have left their battles and their belongings, and stay so until
\* they are brought back.
THEOREM TheDeadLieStill == Spec => []DeadLieStill
<1>1. IInv => DeadLieStill
  BY DEF IInv
<1> QED BY InitInv, NextInv, <1>1, PTL DEF Spec

-----------------------------------------------------------------------------
(* The floors *)

\* Whoever plays is in a room. What follows rests on no more of the state, so
\* that it also holds of a game whose battles have gone wrong.
Placed ==
  /\ players \in SUBSET Players
  /\ location \in [Players -> Rooms \cup {NoRoom}]
  /\ \A p \in players : location[p] \in Rooms

\* A step changes the floor of a connected player by the usable exit under its
\* feet, or brings it to floor 1; the exits only get repaired.
LEMMA FloorStep ==
  ASSUME Placed, [Next]_vars, NEW p \in players'
  PROVE  /\ broken' \subseteq broken
         /\ \/ p \in players /\ Place[location'[p]].F <= Place[location[p]].F
            \/ Place[location'[p]].F = 1
            \/ /\ p \in players /\ UsableExit(location[p])
               /\ Place[location'[p]].F = Place[location[p]].F + 1
<1> DEFINE Same == p \in players /\ location'[p] = location[p]
           Down == Place[location'[p]].F = 1
<1>1. \A r \in Rooms : Place[r].F \in Int
  BY MapAssumption
<1>2. \A q \in players : q \in Players /\ location[q] \in Rooms /\ Place[location[q]].F \in Int
  BY <1>1 DEF Placed
<1>3. Same => Place[location'[p]].F <= Place[location[p]].F
  BY <1>2
<1> DEFINE Goal == broken' \subseteq broken /\ (Same \/ Down)
<1>4. SUFFICES \/ Goal
               \/ /\ broken' \subseteq broken /\ p \in players
                  /\ \/ Place[location'[p]].F = Place[location[p]].F
                     \/ Place[location'[p]].F = Place[location[p]].F - 1
                     \/ /\ UsableExit(location[p])
                        /\ Place[location'[p]].F = Place[location[p]].F + 1
  <2>1. CASE Goal
    BY <1>3, <2>1
  <2>2. ASSUME p \in players,
               Place[location'[p]].F \in {Place[location[p]].F, Place[location[p]].F - 1}
        PROVE  Place[location'[p]].F <= Place[location[p]].F
    BY <1>2, <2>2
  <2> QED BY <1>4, <2>1, <2>2
<1>5. ASSUME NEW q \in Players, SpawnPlayer(q) PROVE Goal
  BY <1>5, SpawnRoomsType DEF SpawnPlayer, Placed
<1>6. ASSUME NEW q \in Players, Rejoin(q) \/ Disconnect(q) PROVE Goal
  BY <1>6 DEF Rejoin, Disconnect, bodyVars
<1>7. ASSUME NEW q \in Players, NEW r \in Rooms, Move(q, r)
      PROVE  /\ broken' \subseteq broken /\ p \in players
             /\ Place[location'[p]].F = Place[location[p]].F
  BY <1>2, <1>7 DEF Move, Adjacent, playerVars, Placed
<1>8. ASSUME NEW q \in Players, NEW dir \in {1, -1}, ChangeFloor(q, dir)
      PROVE  /\ broken' \subseteq broken /\ p \in players
             /\ \/ Place[location'[p]].F = Place[location[p]].F
                \/ Place[location'[p]].F = Place[location[p]].F - 1
                \/ /\ UsableExit(location[p])
                   /\ Place[location'[p]].F = Place[location[p]].F + 1
  <2>1. /\ UsableExit(location[q]) /\ broken' = broken /\ players' = players
        /\ \E r \in ExitRooms : /\ Place[r].F = Place[location[q]].F + dir
                                /\ location' = [location EXCEPT ![q] = r]
    BY <1>8 DEF ChangeFloor, playerVars
  <2>2. CASE p # q
    BY <2>1, <2>2 DEF Placed
  <2>3. CASE p = q
    BY <1>2, <2>1, <2>3 DEF Placed
  <2> QED BY <2>2, <2>3
<1>9. ASSUME NEW q \in Players, NEW i \in Items,
             PickupItem(q, i) \/ DropItem(q, i) \/ Craft(q, i) \/ Equip(q, i)
      PROVE  Goal
  BY <1>9 DEF PickupItem, DropItem, Craft, Equip, playerVars
<1>10. ASSUME NEW q \in Players, RepairExit(q) PROVE Goal
  BY <1>10 DEF RepairExit, playerVars
<1>11. ASSUME NEW q \in Players, NEW s, NEW bag, NEW fgt, NEW opp, NEW bw,
              CheckPlayerDeath(q, s, bag, fgt, opp, bw), UNCHANGED <<playerVars, broken>>
       PROVE  Goal
  <2>1. CASE ~IsKilled(s)
    BY <1>11, <2>1 DEF CheckPlayerDeath, playerVars
  <2>2. CASE IsKilled(s)
    <3>1. CASE samosborGoing
      BY <1>11, <2>2, <3>1 DEF CheckPlayerDeath, Die, playerVars
    <3>2. CASE ~samosborGoing
      <4>1. PICK to \in [{q} -> SpawnRooms] :
              location' = [x \in Players |-> IF x \in {q} THEN to[x] ELSE location[x]]
        BY <1>11, <2>2, <3>2 DEF CheckPlayerDeath, Die
      <4>2. players' = players /\ broken' = broken /\ p \in Players
        BY <1>11 DEF playerVars, Placed
      <4> QED BY <4>1, <4>2, SpawnRoomsType
    <3> QED BY <3>1, <3>2
  <2> QED BY <2>1, <2>2
<1>12. ASSUME NEW q \in Players, UseItem(q) PROVE Goal
  BY <1>11, <1>12 DEF UseItem, EnemyTurn, playerVars
<1>13. ASSUME NEW q \in Players, NEW e \in Enemies, Battle(q, e) PROVE Goal
  BY <1>11, <1>13 DEF Battle, bodyVars, playerVars
<1>14. ASSUME NEW q \in Players, Attack(q) PROVE Goal
  <2>1. \/ Win(q, opponent[q])
        \/ EnemyTurn(q, stats[q], inventory[q])
    BY <1>14 DEF Attack
  <2>2. CASE Win(q, opponent[q])
    BY <1>14, <2>2 DEF Attack, Win, playerVars
  <2>3. CASE EnemyTurn(q, stats[q], inventory[q])
    BY <1>11, <1>14, <2>3 DEF Attack, EnemyTurn
  <2> QED BY <2>1, <2>2, <2>3
<1>15. ASSUME NEW q \in Players, Skip(q) PROVE Goal
  BY <1>11, <1>15 DEF Skip, EnemyTurn
<1>16. CASE StartSamosbor \/ CheckPlayersSamosbor
  BY <1>16 DEF StartSamosbor, CheckPlayersSamosbor, Die, bodyVars, playerVars
<1>17. CASE StopSamosbor
  <2>1. PICK to \in [ToRespawn(inSession) -> SpawnRooms] :
          location' = [x \in Players |-> IF x \in ToRespawn(inSession) THEN to[x] ELSE location[x]]
    BY <1>17 DEF StopSamosbor
  <2>2. players' = players /\ broken' = broken /\ p \in Players
    BY <1>17 DEF StopSamosbor, playerVars, Placed
  <2> QED BY <2>1, <2>2, SpawnRoomsType
<1>18. CASE UNCHANGED vars
  BY <1>18 DEF vars, playerVars, bodyVars
<1> HIDE DEF Goal
<1>19. ASSUME NEW q \in Players, SessionStep(q)
       PROVE  Goal
  BY <1>5, <1>6, <1>19 DEF SessionStep
<1>20. ASSUME NEW q \in Players, Command(q),
              ~ \E r \in Rooms : Move(q, r), ~ \E dir \in {1, -1} : ChangeFloor(q, dir)
       PROVE  Goal
  BY <1>9, <1>10, <1>12, <1>13, <1>14, <1>15, <1>20 DEF Command
<1> QED BY <1>7, <1>8, <1>16, <1>17, <1>18, <1>19, <1>20 DEF Next, Samosbor

\* Every step leaves the players in rooms.
LEMMA PlacedKept == Placed /\ [Next]_vars => Placed'
<1> SUFFICES ASSUME Placed, [Next]_vars PROVE Placed'
  OBVIOUS
<1> USE DEF Placed
<1>1. ASSUME NEW q \in Players, SpawnPlayer(q) PROVE Placed'
  BY <1>1, SpawnRoomsType DEF SpawnPlayer
<1>2. ASSUME UNCHANGED <<players, location>> PROVE Placed'
  BY <1>2
<1>3. ASSUME NEW q \in Players, NEW r \in Rooms, location' = [location EXCEPT ![q] = r],
             UNCHANGED players
      PROVE  Placed'
  BY <1>3
<1>4. ASSUME NEW D \in SUBSET Players, UNCHANGED players,
             \E to \in [D -> SpawnRooms] :
               location' = [x \in Players |-> IF x \in D THEN to[x] ELSE location[x]]
      PROVE  Placed'
  BY <1>4, SpawnRoomsType
<1>5. ASSUME NEW q \in Players, NEW s, NEW bag, NEW fgt, NEW opp, NEW bw,
             CheckPlayerDeath(q, s, bag, fgt, opp, bw), UNCHANGED players
      PROVE  Placed'
  <2>1. CASE ~IsKilled(s) \/ samosborGoing
    BY <1>2, <1>5, <2>1 DEF CheckPlayerDeath, Die
  <2>2. CASE IsKilled(s) /\ ~samosborGoing
    <3>1. \E to \in [{q} -> SpawnRooms] :
            location' = [x \in Players |-> IF x \in {q} THEN to[x] ELSE location[x]]
      BY <1>5, <2>2 DEF CheckPlayerDeath, Die
    <3>2. {q} \in SUBSET Players
      OBVIOUS
    <3> HIDE DEF Placed
    <3> QED BY <1>4, <1>5, <3>1, <3>2
  <2> QED BY <2>1, <2>2
<1> HIDE DEF Placed
<1>6. ASSUME NEW q \in Players, SessionStep(q) PROVE Placed'
  BY <1>1, <1>2, <1>6 DEF SessionStep, Rejoin, Disconnect, bodyVars
<1>7. ASSUME NEW q \in Players, NEW r \in Rooms, Move(q, r) PROVE Placed'
  BY <1>3, <1>7 DEF Move, playerVars
<1>8. ASSUME NEW q \in Players, NEW dir \in {1, -1}, ChangeFloor(q, dir) PROVE Placed'
  BY <1>3, <1>8, MapAssumption DEF ChangeFloor, playerVars
<1>9. ASSUME NEW q \in Players, NEW i \in Items,
             PickupItem(q, i) \/ DropItem(q, i) \/ Craft(q, i) \/ Equip(q, i)
      PROVE  Placed'
  BY <1>2, <1>9 DEF PickupItem, DropItem, Craft, Equip, playerVars
<1>10. ASSUME NEW q \in Players, RepairExit(q) PROVE Placed'
  BY <1>2, <1>10 DEF RepairExit, playerVars
<1>11. ASSUME NEW q \in Players, UseItem(q) PROVE Placed'
  BY <1>2, <1>5, <1>11 DEF UseItem, EnemyTurn, playerVars
<1>12. ASSUME NEW q \in Players, NEW e \in Enemies, Battle(q, e) PROVE Placed'
  BY <1>2, <1>5, <1>12 DEF Battle, bodyVars, playerVars
<1>13. ASSUME NEW q \in Players, Attack(q) \/ Skip(q) PROVE Placed'
  <2>1. UNCHANGED players /\ (Win(q, opponent[q]) \/ EnemyTurn(q, stats[q], inventory[q]))
    BY <1>13 DEF Attack, Skip, playerVars
  <2>2. CASE Win(q, opponent[q])
    BY <1>2, <2>1, <2>2 DEF Win
  <2>3. CASE EnemyTurn(q, stats[q], inventory[q])
    BY <1>5, <2>1, <2>3 DEF EnemyTurn
  <2> QED BY <2>1, <2>2, <2>3
<1>14. ASSUME NEW q \in Players, Command(q) PROVE Placed'
  BY <1>7, <1>8, <1>9, <1>10, <1>11, <1>12, <1>13, <1>14 DEF Command
<1>15. CASE StartSamosbor \/ CheckPlayersSamosbor
  BY <1>2, <1>15 DEF StartSamosbor, CheckPlayersSamosbor, Die, bodyVars, playerVars
<1>16. CASE StopSamosbor
  <2>1. PICK to \in [ToRespawn(inSession) -> SpawnRooms] :
          location' = [x \in Players |-> IF x \in ToRespawn(inSession) THEN to[x] ELSE location[x]]
    BY <1>16 DEF StopSamosbor
  <2>2. UNCHANGED players
    BY <1>16 DEF StopSamosbor, playerVars
  <2> QED BY <2>1, <2>2, SpawnRoomsType DEF Placed
<1>17. CASE UNCHANGED vars
  BY <1>2, <1>17 DEF vars, playerVars, bodyVars
<1> QED BY <1>6, <1>14, <1>15, <1>16, <1>17 DEF Next, Samosbor

\* The way up leads through the exits of all floors below.
LEMMA FloorsKept == Placed /\ FloorsBelowRepaired /\ [Next]_vars => FloorsBelowRepaired'
<1> SUFFICES ASSUME Placed, FloorsBelowRepaired, [Next]_vars,
                    NEW p \in players', NEW r \in ExitRooms,
                    Place[r].F < Place[location'[p]].F
             PROVE  r \notin broken'
  BY DEF FloorsBelowRepaired
<1>1. Place[r].F \in Nat \ {0} /\ r \in Rooms
  BY MapAssumption
<1>2. broken' \subseteq broken
  BY FloorStep
<1>3. CASE p \in players /\ Place[location'[p]].F <= Place[location[p]].F
  <2>1. location[p] \in Rooms /\ location'[p] \in Rooms
    BY <1>3, PlacedKept DEF Placed
  <2>2. Place[location[p]].F \in Nat /\ Place[location'[p]].F \in Nat
    <3>1. \A s \in Rooms : Place[s].F \in Nat
      BY MapAssumption
    <3> QED BY <2>1, <3>1
  <2>3. Place[r].F < Place[location[p]].F
    BY <1>1, <1>3, <2>2
  <2> QED BY <1>2, <1>3, <2>3 DEF FloorsBelowRepaired
<1>4. CASE Place[location'[p]].F = 1
  BY <1>1, <1>4
<1>5. CASE /\ p \in players /\ UsableExit(location[p])
           /\ Place[location'[p]].F = Place[location[p]].F + 1
  <2>1. location[p] \in ExitRooms /\ location[p] \notin broken
    BY <1>5 DEF UsableExit
  <2>2. Place[location[p]].F \in Nat
    BY <2>1, MapAssumption
  <2>3. Place[r].F < Place[location[p]].F \/ Place[r].F = Place[location[p]].F
    BY <1>1, <1>5, <2>2
  <2>4. CASE Place[r].F < Place[location[p]].F
    BY <1>2, <1>5, <2>4 DEF FloorsBelowRepaired
  <2>5. CASE Place[r].F = Place[location[p]].F
    BY <1>2, <2>1, <2>5, MapAssumption
  <2> QED BY <2>3, <2>4, <2>5
<1> QED BY <1>3, <1>4, <1>5, FloorStep

\* On every map and in every game, who is above a floor finds its exit repaired:
\* a floor has one exit, so the way up leads through each of them.
THEOREM FloorsAreOpened == Spec => []FloorsBelowRepaired
<1>1. Init => Placed /\ FloorsBelowRepaired
  BY DEF Init, Placed, FloorsBelowRepaired
<1> QED BY PlacedKept, FloorsKept, <1>1, PTL DEF Spec
=============================================================================
