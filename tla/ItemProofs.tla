----------------------------- MODULE ItemProofs -----------------------------
(***************************************************************************)
(* Where the objects of the game are.  ObjectStep tells the shapes a step  *)
(* may have, seen from the rooms and the inventories; from it follow that  *)
(* an object is in one place, that the texts of a room show what is in it, *)
(* that no inventory overflows, and the action properties about guarded    *)
(* loot and about the way out of a battle.                                 *)
(***************************************************************************)
EXTENDS BattleProofs

-----------------------------------------------------------------------------
(* Counting items *)

LEMMA ItemsFinite ==
  ASSUME NEW S \in SUBSET Items
  PROVE  IsFiniteSet(S) /\ Cardinality(S) \in Nat
<1>1. IsFiniteSet(S)
  BY GeneratedAssumption, FS_Subset
<1> QED BY <1>1, FS_CardinalityType

LEMMA KindFinite ==
  ASSUME NEW S \in SUBSET Items, NEW k
  PROVE  /\ OfKind(k, S) \in SUBSET Items
         /\ IsFiniteSet(OfKind(k, S)) /\ Cardinality(OfKind(k, S)) \in Nat
<1>1. OfKind(k, S) \in SUBSET Items
  BY DEF OfKind
<1> QED BY <1>1, ItemsFinite

\* What is put together from two heaps is counted by adding.
LEMMA CountUnion ==
  ASSUME NEW S \in SUBSET Items, NEW T \in SUBSET Items, S \cap T = {}
  PROVE  Count(S \cup T) = [k \in Kinds |-> Count(S)[k] + Count(T)[k]]
<1> SUFFICES ASSUME NEW k \in Kinds
             PROVE  Cardinality(OfKind(k, S \cup T)) =
                      Cardinality(OfKind(k, S)) + Cardinality(OfKind(k, T))
  BY DEF Count
<1>1. /\ OfKind(k, S \cup T) = OfKind(k, S) \cup OfKind(k, T)
      /\ OfKind(k, S) \cap OfKind(k, T) = {}
  BY DEF OfKind
<1>2. /\ IsFiniteSet(OfKind(k, S)) /\ Cardinality(OfKind(k, S)) \in Nat
      /\ IsFiniteSet(OfKind(k, T)) /\ Cardinality(OfKind(k, T)) \in Nat
  BY KindFinite
<1>3. Cardinality(OfKind(k, S) \cup OfKind(k, T)) =
        Cardinality(OfKind(k, S)) + Cardinality(OfKind(k, T)) - Cardinality({})
  <2>1. \A U, V : IsFiniteSet(U) /\ IsFiniteSet(V) =>
          Cardinality(U \cup V) = Cardinality(U) + Cardinality(V) - Cardinality(U \cap V)
    BY FS_Union
  <2> QED BY <1>1, <1>2, <2>1
<1>4. Cardinality({}) = 0
  BY FS_EmptySet
<1>5. Cardinality(OfKind(k, S \cup T)) = Cardinality(OfKind(k, S) \cup OfKind(k, T))
  BY <1>1
<1> QED BY <1>2, <1>3, <1>4, <1>5

\* One object more or less changes the count of its kind by one.
LEMMA CountAdd ==
  ASSUME NEW S \in SUBSET Items, NEW i \in Items \ S
  PROVE  Count(S \cup {i}) = [Count(S) EXCEPT ![kind[i]] = @ + 1]
<1> SUFFICES ASSUME NEW k \in Kinds
             PROVE  Cardinality(OfKind(k, S \cup {i})) =
                      IF k = kind[i] THEN Cardinality(OfKind(k, S)) + 1
                      ELSE Cardinality(OfKind(k, S))
  BY DEF Count
<1>1. CASE k = kind[i]
  <2>1. OfKind(k, S \cup {i}) = OfKind(k, S) \cup {i} /\ i \notin OfKind(k, S)
    BY <1>1 DEF OfKind
  <2> QED BY <1>1, <2>1, KindFinite, FS_AddElement
<1>2. CASE k # kind[i]
  <2>1. OfKind(k, S \cup {i}) = OfKind(k, S)
    BY <1>2 DEF OfKind
  <2> QED BY <1>2, <2>1
<1> QED BY <1>1, <1>2

LEMMA CountRemove ==
  ASSUME NEW S \in SUBSET Items, NEW i \in S
  PROVE  Count(S \ {i}) = [Count(S) EXCEPT ![kind[i]] = @ - 1]
<1> SUFFICES ASSUME NEW k \in Kinds
             PROVE  Cardinality(OfKind(k, S \ {i})) =
                      IF k = kind[i] THEN Cardinality(OfKind(k, S)) - 1
                      ELSE Cardinality(OfKind(k, S))
  BY DEF Count
<1>1. CASE k = kind[i]
  <2>1. OfKind(k, S \ {i}) = OfKind(k, S) \ {i} /\ i \in OfKind(k, S)
    BY <1>1 DEF OfKind
  <2>2. IsFiniteSet(OfKind(k, S))
    BY KindFinite
  <2>3. Cardinality(OfKind(k, S) \ {i}) = Cardinality(OfKind(k, S)) - 1
    BY <2>1, <2>2, FS_RemoveElement
  <2> QED BY <1>1, <2>1, <2>3
<1>2. CASE k # kind[i]
  <2>1. OfKind(k, S \ {i}) = OfKind(k, S)
    BY <1>2 DEF OfKind
  <2> QED BY <1>2, <2>1
<1> QED BY <1>1, <1>2

\* Material that pays a recipe asking for anything is not empty.
LEMMA PaymentTakes ==
  ASSUME NEW S \in SUBSET Items, NEW recipe \in Bags, Pays(S, recipe),
         NEW k \in Kinds, recipe[k] > 0
  PROVE  S # {}
<1>1. Cardinality(OfKind(k, S)) > 0
  BY DEF Pays, Count
<1>2. OfKind(k, S) # {}
  BY <1>1, FS_EmptySet
<1> QED BY <1>2 DEF OfKind

-----------------------------------------------------------------------------
(* What a step may do to the objects *)

\* Nobody's inventory shrinks in size, but for a player that is made anew
SizesKept == \A q \in Players : \/ stats'[q].inventoryMaxSize >= stats[q].inventoryMaxSize
                                \/ q \notin players

\* Objects are used up, and none moves
Lost == /\ \A q \in Players : inventory'[q] \subseteq inventory[q]
        /\ UNCHANGED itemVars

\* p gains one object that was nowhere, if there is room for it
Gained(p, i) ==
  /\ p \in players /\ i \in Spare /\ UNCHANGED itemVars
  /\ \A q \in Players \ {p} : inventory'[q] = inventory[q]
  /\ inventory'[p] \subseteq inventory[p] \cup {i}
  /\ Cardinality(inventory'[p]) <= stats'[p].inventoryMaxSize

LostIn(r, D, inv) == UNION {inv[p] : p \in {q \in D : location[q] = r}}

\* The players of D die where they stand, with what is left to them
Spilled(D, inv) ==
  /\ \A q \in Players : inv[q] \subseteq inventory[q]
  /\ \A q \in Players : inventory'[q] = IF q \in D THEN {} ELSE inv[q]
  /\ items' = [r \in Rooms |-> items[r] \cup LostIn(r, D, inv)]
  /\ itemDescription' = [r \in Rooms |->
       [k \in Kinds |-> itemDescription[r][k] + Count(LostIn(r, D, inv))[k]]]

\* The enemy of p leaves the room of p, and its text with it
Beaten(p) ==
  /\ enemies' = [enemies EXCEPT ![location[p]] = @ \ {opponent[p]}]
  /\ enemyDescription' = [enemyDescription EXCEPT ![location[p]][enemyKind[opponent[p]]] =
                            IF @ > 0 THEN @ - 1 ELSE 0]

Moved ==
  \/ Lost
  \/ \E p \in Players, i \in Items : PickupItem(p, i) \/ DropItem(p, i) \/ Gained(p, i)
  \/ \E D \in SUBSET players, inv \in [Players -> SUBSET Items] : Spilled(D, inv)

ObjectStep == SizesKept /\ Moved /\ (UNCHANGED enemyVars \/ \E p \in fighting : Beaten(p))

-----------------------------------------------------------------------------
(* Every handler makes such a step *)

\* Neither a blow nor the use of an item nor a level gained makes anyone's
\* inventory smaller.
LEMMA HitSize ==
  ASSUME NEW s \in Stats, NEW e \in Enemies
  PROVE  Hit(s, e).inventoryMaxSize = s.inventoryMaxSize
BY DEF Hit, Stats

LEMMA UsesSize ==
  ASSUME IInv, NEW p \in Players, NEW use \in Uses(p)
  PROVE  /\ use.stats.inventoryMaxSize = stats[p].inventoryMaxSize
         /\ Without(p, use.consumed) \subseteq inventory[p]
<1>1. stats[p] \in Stats
  BY DEF IInv, TypeOK
<1>2. CASE use = [stats |-> stats[p], consumed |-> {}]
  BY <1>2 DEF Without
<1>3. ASSUME NEW i \in inventory[p], use = Using(stats[p], i)
      PROVE  use.stats.inventoryMaxSize = stats[p].inventoryMaxSize
  <2> DEFINE s == stats[p]
             it == ItemConfig[kind[i]]
  <2>1. CASE it.type = "Armor" /\ s.armor < 100
    <3>1. use.stats = [s EXCEPT !.armor = Clamp(s.armor + it.power, 0, 100)]
      BY <1>3, <2>1 DEF Using
    <3> QED BY <3>1, <1>1 DEF Stats
  <2>2. CASE it.type = "HealingItem" /\ s.health < 100
    <3>1. use.stats = [s EXCEPT !.health = Clamp(s.health + it.power, 0, 100)]
      BY <1>3, <2>2 DEF Using
    <3> QED BY <3>1, <1>1 DEF Stats
  <2>3. CASE ~(it.type = "Armor" /\ s.armor < 100) /\ ~(it.type = "HealingItem" /\ s.health < 100)
    BY <1>3, <2>3 DEF Using
  <2> QED BY <2>1, <2>2, <2>3
<1> QED BY <1>2, <1>3 DEF Uses, Without

LEMMA LevelSize ==
  ASSUME NEW s \in Stats
  PROVE  CheckLevelUp(s).inventoryMaxSize >= s.inventoryMaxSize
BY DEF CheckLevelUp, Stats

\* Death spills the inventory, and leaves its size.
LEMMA DieObjects ==
  ASSUME NEW D \in SUBSET players, players \subseteq Players,
         NEW stat \in [Players -> Stats], NEW inv \in [Players -> SUBSET Items],
         \A q \in Players : /\ stat[q].inventoryMaxSize >= stats[q].inventoryMaxSize
                            /\ inv[q] \subseteq inventory[q],
         NEW fgt, NEW opp, NEW bw,
         Die(D, stat, inv, fgt, opp, bw)
  PROVE  SizesKept /\ Moved
<1>1. Spilled(D, inv)
  BY DEF Die, Spilled, LostIn
<1>2. ASSUME NEW q \in Players PROVE stats'[q].inventoryMaxSize = stat[q].inventoryMaxSize
  <2>1. stat[q] \in Stats
    OBVIOUS
  <2>2. stats'[q] = IF q \in D THEN [stat[q] EXCEPT !.health = 100, !.armor = 0, !.currentExp = 0,
                                                    !.weaponSkill = stat[q].weaponSkill \div 2]
                    ELSE stat[q]
    BY DEF Die
  <2> QED BY <2>1, <2>2 DEF Stats
<1> QED BY <1>1, <1>2 DEF SizesKept, Moved

LEMMA DeathCheckObjects ==
  ASSUME IInv, NEW p \in players, NEW s \in Stats, NEW bag \in SUBSET Items,
         s.inventoryMaxSize = stats[p].inventoryMaxSize, bag \subseteq inventory[p],
         NEW fgt, NEW opp, NEW bw,
         CheckPlayerDeath(p, s, bag, fgt, opp, bw)
  PROVE  SizesKept /\ Moved
<1> DEFINE stat == [stats EXCEPT ![p] = s]
           inv == [inventory EXCEPT ![p] = bag]
<1>1. /\ p \in Players /\ players \subseteq Players
      /\ stat \in [Players -> Stats] /\ inv \in [Players -> SUBSET Items]
  BY DEF IInv, TypeOK
<1>2. \A q \in Players : /\ stat[q].inventoryMaxSize = stats[q].inventoryMaxSize
                         /\ inv[q] \subseteq inventory[q]
                         /\ stats[q].inventoryMaxSize \in Nat
  BY DEF IInv, TypeOK, Stats
<1>3. CASE IsKilled(s)
  <2>1. Die({p}, stat, inv, fgt, opp, bw) /\ {p} \in SUBSET players
    BY <1>3 DEF CheckPlayerDeath
  <2> HIDE DEF stat, inv
  <2> QED BY <1>1, <1>2, <2>1, DieObjects
<1>4. CASE ~IsKilled(s)
  <2>1. stats' = stat /\ inventory' = inv /\ UNCHANGED itemVars
    BY <1>4 DEF CheckPlayerDeath
  <2> HIDE DEF stat, inv
  <2> QED BY <1>2, <2>1 DEF SizesKept, Moved, Lost
<1> QED BY <1>3, <1>4

\* So does the answer of an enemy.
LEMMA EnemyTurnObjects ==
  ASSUME IInv, NEW p \in fighting, NEW s \in Stats, NEW bag \in SUBSET inventory[p],
         s.inventoryMaxSize = stats[p].inventoryMaxSize,
         EnemyTurn(p, s, bag)
  PROVE  SizesKept /\ Moved
<1>1. p \in players /\ opponent[p] \in Enemies /\ bag \in SUBSET Items
  BY DEF IInv, TypeOK, Pairing
<1>2. /\ Hit(s, opponent[p]) \in Stats
      /\ Hit(s, opponent[p]).inventoryMaxSize = stats[p].inventoryMaxSize
  BY <1>1, HitType, HitSize
<1> QED BY <1>1, <1>2, DeathCheckObjects DEF EnemyTurn

\* Handlers that leave stats and enemies alone
LEMMA IdleObjects ==
  ASSUME IInv, UNCHANGED <<stats, enemyVars>>, Moved
  PROVE  ObjectStep
<1>1. SizesKept
  BY DEF SizesKept, IInv, TypeOK, Stats
<1> QED BY <1>1 DEF ObjectStep

LEMMA SessionObjects ==
  ASSUME IInv, NEW p \in Players, SessionStep(p)
  PROVE  ObjectStep
<1>1. CASE SpawnPlayer(p)
  <2>1. /\ stats' = [stats EXCEPT ![p] = FreshStats] /\ p \notin players
        /\ UNCHANGED <<inventory, itemVars, enemyVars>>
    BY <1>1 DEF SpawnPlayer
  <2>2. SizesKept
    BY <2>1 DEF SizesKept, IInv, TypeOK, Stats
  <2>3. Lost
    BY <2>1 DEF Lost
  <2> QED BY <2>1, <2>2, <2>3 DEF ObjectStep, Moved
<1>2. CASE Rejoin(p) \/ Disconnect(p)
  <2>1. UNCHANGED <<stats, inventory, itemVars, enemyVars>>
    BY <1>2 DEF Rejoin, Disconnect, bodyVars
  <2> QED BY <2>1, IdleObjects DEF Moved, Lost
<1> QED BY <1>1, <1>2 DEF SessionStep

\* What is crafted takes the place of material, of which there is some.
LEMMA CraftObjects ==
  ASSUME IInv, InventoryWithinLimit, NEW p \in Players, NEW i \in Items, Craft(p, i)
  PROVE  ObjectStep
<1>1. /\ p \in players /\ i \in Spare
      /\ UNCHANGED <<stats, itemVars, enemyVars>>
  BY DEF Craft, MayCommandInPeace, MayCommand, IInv, TypeOK
<1>2. PICK material \in SUBSET inventory[p] :
        /\ Pays(material, CraftRecipe[kind[i]])
        /\ inventory' = [inventory EXCEPT ![p] = Without(p, material) \cup {i}]
  BY DEF Craft
<1>3. /\ inventory \in [Players -> SUBSET Items] /\ stats[p].inventoryMaxSize \in Nat
      /\ Cardinality(inventory[p]) <= stats[p].inventoryMaxSize
  BY DEF IInv, TypeOK, Stats, InventoryWithinLimit
<1>4. material # {}
  <2>1. CraftRecipe[kind[i]] \in Bags /\ \E k \in Kinds : CraftRecipe[kind[i]][k] > 0
    BY ConfigAssumption DEF Craft
  <2> QED BY <1>2, <1>3, <2>1, PaymentTakes
<1>5. /\ \A q \in Players \ {p} : inventory'[q] = inventory[q]
      /\ inventory'[p] = (inventory[p] \ material) \cup {i}
  BY <1>2, <1>3 DEF Without
<1>6. Cardinality(inventory'[p]) <= stats'[p].inventoryMaxSize
  <2> DEFINE rest == inventory[p] \ material
  <2>1. /\ IsFiniteSet(inventory[p]) /\ Cardinality(inventory[p]) \in Nat
        /\ IsFiniteSet(rest) /\ Cardinality(rest) \in Nat
    BY <1>3, ItemsFinite
  <2>2. rest \in SUBSET inventory[p] /\ rest # inventory[p]
    BY <1>4
  <2>3. Cardinality(rest) <= Cardinality(inventory[p]) /\ Cardinality(rest) # Cardinality(inventory[p])
    BY <2>1, <2>2, FS_Subset
  <2>4. Cardinality(rest \cup {i}) <= Cardinality(rest) + 1
    <3>1. Cardinality(rest \cup {i}) = IF i \in rest THEN Cardinality(rest) ELSE Cardinality(rest) + 1
      BY <2>1, FS_AddElement
    <3> QED BY <2>1, <3>1
  <2>5. Cardinality(rest \cup {i}) \in Nat
    BY <1>3, ItemsFinite
  <2>6. inventory'[p] = rest \cup {i} /\ stats' = stats
    BY <1>1, <1>5
  <2> HIDE DEF rest
  <2> QED BY <1>3, <2>1, <2>3, <2>4, <2>5, <2>6
<1>7. Gained(p, i)
  BY <1>1, <1>5, <1>6 DEF Gained
<1> QED BY <1>1, <1>7, IdleObjects DEF Moved

LEMMA UseItemObjects ==
  ASSUME IInv, NEW p \in Players, UseItem(p)
  PROVE  ObjectStep
<1>1. PICK use \in Uses(p) :
        \/ InBattle(p) /\ EnemyTurn(p, use.stats, Without(p, use.consumed))
        \/ /\ ~InBattle(p)
           /\ stats' = [stats EXCEPT ![p] = use.stats]
           /\ inventory' = [inventory EXCEPT ![p] = Without(p, use.consumed)]
           /\ UNCHANGED itemVars
  BY DEF UseItem
<1> DEFINE s == use.stats
           bag == Without(p, use.consumed)
<1>2. s \in Stats /\ s.inventoryMaxSize = stats[p].inventoryMaxSize /\ bag \in SUBSET inventory[p]
  BY UsesType, UsesSize
<1>3. UNCHANGED enemyVars
  BY DEF UseItem
<1> HIDE DEF s, bag
<1>4. CASE InBattle(p) /\ EnemyTurn(p, s, bag)
  BY <1>2, <1>3, <1>4, EnemyTurnObjects DEF InBattle, ObjectStep
<1>5. CASE /\ stats' = [stats EXCEPT ![p] = s] /\ inventory' = [inventory EXCEPT ![p] = bag]
           /\ UNCHANGED itemVars
  <2>1. SizesKept
    BY <1>2, <1>5 DEF SizesKept, IInv, TypeOK, Stats
  <2>2. Lost
    BY <1>2, <1>5 DEF Lost, IInv, TypeOK
  <2> QED BY <1>3, <2>1, <2>2 DEF ObjectStep, Moved
<1> QED BY <1>1, <1>4, <1>5 DEF s, bag

LEMMA BattleObjects ==
  ASSUME IInv, NEW p \in Players, NEW e \in Enemies, Battle(p, e)
  PROVE  ObjectStep
<1> DEFINE fgt == fighting \cup {p}
           opp == [opponent EXCEPT ![p] = e]
           bw  == [battleWith EXCEPT ![e] = p]
<1>1. p \in players /\ UNCHANGED enemyVars
  BY DEF Battle, MayCommandInPeace, MayCommand, IInv, TypeOK
<1>2. CASE CheckPlayerDeath(p, Hit(stats[p], e), inventory[p], fgt, opp, bw)
  <2>1. /\ Hit(stats[p], e) \in Stats /\ inventory[p] \in SUBSET Items
        /\ Hit(stats[p], e).inventoryMaxSize = stats[p].inventoryMaxSize
    BY HitType, HitSize DEF IInv, TypeOK
  <2> HIDE DEF fgt, opp, bw
  <2> QED BY <1>1, <1>2, <2>1, DeathCheckObjects DEF ObjectStep
<1>3. CASE UNCHANGED <<bodyVars, itemVars>>
  BY <1>1, <1>3, IdleObjects DEF Moved, Lost, bodyVars
<1> QED BY <1>2, <1>3 DEF Battle

\* A won fight brings at most one object, and removes the beaten enemy alone.
LEMMA WinObjects ==
  ASSUME IInv, NEW p \in fighting, Win(p, opponent[p])
  PROVE  ObjectStep
<1> DEFINE e == opponent[p]
           t == [stats[p] EXCEPT !.currentExp = @ + EnemyConfig[enemyKind[e]].exp]
           s == CheckLevelUp(t)
<1>1. /\ p \in Players /\ p \in players /\ e \in Enemies /\ location[p] \in Rooms
      /\ inventory[p] \in SUBSET Items /\ stats \in [Players -> Stats]
  BY DEF IInv, TypeOK, Pairing
<1>2. t \in Stats /\ t.inventoryMaxSize = stats[p].inventoryMaxSize
  <2>1. EnemyConfig[enemyKind[e]].exp \in Nat
    BY <1>1, ConfigAssumption
  <2> QED BY <1>1, <2>1 DEF Stats
<1>3. s \in Stats /\ s.inventoryMaxSize >= stats[p].inventoryMaxSize
  <2>1. s \in Stats
    BY <1>1, LevelType, ConfigAssumption
  <2> QED BY <1>2, <2>1, LevelSize
<1>4. /\ stats' = [stats EXCEPT ![p] = s]
      /\ \E k \in LootKinds(e) :
           IF HasRoomFor(inventory[p], s)
           THEN \E i \in OfKind(k, Spare) : inventory' = [inventory EXCEPT ![p] = @ \cup {i}]
           ELSE UNCHANGED inventory
      /\ enemies' = [enemies EXCEPT ![location[p]] = {x \in @ : battleWith[x] # p}]
      /\ enemyDescription' = [enemyDescription EXCEPT ![location[p]][enemyKind[e]] =
                                IF @ > 0 THEN @ - 1 ELSE 0]
      /\ UNCHANGED itemVars
  BY DEF Win
<1> HIDE DEF s, t
<1>5. SizesKept
  BY <1>1, <1>3, <1>4 DEF SizesKept, Stats
<1>6. Moved
  <2>1. CASE UNCHANGED inventory
    BY <1>4, <2>1 DEF Moved, Lost
  <2>2. ASSUME NEW i \in Spare, inventory' = [inventory EXCEPT ![p] = @ \cup {i}],
               HasRoomFor(inventory[p], s)
        PROVE  Moved
    <3>1. /\ inventory'[p] = inventory[p] \cup {i} /\ stats'[p] = s
          /\ \A q \in Players \ {p} : inventory'[q] = inventory[q]
      BY <1>1, <1>4, <2>2 DEF IInv, TypeOK
    <3>2. IsFiniteSet(inventory[p]) /\ Cardinality(inventory[p]) \in Nat
      BY <1>1, ItemsFinite
    <3>3. Cardinality(inventory'[p]) <= Cardinality(inventory[p]) + 1
      <4>1. Cardinality(inventory[p] \cup {i}) =
              IF i \in inventory[p] THEN Cardinality(inventory[p]) ELSE Cardinality(inventory[p]) + 1
        BY <3>2, FS_AddElement
      <4> QED BY <3>1, <3>2, <4>1
    <3>4. Cardinality(inventory'[p]) \in Nat
      BY <1>1, <3>1, ItemsFinite DEF Spare
    <3>5. Cardinality(inventory'[p]) <= stats'[p].inventoryMaxSize
      <4>1. s.inventoryMaxSize \in Nat /\ Cardinality(inventory[p]) < s.inventoryMaxSize
        BY <1>3, <2>2 DEF Stats, HasRoomFor
      <4> QED BY <3>1, <3>2, <3>3, <3>4, <4>1
    <3>6. Gained(p, i)
      BY <1>1, <1>4, <3>1, <3>5 DEF Gained
    <3> QED BY <1>1, <3>6 DEF Moved, Spare
  <2> QED BY <1>4, <2>1, <2>2 DEF OfKind
<1>7. Beaten(p)
  <2>1. {x \in enemies[location[p]] : battleWith[x] # p} = enemies[location[p]] \ {e}
    BY <1>1, SentinelAssumption DEF IInv, TypeOK, Pairing
  <2> QED BY <1>4, <2>1 DEF Beaten
<1> QED BY <1>5, <1>6, <1>7 DEF ObjectStep

LEMMA AttackObjects ==
  ASSUME IInv, NEW p \in Players, Attack(p)
  PROVE  ObjectStep
<1>1. p \in fighting /\ stats[p] \in Stats
  BY DEF Attack, InBattle, IInv, TypeOK
<1>2. \/ Win(p, opponent[p])
      \/ EnemyTurn(p, stats[p], inventory[p]) /\ UNCHANGED enemyVars
  BY DEF Attack
<1> QED BY <1>1, <1>2, WinObjects, EnemyTurnObjects DEF ObjectStep

LEMMA SkipObjects ==
  ASSUME IInv, NEW p \in Players, Skip(p)
  PROVE  ObjectStep
<1>1. /\ p \in fighting /\ stats[p] \in Stats
      /\ EnemyTurn(p, stats[p], inventory[p]) /\ UNCHANGED enemyVars
  BY DEF Skip, InBattle, IInv, TypeOK
<1> QED BY <1>1, EnemyTurnObjects DEF ObjectStep

LEMMA SamosborObjects ==
  ASSUME IInv, Samosbor
  PROVE  ObjectStep
<1>1. CASE StartSamosbor \/ StopSamosbor
  BY <1>1, IdleObjects DEF StartSamosbor, StopSamosbor, bodyVars, Moved, Lost
<1>2. CASE CheckPlayersSamosbor
  <2> DEFINE caught == {p \in inSession \ dead : location[p] \notin LiveRooms}
  <2>1. /\ Die(caught, stats, inventory, fighting, opponent, battleWith)
        /\ UNCHANGED enemyVars
    BY <1>2 DEF CheckPlayersSamosbor
  <2>2. /\ caught \in SUBSET players /\ players \subseteq Players
        /\ stats \in [Players -> Stats] /\ inventory \in [Players -> SUBSET Items]
        /\ \A q \in Players : stats[q].inventoryMaxSize >= stats[q].inventoryMaxSize
    BY DEF IInv, TypeOK, Stats
  <2> HIDE DEF caught
  <2>3. SizesKept /\ Moved
    BY <2>1, <2>2, DieObjects
  <2> QED BY <2>1, <2>3 DEF ObjectStep
<1> QED BY <1>1, <1>2 DEF Samosbor

\* Every step of the game is an ObjectStep.
LEMMA NextMovesObjects == IInv /\ InventoryWithinLimit /\ [Next]_vars => ObjectStep
<1> SUFFICES ASSUME IInv, InventoryWithinLimit, [Next]_vars PROVE ObjectStep
  OBVIOUS
<1>1. ASSUME NEW p \in Players, SessionStep(p) PROVE ObjectStep
  BY <1>1, SessionObjects
<1>2. ASSUME NEW p \in Players, Command(p) PROVE ObjectStep
  <2>1. ASSUME NEW r \in Rooms, Move(p, r) PROVE ObjectStep
    BY <2>1, IdleObjects DEF Move, Moved, Lost
  <2>2. ASSUME NEW dir \in {1, -1}, ChangeFloor(p, dir) PROVE ObjectStep
    BY <2>2, IdleObjects DEF ChangeFloor, Moved, Lost
  <2>3. ASSUME NEW i \in Items, PickupItem(p, i) \/ DropItem(p, i) PROVE ObjectStep
    <3>1. UNCHANGED <<stats, enemyVars>>
      BY <2>3 DEF PickupItem, DropItem
    <3> QED BY <2>3, <3>1, IdleObjects DEF Moved
  <2>4. ASSUME NEW i \in Items, Craft(p, i) PROVE ObjectStep
    BY <2>4, CraftObjects
  <2>5. ASSUME NEW i \in Items, Equip(p, i) PROVE ObjectStep
    BY <2>5, IdleObjects DEF Equip, Moved, Lost
  <2>6. CASE RepairExit(p)
    <3>1. UNCHANGED <<stats, enemyVars, itemVars>>
      BY <2>6 DEF RepairExit
    <3>2. \A q \in Players : inventory'[q] \subseteq inventory[q]
      BY <2>6 DEF RepairExit, Without, IInv, TypeOK
    <3> QED BY <3>1, <3>2, IdleObjects DEF Moved, Lost
  <2>7. CASE UseItem(p)
    BY <2>7, UseItemObjects
  <2>8. ASSUME NEW e \in Enemies, Battle(p, e) PROVE ObjectStep
    BY <2>8, BattleObjects
  <2>9. CASE Attack(p) \/ Skip(p)
    BY <2>9, AttackObjects, SkipObjects
  <2> QED BY <1>2, <2>1, <2>2, <2>3, <2>4, <2>5, <2>6, <2>7, <2>8, <2>9 DEF Command
<1>3. CASE Samosbor
  BY <1>3, SamosborObjects
<1>4. CASE UNCHANGED vars
  BY <1>4, IdleObjects DEF vars, bodyVars, Moved, Lost
<1> QED BY <1>1, <1>2, <1>3, <1>4 DEF Next

-----------------------------------------------------------------------------
(* The invariant *)

\* Who has not played yet holds nothing
Newcomers == \A q \in Players \ players : inventory[q] = {}

\* Described needs ItemInOnePlace, since what the dead leave is counted apart from
\* what lay in the room; InventoryWithinLimit needs Newcomers, since a player that
\* is made anew gets the smallest inventory.
OInv == IInv /\ ItemInOnePlace /\ Described /\ InventoryWithinLimit /\ Newcomers

LEMMA InitOInv == Init => OInv
<1> SUFFICES ASSUME Init PROVE OInv
  OBVIOUS
<1>1. IInv
  BY InitInv
<1>2. ItemInOnePlace /\ Newcomers
  BY GeneratedAssumption DEF Init, ItemInOnePlace, Newcomers
<1>3. Described
  BY DEF Init, Described
<1>4. InventoryWithinLimit
  <2>1. \A q \in Players : inventory[q] = {} /\ stats[q].inventoryMaxSize \in Nat
    BY <1>1 DEF Init, IInv, TypeOK, Stats
  <2>2. \A q \in Players : Cardinality(inventory[q]) = 0
    BY <2>1, FS_EmptySet
  <2>3. \A n \in Nat : 0 <= n
    OBVIOUS
  <2> QED BY <2>1, <2>2, <2>3 DEF InventoryWithinLimit
<1> QED BY <1>1, <1>2, <1>3, <1>4 DEF OInv

LEMMA PlayersStay == [Next]_vars => players \subseteq players'
<1> SUFFICES ASSUME [Next]_vars PROVE players \subseteq players'
  OBVIOUS
<1>1. ASSUME NEW p \in Players, SessionStep(p) PROVE players \subseteq players'
  BY <1>1 DEF SessionStep, SpawnPlayer, Rejoin, Disconnect
<1>2. ASSUME NEW p \in Players, Command(p) PROVE players' = players
  BY <1>2 DEF Command, Move, ChangeFloor, PickupItem, DropItem, Craft, Equip, RepairExit, UseItem,
              Battle, Attack, Skip, playerVars
<1>3. CASE Samosbor \/ UNCHANGED vars
  BY <1>3 DEF Samosbor, StartSamosbor, CheckPlayersSamosbor, StopSamosbor, playerVars, vars
<1> QED BY <1>1, <1>2, <1>3 DEF Next

\* x is in one place of those rooms and inventories
Sole(x, its, inv) ==
  /\ \A r, s \in Rooms : x \in its[r] /\ x \in its[s] => r = s
  /\ \A p, q \in Players : x \in inv[p] /\ x \in inv[q] => p = q
  /\ \A r \in Rooms, p \in Players : ~(x \in its[r] /\ x \in inv[p])

LEMMA PlaceOfEach ==
  /\ ItemInOnePlace <=> \A x : Sole(x, items, inventory)
  /\ ItemInOnePlace' <=> \A x : Sole(x, items', inventory')
<1>1. \A its, inv :
        (\A x : Sole(x, its, inv)) <=>
           /\ \A r, s \in Rooms : r # s => its[r] \cap its[s] = {}
           /\ \A p, q \in Players : p # q => inv[p] \cap inv[q] = {}
           /\ \A r \in Rooms, p \in Players : its[r] \cap inv[p] = {}
  <2> TAKE its, inv
  <2>1. (\A x : \A r, s \in Rooms : x \in its[r] /\ x \in its[s] => r = s)
          <=> \A r, s \in Rooms : r # s => its[r] \cap its[s] = {}
    OBVIOUS
  <2>2. (\A x : \A p, q \in Players : x \in inv[p] /\ x \in inv[q] => p = q)
          <=> \A p, q \in Players : p # q => inv[p] \cap inv[q] = {}
    OBVIOUS
  <2>3. (\A x : \A r \in Rooms, p \in Players : ~(x \in its[r] /\ x \in inv[p]))
          <=> \A r \in Rooms, p \in Players : its[r] \cap inv[p] = {}
    OBVIOUS
  <2> QED BY <2>1, <2>2, <2>3, Zenon DEF Sole
<1> QED BY <1>1, Zenon DEF ItemInOnePlace

\* No step puts an object in two places.
LEMMA PlaceKept ==
  ASSUME IInv, ItemInOnePlace, Moved
  PROVE  ItemInOnePlace'
<1> SUFFICES ASSUME NEW x PROVE Sole(x, items', inventory')
  BY PlaceOfEach
<1>1. Sole(x, items, inventory)
  BY PlaceOfEach
<1>2. /\ items \in [Rooms -> SUBSET Items] /\ inventory \in [Players -> SUBSET Items]
      /\ \A q \in players : q \in Players /\ location[q] \in Rooms
      /\ inSession \subseteq players
  BY DEF IInv, TypeOK
<1>3. CASE Lost
  BY <1>1, <1>3 DEF Lost, itemVars, Sole
<1>4. ASSUME NEW p \in Players, NEW i \in Items, PickupItem(p, i)
      PROVE  Sole(x, items', inventory')
  <2>1. /\ location[p] \in Rooms /\ i \in items[location[p]]
        /\ \A r \in Rooms : items'[r] = IF r = location[p] THEN items[r] \ {i} ELSE items[r]
        /\ \A q \in Players : inventory'[q] = IF q = p THEN inventory[q] \cup {i} ELSE inventory[q]
    BY <1>2, <1>4 DEF PickupItem, MayCommandInPeace, MayCommand
  <2>2. CASE x = i
    BY <1>1, <2>1, <2>2 DEF Sole
  <2>3. CASE x # i
    <3>1. /\ \A r \in Rooms : x \in items'[r] <=> x \in items[r]
          /\ \A q \in Players : x \in inventory'[q] <=> x \in inventory[q]
      BY <2>1, <2>3
    <3> QED BY <1>1, <3>1 DEF Sole
  <2> QED BY <2>2, <2>3
<1>5. ASSUME NEW p \in Players, NEW i \in Items, DropItem(p, i)
      PROVE  Sole(x, items', inventory')
  <2>1. /\ location[p] \in Rooms /\ i \in inventory[p]
        /\ \A r \in Rooms : items'[r] = IF r = location[p] THEN items[r] \cup {i} ELSE items[r]
        /\ \A q \in Players : inventory'[q] = IF q = p THEN inventory[q] \ {i} ELSE inventory[q]
    BY <1>2, <1>5 DEF DropItem, Without, MayCommandInPeace, MayCommand
  <2>2. CASE x = i
    BY <1>1, <2>1, <2>2 DEF Sole
  <2>3. CASE x # i
    <3>1. /\ \A r \in Rooms : x \in items'[r] <=> x \in items[r]
          /\ \A q \in Players : x \in inventory'[q] <=> x \in inventory[q]
      BY <2>1, <2>3
    <3> QED BY <1>1, <3>1 DEF Sole
  <2> QED BY <2>2, <2>3
<1>6. ASSUME NEW p \in Players, NEW i \in Items, Gained(p, i)
      PROVE  Sole(x, items', inventory')
  <2>1. /\ items' = items
        /\ \A r \in Rooms : i \notin items[r]
        /\ \A q \in Players : i \notin inventory[q]
        /\ \A q \in Players \ {p} : inventory'[q] = inventory[q]
        /\ inventory'[p] \subseteq inventory[p] \cup {i}
    BY <1>6 DEF Gained, Spare, itemVars
  <2>2. CASE x = i
    BY <1>1, <2>1, <2>2 DEF Sole
  <2>3. CASE x # i
    <3>1. /\ \A r \in Rooms : x \in items'[r] <=> x \in items[r]
          /\ \A q \in Players : x \in inventory'[q] => x \in inventory[q]
      BY <2>1, <2>3
    <3> QED BY <1>1, <3>1 DEF Sole
  <2> QED BY <2>2, <2>3
<1>7. ASSUME NEW D \in SUBSET players, NEW inv \in [Players -> SUBSET Items], Spilled(D, inv)
      PROVE  Sole(x, items', inventory')
  <2>1. \A q \in Players : x \in inventory'[q] => x \in inventory[q] /\ q \notin D
    BY <1>7 DEF Spilled
  <2>2. \A r \in Rooms : x \in items'[r] =>
          x \in items[r] \/ \E q \in D : location[q] = r /\ x \in inventory[q]
    BY <1>2, <1>7 DEF Spilled, LostIn
  <2> QED BY <1>1, <1>2, <2>1, <2>2 DEF Sole
<1> QED BY <1>3, <1>4, <1>5, <1>6, <1>7 DEF Moved

\* The texts of the items follow the items.
LEMMA TextsKept ==
  ASSUME IInv, ItemInOnePlace, Moved, NEW r \in Rooms,
         \A t \in Rooms : itemDescription[t] = Count(items[t])
  PROVE  itemDescription'[r] = Count(items'[r])
<1>1. /\ items \in [Rooms -> SUBSET Items] /\ inventory \in [Players -> SUBSET Items]
      /\ itemDescription \in [Rooms -> Bags]
      /\ \A q \in players : q \in Players /\ location[q] \in Rooms
      /\ inSession \subseteq players
  BY DEF IInv, TypeOK
<1>2. CASE UNCHANGED itemVars
  BY <1>2 DEF itemVars
<1>3. ASSUME NEW p \in Players, NEW i \in Items, PickupItem(p, i)
      PROVE  itemDescription'[r] = Count(items'[r])
  <2>1. /\ i \in items[location[p]] /\ location[p] \in Rooms
        /\ items' = [items EXCEPT ![location[p]] = @ \ {i}]
        /\ itemDescription' = [itemDescription EXCEPT ![location[p]][kind[i]] = @ - 1]
    BY <1>1, <1>3 DEF PickupItem, TextErased, MayCommandInPeace, MayCommand
  <2>2. CASE r = location[p]
    <3>1. items'[r] = items[r] \ {i} /\ items[r] \in SUBSET Items /\ i \in items[r]
      BY <1>1, <2>1, <2>2
    <3>2. itemDescription'[r] = [Count(items[r]) EXCEPT ![kind[i]] = @ - 1]
      BY <1>1, <2>1, <2>2
    <3> QED BY <3>1, <3>2, CountRemove
  <2>3. CASE r # location[p]
    BY <1>1, <2>1, <2>3
  <2> QED BY <2>2, <2>3
<1>4. ASSUME NEW p \in Players, NEW i \in Items, DropItem(p, i)
      PROVE  itemDescription'[r] = Count(items'[r])
  <2>1. /\ i \in inventory[p] /\ location[p] \in Rooms
        /\ items' = [items EXCEPT ![location[p]] = @ \cup {i}]
        /\ itemDescription' = [itemDescription EXCEPT ![location[p]][kind[i]] = @ + 1]
    BY <1>1, <1>4 DEF DropItem, MayCommandInPeace, MayCommand
  <2>2. CASE r = location[p]
    <3>1. items'[r] = items[r] \cup {i} /\ items[r] \in SUBSET Items
      BY <1>1, <2>1, <2>2
    <3>2. i \in Items \ items[r]
      BY <2>1 DEF ItemInOnePlace
    <3>3. itemDescription'[r] = [Count(items[r]) EXCEPT ![kind[i]] = @ + 1]
      BY <1>1, <2>1, <2>2
    <3> QED BY <3>1, <3>2, <3>3, CountAdd
  <2>3. CASE r # location[p]
    BY <1>1, <2>1, <2>3
  <2> QED BY <2>2, <2>3
<1>5. ASSUME NEW D \in SUBSET players, NEW inv \in [Players -> SUBSET Items], Spilled(D, inv)
      PROVE  itemDescription'[r] = Count(items'[r])
  <2>1. /\ items'[r] = items[r] \cup LostIn(r, D, inv)
        /\ itemDescription'[r] = [k \in Kinds |-> Count(items[r])[k] + Count(LostIn(r, D, inv))[k]]
    BY <1>5 DEF Spilled
  <2>2. items[r] \in SUBSET Items /\ LostIn(r, D, inv) \in SUBSET Items
    BY <1>1 DEF LostIn
  <2>3. \A x \in LostIn(r, D, inv) : \E q \in Players : x \in inventory[q]
    BY <1>1, <1>5 DEF Spilled, LostIn
  <2>4. items[r] \cap LostIn(r, D, inv) = {}
    BY <2>3 DEF ItemInOnePlace
  <2>5. Count(items[r] \cup LostIn(r, D, inv)) =
          [k \in Kinds |-> Count(items[r])[k] + Count(LostIn(r, D, inv))[k]]
    BY <2>2, <2>4, CountUnion
  <2> QED BY <2>1, <2>5
<1> QED BY <1>2, <1>3, <1>4, <1>5 DEF Moved, Lost, Gained

\* The texts of the enemies follow the enemies.
LEMMA EnemyTextsKept ==
  ASSUME IInv, ObjectStep, NEW r \in Rooms, NEW k \in EnemyKinds,
         \A t \in Rooms, h \in EnemyKinds :
           enemyDescription[t][h] = Cardinality({e \in enemies[t] : enemyKind[e] = h})
  PROVE  enemyDescription'[r][k] = Cardinality({e \in enemies'[r] : enemyKind[e] = k})
<1>1. CASE UNCHANGED enemyVars
  BY <1>1 DEF enemyVars
<1>2. ASSUME NEW p \in fighting, Beaten(p)
      PROVE  enemyDescription'[r][k] = Cardinality({e \in enemies'[r] : enemyKind[e] = k})
  <2> DEFINE o == opponent[p]
             here == location[p]
             OfThat(S) == {e \in S : enemyKind[e] = k}
  <2>1. /\ here \in Rooms /\ o \in Enemies /\ o \in enemies[here] /\ enemyKind[o] \in EnemyKinds
        /\ enemies \in [Rooms -> SUBSET Enemies]
        /\ enemyDescription \in [Rooms -> [EnemyKinds -> Nat]]
    BY ConfigAssumption DEF IInv, TypeOK, Pairing
  <2>2. /\ enemies'[r] = IF r = here THEN enemies[r] \ {o} ELSE enemies[r]
        /\ enemyDescription' = [enemyDescription EXCEPT ![here][enemyKind[o]] =
                                  IF @ > 0 THEN @ - 1 ELSE 0]
    BY <1>2, <2>1 DEF Beaten
  <2> HIDE DEF o, here
  <2>3. CASE r = here /\ k = enemyKind[o]
    <3>1. OfThat(enemies'[r]) = OfThat(enemies[r]) \ {o} /\ o \in OfThat(enemies[r])
      BY <2>1, <2>2, <2>3
    <3>2. IsFiniteSet(OfThat(enemies[r]))
      BY <2>1, GeneratedAssumption, FS_Subset
    <3>3. /\ Cardinality(OfThat(enemies[r]) \ {o}) = Cardinality(OfThat(enemies[r])) - 1
          /\ Cardinality(OfThat(enemies[r])) \in Nat /\ Cardinality(OfThat(enemies[r])) # 0
      <4>1. Cardinality(OfThat(enemies[r]) \ {o}) = Cardinality(OfThat(enemies[r])) - 1
        BY <3>1, <3>2, FS_RemoveElement
      <4>2. Cardinality(OfThat(enemies[r])) \in Nat
        BY <3>2, FS_CardinalityType
      <4>3. Cardinality(OfThat(enemies[r])) # 0
        BY <3>1, <3>2, FS_EmptySet
      <4> QED BY <4>1, <4>2, <4>3
    <3>4. enemyDescription'[r][k] = IF enemyDescription[r][k] > 0 THEN enemyDescription[r][k] - 1 ELSE 0
      BY <2>1, <2>2, <2>3
    <3>5. enemyDescription[r][k] = Cardinality(OfThat(enemies[r]))
      OBVIOUS
    <3> HIDE DEF OfThat
    <3>6. enemyDescription'[r][k] = Cardinality(OfThat(enemies'[r]))
      BY <3>1, <3>3, <3>4, <3>5
    <3> QED BY <3>6 DEF OfThat
  <2>4. CASE ~(r = here /\ k = enemyKind[o])
    <3>1. enemyDescription'[r][k] = enemyDescription[r][k]
      BY <2>1, <2>2, <2>4
    <3>2. OfThat(enemies'[r]) = OfThat(enemies[r])
      BY <2>2, <2>4
    <3> QED BY <3>1, <3>2
  <2> QED BY <2>3, <2>4
<1> QED BY <1>1, <1>2 DEF ObjectStep

\* No inventory grows beyond its size.
LEMMA LimitKept ==
  ASSUME OInv, IInv', ObjectStep, NEW q \in Players
  PROVE  Cardinality(inventory'[q]) <= stats'[q].inventoryMaxSize
<1>1. /\ inventory[q] \in SUBSET Items /\ inventory'[q] \in SUBSET Items
      /\ stats[q].inventoryMaxSize \in Nat /\ stats'[q].inventoryMaxSize \in Nat
      /\ Cardinality(inventory[q]) <= stats[q].inventoryMaxSize
      /\ inventory \in [Players -> SUBSET Items]
      /\ inSession \subseteq players
  BY DEF OInv, IInv, TypeOK, Stats, InventoryWithinLimit
<1>2. /\ IsFiniteSet(inventory[q]) /\ Cardinality(inventory[q]) \in Nat
      /\ IsFiniteSet(inventory'[q]) /\ Cardinality(inventory'[q]) \in Nat
  BY <1>1, ItemsFinite
<1>3. ASSUME inventory'[q] \subseteq inventory[q]
      PROVE  Cardinality(inventory'[q]) <= stats'[q].inventoryMaxSize
  <2>1. CASE q \in players
    <3>1. Cardinality(inventory'[q]) <= Cardinality(inventory[q])
      BY <1>2, <1>3, FS_Subset
    <3>2. stats'[q].inventoryMaxSize >= stats[q].inventoryMaxSize
      BY <2>1 DEF ObjectStep, SizesKept
    <3> QED BY <1>1, <1>2, <3>1, <3>2
  <2>2. CASE q \notin players
    <3>1. inventory'[q] = {}
      BY <1>3, <2>2 DEF OInv, Newcomers
    <3>2. Cardinality(inventory'[q]) = 0
      BY <3>1, FS_EmptySet
    <3> QED BY <1>1, <3>2
  <2> QED BY <2>1, <2>2
<1>4. ASSUME NEW p \in Players, NEW i \in Items, PickupItem(p, i)
      PROVE  Cardinality(inventory'[q]) <= stats'[q].inventoryMaxSize
  <2>1. CASE p # q
    <3>1. inventory'[q] = inventory[q]
      BY <1>1, <1>4, <2>1 DEF PickupItem
    <3> QED BY <1>3, <3>1
  <2>2. CASE p = q
    <3>1. /\ inventory'[q] = inventory[q] \cup {i} /\ stats' = stats
          /\ Cardinality(inventory[q]) < stats[q].inventoryMaxSize
      BY <1>1, <1>4, <2>2 DEF PickupItem, HasRoomFor
    <3>2. Cardinality(inventory[q] \cup {i}) =
            IF i \in inventory[q] THEN Cardinality(inventory[q]) ELSE Cardinality(inventory[q]) + 1
      BY <1>2, FS_AddElement
    <3>3. Cardinality(inventory'[q]) <= Cardinality(inventory[q]) + 1
      BY <1>2, <3>1, <3>2
    <3> QED BY <1>1, <1>2, <3>1, <3>3
  <2> QED BY <2>1, <2>2
<1>5. ASSUME NEW p \in Players, NEW i \in Items, Gained(p, i)
      PROVE  Cardinality(inventory'[q]) <= stats'[q].inventoryMaxSize
  BY <1>3, <1>5 DEF Gained
<1>6. ASSUME NEW p \in Players, NEW i \in Items, DropItem(p, i)
      PROVE  inventory'[q] \subseteq inventory[q]
  BY <1>1, <1>6 DEF DropItem, Without
<1>7. CASE Lost
  BY <1>3, <1>7 DEF Lost
<1>8. ASSUME NEW D \in SUBSET players, NEW inv \in [Players -> SUBSET Items], Spilled(D, inv)
      PROVE  inventory'[q] \subseteq inventory[q]
  BY <1>8 DEF Spilled
<1> QED BY <1>3, <1>4, <1>5, <1>6, <1>7, <1>8 DEF ObjectStep, Moved

LEMMA NewcomersKept ==
  ASSUME IInv, Newcomers, Moved, players \subseteq players', NEW q \in Players \ players'
  PROVE  inventory'[q] = {}
<1>1. /\ q \notin players /\ inventory[q] = {} /\ inSession \subseteq players
      /\ inventory \in [Players -> SUBSET Items]
  BY DEF Newcomers, IInv, TypeOK
<1>2. ASSUME NEW p \in Players, NEW i \in Items, PickupItem(p, i) \/ DropItem(p, i) \/ Gained(p, i)
      PROVE  inventory'[q] = {}
  <2>1. p \in players
    BY <1>1, <1>2 DEF PickupItem, DropItem, Gained, MayCommandInPeace, MayCommand
  <2> QED BY <1>1, <1>2, <2>1 DEF PickupItem, DropItem, Gained
<1>3. CASE Lost
  BY <1>1, <1>3 DEF Lost
<1>4. ASSUME NEW D \in SUBSET players, NEW inv \in [Players -> SUBSET Items], Spilled(D, inv)
      PROVE  inventory'[q] = {}
  BY <1>1, <1>4 DEF Spilled
<1> QED BY <1>2, <1>3, <1>4 DEF Moved

LEMMA NextOInv == OInv /\ [Next]_vars => OInv'
<1> SUFFICES ASSUME OInv, [Next]_vars PROVE OInv'
  OBVIOUS
<1>1. IInv /\ IInv' /\ ObjectStep /\ Moved /\ players \subseteq players'
  BY NextInv, NextMovesObjects, PlayersStay DEF OInv, ObjectStep
<1>2. ItemInOnePlace'
  BY <1>1, PlaceKept DEF OInv
<1>3. Described'
  <2>1. \A r \in Rooms : itemDescription'[r] = Count(items'[r])
    BY <1>1, TextsKept DEF OInv, Described
  <2>2. \A r \in Rooms, k \in EnemyKinds :
          enemyDescription'[r][k] = Cardinality({e \in enemies'[r] : enemyKind[e] = k})
    BY <1>1, EnemyTextsKept DEF OInv, Described
  <2>3. \A r \in Rooms : Count(items'[r]) = Count(items[r])'
    BY DEF Count, OfKind
  <2> QED BY <2>1, <2>2, <2>3 DEF Described
<1>4. InventoryWithinLimit'
  BY <1>1, LimitKept DEF InventoryWithinLimit
<1>5. Newcomers'
  BY <1>1, NewcomersKept DEF OInv, Newcomers
<1> QED BY <1>1, <1>2, <1>3, <1>4, <1>5 DEF OInv


-----------------------------------------------------------------------------
(* The theorems *)

\* Whatever is picked up, dropped, crafted, won or left behind in death, no object
\* is in two places: every clone() into a new place goes with the erase() from the
\* old one.
THEOREM ObjectsAreInOnePlace == Spec => []ItemInOnePlace
<1>1. OInv => ItemInOnePlace
  BY DEF OInv
<1> QED BY InitOInv, NextOInv, <1>1, PTL DEF Spec

\* The texts of a room, which PickupItem goes by, are those of what is in it.
THEOREM RoomsAreDescribed == Spec => []Described
<1>1. OInv => Described
  BY DEF OInv
<1> QED BY InitOInv, NextOInv, <1>1, PTL DEF Spec

\* No inventory overflows, although Craft does not test its size: what it makes
\* takes the place of at least one piece of material.
THEOREM NobodyIsOverloaded == Spec => []InventoryWithinLimit
<1>1. OInv => InventoryWithinLimit
  BY DEF OInv
<1> QED BY InitOInv, NextOInv, <1>1, PTL DEF Spec

\* While an enemy is in a room, free or busy, nothing leaves it: PickupItem alone
\* takes objects out of rooms.
THEOREM LootIsGuarded == Spec => LootGuarded
<1> DEFINE Watched == \A r \in Rooms : items[r] \ items'[r] # {} => enemies[r] = {}
<1>1. OInv /\ [Next]_vars => Watched
  <2> SUFFICES ASSUME OInv, [Next]_vars, NEW r \in Rooms, items[r] \ items'[r] # {}
               PROVE  enemies[r] = {}
    OBVIOUS
  <2>1. Moved /\ items \in [Rooms -> SUBSET Items] /\ \A p \in players : location[p] \in Rooms
    BY NextMovesObjects DEF OInv, ObjectStep, IInv, TypeOK
  <2>2. ASSUME UNCHANGED itemVars PROVE FALSE
    BY <2>2 DEF itemVars
  <2>3. ASSUME NEW p \in Players, NEW i \in Items, PickupItem(p, i) PROVE enemies[r] = {}
    <3>1. items' = [items EXCEPT ![location[p]] = @ \ {i}] /\ enemies[location[p]] = {}
      BY <2>3 DEF PickupItem, Guarded
    <3> QED BY <2>1, <3>1
  <2>4. ASSUME NEW p \in Players, NEW i \in Items, DropItem(p, i) PROVE FALSE
    <3>1. items' = [items EXCEPT ![location[p]] = @ \cup {i}]
      BY <2>4 DEF DropItem
    <3> QED BY <2>1, <3>1
  <2>5. ASSUME NEW D \in SUBSET players, NEW inv \in [Players -> SUBSET Items], Spilled(D, inv)
        PROVE  FALSE
    BY <2>5 DEF Spilled
  <2> QED BY <2>1, <2>2, <2>3, <2>4, <2>5 DEF Moved, Lost, Gained
<1>2. OInv /\ [Next]_vars => [Watched]_vars
  BY <1>1
<1> QED BY InitOInv, NextOInv, <1>2, PTL DEF Spec, LootGuarded

-----------------------------------------------------------------------------
(* The way out of a battle *)

\* Who dies is out of its battle and has nothing left; it is moved only when no
\* samosbor is going on.
Left(p) == p \notin fighting' /\ inventory'[p] = {} /\ ~samosborGoing

LEMMA DieLeaves ==
  ASSUME IInv, NEW D, NEW stat, NEW inv, NEW fgt, NEW opp, NEW bw,
         Die(D, stat, inv, fgt, opp, bw),
         NEW p \in Players, location'[p] # location[p]
  PROVE  Left(p)
<1>1. ~samosborGoing
  BY DEF Die
<1>2. p \in D
  BY <1>1 DEF Die
<1> QED BY <1>1, <1>2 DEF Die, Left

LEMMA EnemyTurnLeaves ==
  ASSUME IInv, NEW q, NEW s, NEW bag, EnemyTurn(q, s, bag),
         NEW p \in Players, location'[p] # location[p]
  PROVE  Left(p)
<1> DEFINE hit == Hit(s, opponent[q])
           stat == [stats EXCEPT ![q] = hit]
           inv == [inventory EXCEPT ![q] = bag]
<1>1. Die({q}, stat, inv, fighting, opponent, battleWith)
  BY DEF EnemyTurn, CheckPlayerDeath
<1> HIDE DEF stat, inv
<1> QED BY <1>1, DieLeaves

\* The blow with which a battle opens may kill as well.
LEMMA BattleLeaves ==
  ASSUME IInv, NEW q \in Players, NEW e \in Enemies, Battle(q, e),
         NEW p \in Players, location'[p] # location[p]
  PROVE  Left(p)
<1> DEFINE stat == [stats EXCEPT ![q] = Hit(stats[q], e)]
           inv == [inventory EXCEPT ![q] = inventory[q]]
           fgt == fighting \cup {q}
           opp == [opponent EXCEPT ![q] = e]
           bw  == [battleWith EXCEPT ![e] = q]
<1>1. Die({q}, stat, inv, fgt, opp, bw)
  BY DEF Battle, CheckPlayerDeath, bodyVars
<1> HIDE DEF stat, inv, fgt, opp, bw
<1> QED BY <1>1, DieLeaves

\* Whatever is done by whomever, a player in battle is moved in this way only.
LEMMA BattleHolds ==
  ASSUME IInv, [Next]_vars, NEW p \in fighting, location'[p] # location[p]
  PROVE  Left(p)
<1>1. /\ p \in Players /\ p \in players /\ p \notin dead
      /\ location \in [Players -> Rooms \cup {NoRoom}]
  BY DEF IInv, TypeOK, DeadLieStill
<1>2. ASSUME NEW q \in Players, SessionStep(q) PROVE FALSE
  BY <1>1, <1>2 DEF SessionStep, SpawnPlayer, Rejoin, Disconnect, bodyVars
<1>3. ASSUME NEW q \in Players, Command(q) PROVE Left(p)
  <2>1. ASSUME NEW r \in Rooms, Move(q, r) PROVE FALSE
    BY <1>1, <2>1 DEF Move, MayCommandInPeace
  <2>2. ASSUME NEW dir \in {1, -1}, ChangeFloor(q, dir) PROVE FALSE
    BY <1>1, <2>2 DEF ChangeFloor, MayCommandInPeace
  <2>3. ASSUME NEW i \in Items, PickupItem(q, i) \/ DropItem(q, i) \/ Craft(q, i) \/ Equip(q, i)
        PROVE  FALSE
    BY <2>3 DEF PickupItem, DropItem, Craft, Equip
  <2>4. CASE RepairExit(q)
    BY <2>4 DEF RepairExit
  <2>5. CASE UseItem(q)
    BY <1>1, <2>5, EnemyTurnLeaves DEF UseItem
  <2>6. ASSUME NEW e \in Enemies, Battle(q, e) PROVE Left(p)
    BY <1>1, <2>6, BattleLeaves
  <2>7. CASE Attack(q)
    <3>1. CASE Win(q, opponent[q])
      BY <3>1 DEF Win
    <3>2. CASE EnemyTurn(q, stats[q], inventory[q])
      BY <1>1, <3>2, EnemyTurnLeaves
    <3> QED BY <2>7, <3>1, <3>2 DEF Attack
  <2>8. CASE Skip(q)
    BY <1>1, <2>8, EnemyTurnLeaves DEF Skip
  <2> QED BY <1>3, <2>1, <2>2, <2>3, <2>4, <2>5, <2>6, <2>7, <2>8 DEF Command
<1>4. CASE StartSamosbor
  BY <1>4 DEF StartSamosbor, bodyVars
<1>5. CASE CheckPlayersSamosbor
  BY <1>1, <1>5, DieLeaves DEF CheckPlayersSamosbor
<1>6. CASE StopSamosbor
  BY <1>1, <1>6 DEF StopSamosbor, ToRespawn
<1>7. CASE UNCHANGED vars
  BY <1>7 DEF vars, bodyVars
<1> QED BY <1>2, <1>3, <1>4, <1>5, <1>6, <1>7 DEF Next, Samosbor

\* No step carries an object from one player to another.
LEMMA NoGifts ==
  ASSUME IInv, ItemInOnePlace, Moved, NEW p \in Players, NEW q \in Players,
         NEW x \in inventory[p], x \in inventory'[q]
  PROVE  p = q
<1>1. /\ \A o \in Players : x \in inventory[o] => o = p
      /\ \A r \in Rooms : x \notin items[r]
      /\ x \notin Spare
      /\ inventory \in [Players -> SUBSET Items]
      /\ inSession \subseteq players /\ \A o \in players : location[o] \in Rooms
  BY DEF ItemInOnePlace, Spare, IInv, TypeOK
<1> SUFFICES x \in inventory[q]
  BY <1>1
<1>2. ASSUME NEW o \in Players, NEW i \in Items, PickupItem(o, i)
      PROVE  x \in inventory[q]
  <2>1. inventory' = [inventory EXCEPT ![o] = @ \cup {i}] /\ x # i
    BY <1>1, <1>2 DEF PickupItem, MayCommandInPeace, MayCommand
  <2> QED BY <1>1, <2>1
<1>3. ASSUME NEW o \in Players, NEW i \in Items, DropItem(o, i)
      PROVE  x \in inventory[q]
  BY <1>1, <1>3 DEF DropItem, Without
<1>4. ASSUME NEW o \in Players, NEW i \in Items, Gained(o, i)
      PROVE  x \in inventory[q]
  BY <1>1, <1>4 DEF Gained
<1>5. ASSUME NEW D \in SUBSET players, NEW inv \in [Players -> SUBSET Items], Spilled(D, inv)
      PROVE  x \in inventory[q]
  BY <1>5 DEF Spilled
<1>6. CASE Lost
  BY <1>6 DEF Lost
<1> QED BY <1>2, <1>3, <1>4, <1>5, <1>6 DEF Moved

\* The only way out of the room of one's battle is death outside a samosbor, and it
\* costs the whole inventory, which is then in a room or used up, in nobody's hands.
THEOREM NobodyEscapes == Spec => NoEscape
<1> DEFINE Held == \A p \in fighting : location'[p] # location[p] =>
       /\ p \notin fighting' /\ inventory'[p] = {} /\ ~samosborGoing
       /\ inventory[p] \subseteq (UNION {items'[r] : r \in Rooms}) \cup Spare'
<1>1. OInv /\ [Next]_vars => Held
  <2> SUFFICES ASSUME OInv, [Next]_vars, NEW p \in fighting, location'[p] # location[p]
               PROVE  /\ p \notin fighting' /\ inventory'[p] = {} /\ ~samosborGoing
                      /\ inventory[p] \subseteq (UNION {items'[r] : r \in Rooms}) \cup Spare'
    OBVIOUS
  <2>1. Left(p) /\ p \in Players /\ inventory[p] \in SUBSET Items
    BY BattleHolds DEF OInv, IInv, TypeOK
  <2>2. Moved /\ IInv /\ ItemInOnePlace
    BY NextMovesObjects DEF OInv, ObjectStep
  <2>3. ASSUME NEW x \in inventory[p]
        PROVE  x \in (UNION {items'[r] : r \in Rooms}) \cup Spare'
    <3>1. \A q \in Players : x \notin inventory'[q]
      BY <2>1, <2>2, NoGifts DEF Left
    <3>2. x \in Items
      BY <2>1
    <3> QED BY <3>1, <3>2 DEF Spare
  <2> QED BY <2>1, <2>3 DEF Left
<1>2. OInv /\ [Next]_vars => [Held]_vars
  BY <1>1
<1> QED BY InitOInv, NextOInv, <1>2, PTL DEF Spec, NoEscape
=============================================================================
