----------------------------- MODULE MCBattles -----------------------------
(***************************************************************************)
(* One floor of a hall, where everybody appears, and a den, the last room  *)
(* of the vector and a shelter.  A ghoul in each, dead after two bare-hand *)
(* blows or one with the knife or with the skill of the second level; it   *)
(* kills in two blows, more against armor.  The first victory is a level.  *)
(* The inventory starts with one place: loot and pick-ups are refused,     *)
(* until a level adds a place.                                             *)
(***************************************************************************)
EXTENDS GameWorld, TLC

CONSTANTS hall, den, ghoulA, ghoulB, knife, medkit, plateA, plateB,
          knifeKind, medkitKind, plateKind, ghoul

Symmetry == Permutations(Players) \cup Permutations(Items \cap {plateA, plateB})

MCPlace == (hall :> [X |-> 0, Y |-> 1, F |-> 1]) @@ (den :> [X |-> 1, Y |-> 1, F |-> 1])
MCLevel1Rooms == <<hall, den>>
MCRepairRecipe == [r \in {} |-> 0]
MCInitialItems == (hall :> {knife} \cap Items) @@ (den :> {medkit} \cap Items)
MCInitialEnemies == (hall :> {ghoulA} \cap Enemies) @@ (den :> {ghoulB} \cap Enemies)
MCkind == [i \in Items |-> CASE i = knife -> knifeKind
                             [] i = medkit -> medkitKind
                             [] i \in {plateA, plateB} -> plateKind]
MCItemConfig == (knifeKind :> [type |-> "Weapon", power |-> 9])
                @@ (medkitKind :> [type |-> "HealingItem", power |-> 60])
                @@ (plateKind :> [type |-> "Armor", power |-> 100])
MCCraftRecipe == [k \in Kinds |-> [j \in Kinds |-> 0]]
MCenemyKind == [e \in Enemies |-> ghoul]
MCEnemyConfig == ghoul :> [health |-> 9, attack |-> 60, exp |-> 100, loot |-> <<plateKind, knifeKind>>]
=============================================================================
