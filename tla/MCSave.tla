------------------------------- MODULE MCSave -------------------------------
(***************************************************************************)
(* Two floors: a hall and a lift, and an attic that is the exit of the     *)
(* second floor.  The wire in the lift repairs the lift; the attic would   *)
(* take two.  Two ghouls, one on each floor or both in the hall: a blow    *)
(* beats them and gives experience, a blow of theirs kills, and their loot *)
(* is a wire, where one has been used up.                                  *)
(***************************************************************************)
EXTENDS SaveLoad, TLC

CONSTANTS hall, lift, attic, ghoulA, ghoulB, wire, wireKind, ghoul,
          below  \* the enemies in the hall; the others are in the attic

Symmetry == Permutations(Players)

MCPlace == (hall :> [X |-> 0, Y |-> 1, F |-> 1]) @@ (lift :> [X |-> 1, Y |-> 1, F |-> 1])
           @@ (attic :> [X |-> 1, Y |-> 1, F |-> 2])
MCLevel1Rooms == <<hall, lift>>
MCRepairRecipe == (lift :> (wireKind :> 1)) @@ (attic :> (wireKind :> 2))
MCInitialItems == (hall :> {}) @@ (lift :> {wire}) @@ (attic :> {})
MCInitialEnemies == (hall :> below) @@ (lift :> {}) @@ (attic :> Enemies \ below)
MCkind == [i \in Items |-> wireKind]
MCItemConfig == wireKind :> [type |-> "Component", power |-> 0]
MCCraftRecipe == wireKind :> (wireKind :> 0)
MCenemyKind == [e \in Enemies |-> ghoul]
MCEnemyConfig == ghoul :> [health |-> 5, attack |-> 100, exp |-> 10, loot |-> <<wireKind>>]
=============================================================================
