------------------------------ MODULE MCExits ------------------------------
(***************************************************************************)
(* Two floors, each a room and an exit room; on the first floor the exit   *)
(* is the room nobody appears in.  The exit of floor 1 is repaired with a  *)
(* wire, that of floor 2 with a blade, which is crafted from a wire; the   *)
(* two wires lie in the hall, and one place in the inventory has to do.    *)
(* A ghoul keeps the loft; it is beaten with one blow of a blade and       *)
(* kills with one of its own.                                              *)
(***************************************************************************)
EXTENDS GameWorld, TLC

CONSTANTS hall, liftA, loft, liftB, rat, wireA, wireB, blade, wireKind, bladeKind, ratKind

Symmetry == Permutations(Players) \cup Permutations({wireA, wireB})

MCPlace == (hall :> [X |-> 0, Y |-> 1, F |-> 1]) @@ (liftA :> [X |-> 1, Y |-> 1, F |-> 1])
           @@ (loft :> [X |-> 1, Y |-> 0, F |-> 2]) @@ (liftB :> [X |-> 1, Y |-> 1, F |-> 2])
MCLevel1Rooms == <<hall, liftA>>
MCRepairRecipe == (liftA :> (wireKind :> 1 @@ bladeKind :> 0))
                  @@ (liftB :> (wireKind :> 0 @@ bladeKind :> 1))
MCInitialItems == [r \in Rooms |-> IF r = hall THEN {wireA, wireB} ELSE {}]
MCInitialEnemies == [r \in Rooms |-> IF r = loft THEN {rat} ELSE {}]
MCkind == (wireA :> wireKind) @@ (wireB :> wireKind) @@ (blade :> bladeKind)
MCItemConfig == (wireKind :> [type |-> "Component", power |-> 0])
                @@ (bladeKind :> [type |-> "Weapon", power |-> 10])
MCCraftRecipe == (wireKind :> (wireKind :> 0 @@ bladeKind :> 0))
                 @@ (bladeKind :> (wireKind :> 1 @@ bladeKind :> 0))
MCenemyKind == rat :> ratKind
MCEnemyConfig == ratKind :> [health |-> 10, attack |-> 100, exp |-> 100, loot |-> <<wireKind>>]
=============================================================================
