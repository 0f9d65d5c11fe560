------------------------------ MODULE MCFloor ------------------------------
(***************************************************************************)
(* Plain cells hold nothing of their own, the exit may hold a fuse, and    *)
(* its repair takes two fuses.                                              *)
(***************************************************************************)
EXTENDS FloorGeneration, TLC

CONSTANTS cell, lift, fuse

MCUniqueItems == (cell :> {}) @@ (lift :> {fuse})
MCRepairRecipe == lift :> <<fuse, fuse>>
=============================================================================
