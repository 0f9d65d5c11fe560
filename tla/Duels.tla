------------------------------- MODULE Duels -------------------------------
(***************************************************************************)
(* What a battle promises to those who are in it, whatever else happens in *)
(* the house: player and enemy fight each other and nobody else, only that *)
(* player's blows wound that enemy, and the battle ends when one of the    *)
(* two is dead.                                                            *)
(***************************************************************************)
EXTENDS Naturals

CONSTANTS Players, Enemies, FullHealth

VARIABLES
  duels,   \* the pairs that fight
  health   \* of the enemies

Fights(p) == \E e \in Enemies : <<p, e>> \in duels
Fought(e) == \E p \in Players : <<p, e>> \in duels

Init == duels = {} /\ health = FullHealth

Begin(p, e) ==
  /\ ~Fights(p) /\ ~Fought(e) /\ health[e] > 0
  /\ duels' = duels \cup {<<p, e>>}
  /\ UNCHANGED health

\* A blow that beats the enemy ends the duel; one that does not may be
\* answered with death
Blow(p, e) ==
  /\ <<p, e>> \in duels
  /\ \E left \in 0..(health[e] - 1) :
       /\ health' = [health EXCEPT ![e] = left]
       /\ \/ duels' = duels \ {<<p, e>>}
          \/ left > 0 /\ UNCHANGED duels

\* The players of S die: all at once if the samosbor finds them
Die(S) ==
  /\ duels' = {d \in duels : d[1] \notin S}
  /\ UNCHANGED health

Next ==
  \/ \E p \in Players, e \in Enemies : Begin(p, e) \/ Blow(p, e)
  \/ \E S \in SUBSET Players : Die(S)

Spec == Init /\ [][Next]_<<duels, health>>
=============================================================================
