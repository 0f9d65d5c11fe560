--------------------------- MODULE SamosborCycle ---------------------------
(***************************************************************************)
(* The samosbor as the players are told of it (the SERVER messages of      *)
(* src/Server/Server.cpp: SamosborWait, SamosborStarted, SamosborEnded):   *)
(* it is announced, it starts, it ends, again and again, until the server  *)
(* is stopped for good.                                                    *)
(***************************************************************************)
VARIABLE phase

Init == phase = "calm"

Announce == phase = "calm" /\ phase' = "announced"
Begin == phase = "announced" /\ phase' = "going"
End == phase = "going" /\ phase' = "calm"
Stop == phase # "over" /\ phase' = "over"

Next == Announce \/ Begin \/ End \/ Stop

Spec == Init /\ [][Next]_phase
=============================================================================
