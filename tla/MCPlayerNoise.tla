--------------------------- MODULE MCPlayerNoise ---------------------------
(***************************************************************************)
(* Model values for PlayerNoise: team actuator noise on, with a kick_rand *)
(* factor of 2 and a player_rand factor of 3; two types with different    *)
(* kick_rand; two connections of the slot.                                 *)
(***************************************************************************)
EXTENDS PlayerNoise, TLC

MCKickRand == (0 :> 3) @@ (1 :> 5)
=============================================================================
