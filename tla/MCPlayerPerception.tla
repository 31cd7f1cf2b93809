------------------------- MODULE MCPlayerPerception -------------------------
(***************************************************************************)
(* Model values for PlayerPerception: two left players (so a player can   *)
(* name its own team and number through OUR, LEFT_SIDE or the team name)  *)
(* and one right player; defangle = 90 degrees at 1/6 precision is 6.     *)
(***************************************************************************)
EXTENDS PlayerPerception, TLC

CONSTANTS l1, l2, r1

MCPlayers == {l1, l2, r1}
MCSide == (l1 :> "left") @@ (l2 :> "left") @@ (r1 :> "right")
MCUnum == (l1 :> 1) @@ (l2 :> 2) @@ (r1 :> 1)
MCTeamNames == ("left" :> "HELIOS") @@ ("right" :> "CYRUS")
=============================================================================
