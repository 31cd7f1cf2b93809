------------------------ MODULE MCPlayerOrientation ------------------------
(***************************************************************************)
(* Model values for PlayerOrientation: eight directions (45 degrees      *)
(* each), turns of -1, 0, 1 and 3 steps, a neck range of +-2 steps and    *)
(* neck moments beyond it; a right-side player, whose init direction is   *)
(* 180 degrees.                                                            *)
(***************************************************************************)
EXTENDS PlayerOrientation

MCTurnSteps == {-1, 0, 1, 3}
MCMinNeckMoment == -1
MCMinNeckAngle == -2
MCNeckMoments == {-5, -1, 2, 5}
=============================================================================
