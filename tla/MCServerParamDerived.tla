----------------------- MODULE MCServerParamDerived -----------------------
(***************************************************************************)
(* Model values for ServerParamDerived, in thousandths of a metre: the    *)
(* defaults player_size 0.3, ball_size 0.085, kickable_margin 0.7 and     *)
(* control_radius 2.0, each of which any length setter may also be given; *)
(* half times of 300 s (the default), 0 and 1 s.  A slowed-down step of   *)
(* 150 / 2 = 75 msec does not divide 1000, so the seconds-to-cycles       *)
(* conversion is not exact.                                                *)
(***************************************************************************)
EXTENDS ServerParamDerived, TLC

MCLengths == {300, 85, 700, 2000}
MCDefault ==
    [f \in {"player_size", "ball_size", "kickable_margin", "control_radius",
            "half_time", "extra_half_time"} |->
        CASE f = "player_size" -> 300
          [] f = "ball_size" -> 85
          [] f = "kickable_margin" -> 700
          [] f = "control_radius" -> 2000
          [] f = "half_time" -> 300
          [] f = "extra_half_time" -> 100]
=============================================================================
