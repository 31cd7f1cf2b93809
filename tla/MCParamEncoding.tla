-------------------------- MODULE MCParamEncoding --------------------------
(***************************************************************************)
(* Model values for ParamEncoding: the configuration may restore earlier  *)
(* defaults named in the comments of playerparam.cpp (7 player types, 3   *)
(* pt_max, player_decay_delta_max 0.2, kickable_margin_delta_min 0.0,     *)
(* extra_stamina_delta_max 100, effort_max_delta_factor -0.002), allow    *)
(* several default types, and fix a random seed.  Den is 10000.          *)
(***************************************************************************)
EXTENDS ParamEncoding

MCConfigSets ==
    {<<"player_types", 7>>, <<"pt_max", 3>>,
     <<"allow_mult_default_type", 1>>, <<"random_seed", 42>>,
     <<"player_decay_delta_max", 2000>>,
     <<"kickable_margin_delta_min", 0>>,
     <<"extra_stamina_delta_max", 1000000>>,
     <<"effort_max_delta_factor", -20>>}
=============================================================================
