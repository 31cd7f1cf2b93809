-------------------------- MODULE MCPlayerResource --------------------------
(***************************************************************************)
(* Model values for PlayerResource.  Type 0 has the larger effort range   *)
(* and no extra stamina; type 1 a lower effort maximum (so a substitution *)
(* from type 0 must lower M_effort) and extra stamina (so a dash can ask  *)
(* for more than the stamina left).  recover_dec does not divide the      *)
(* distance to recover_min, and effort_dec/effort_inc overshoot the type  *)
(* bounds, so every clamp of updateStamina is reached.                    *)
(***************************************************************************)
EXTENDS PlayerResource, TLC

MCEffortMin == (0 :> 6) @@ (1 :> 3)
MCEffortMax == (0 :> 10) @@ (1 :> 7)
MCExtraStamina == (0 :> 0) @@ (1 :> 3)
MCStaminaIncMax == (0 :> 4) @@ (1 :> 8)
\* a backward dash (cost 4), a cheap forward one and one above max_power
MCDashPowers == {-2, 3, 7}
MCMinPower == -5
=============================================================================
