------------------------- MODULE ServerParamDerived -------------------------
(***************************************************************************)
(* The server parameters of src/src/serverparam.h that are kept derived   *)
(* from others by their setters, which the configuration builder calls in *)
(* whatever order the command line and the configuration file name them:  *)
(*                                                                         *)
(*   kickable_area        = kickable_margin + ball_size + player_size     *)
(*   control_radius_width = control_radius - player_size                  *)
(*                                                                         *)
(* maintained incrementally (subtract the old part, assign, add the new   *)
(* one) by setCTLRadius, setKickMargin, setBallSize and setPlayerSize;    *)
(* and the half times, which setHalfTime and setExtraHalfTime store both  *)
(* as given (seconds) and converted to cycles with getHalfTimeScaler.     *)
(*                                                                         *)
(* Lengths are whole thousandths of a metre, so the sums are exact.       *)
(* simulator_step and slow_down_factor are fixed while these setters run  *)
(* (their own setters are in serverparam.cpp, outside the sources).       *)
(***************************************************************************)
EXTENDS Integers

CONSTANTS
    Lengths,        \* the values a length parameter may be given
    Default,        \* [{"player_size", ...} -> Lengths]: setDefaults' values
    HalfTimes,      \* the half times (seconds) the configuration may give
    SimStep,        \* M_simulator_step (msec)
    SlowDown        \* M_slow_down_factor

\* getRawSimStep(): the cycle length the conversion uses, integer msec.
RawSimStep == SimStep \div SlowDown

ASSUME RawSimStep > 0

VARIABLES
    player_size, ball_size, kickable_margin, control_radius,
    kickable_area,          \* M_kickable_area
    control_radius_width,   \* M_control_radius_width
    raw_half_time, half_time,
    raw_extra_half_time, extra_half_time

lengths == <<player_size, ball_size, kickable_margin, control_radius,
             kickable_area, control_radius_width>>
times == <<raw_half_time, half_time, raw_extra_half_time, extra_half_time>>
vars == <<lengths, times>>

(***************************************************************************)
(* The incremental setters.                                                *)
(***************************************************************************)
setCTLRadius(v) ==
    /\ control_radius' = v
    /\ control_radius_width' = control_radius_width - control_radius + v
    /\ UNCHANGED <<player_size, ball_size, kickable_margin, kickable_area, times>>

setKickMargin(v) ==
    /\ kickable_margin' = v
    /\ kickable_area' = kickable_area - kickable_margin + v
    /\ UNCHANGED <<player_size, ball_size, control_radius, control_radius_width,
                   times>>

setBallSize(v) ==
    /\ ball_size' = v
    /\ kickable_area' = kickable_area - ball_size + v
    /\ UNCHANGED <<player_size, kickable_margin, control_radius,
                   control_radius_width, times>>

\* setPlayerSize with the width's two updates left out.
setPlayerSizeAreaOnly(v) ==
    /\ player_size' = v
    /\ kickable_area' = kickable_area - player_size + v
    /\ UNCHANGED <<ball_size, kickable_margin, control_radius,
                   control_radius_width, times>>

\* The player size enters the area with a plus and the width with a minus.
setPlayerSize(v) ==
    /\ player_size' = v
    /\ kickable_area' = kickable_area - player_size + v
    /\ control_radius_width' = control_radius_width + player_size - v
    /\ UNCHANGED <<ball_size, kickable_margin, control_radius, times>>

(***************************************************************************)
(* The half times.                                                         *)
(***************************************************************************)
\* The scaler computed in integer arithmetic, 1000 / step truncated: the
\* integer math the comments on setHalfTime warn about (bug # 800540).
ToCyclesIntegerScaler(sec) == sec * (1000 \div RawSimStep)

\* static_cast<int>(sec * getHalfTimeScaler() + 0.5) with the scaler
\* 1000.0 / getRawSimStep() as a double: sec * 1000 / step rounded half up
\* (sec >= 0).  The EPS branch of getHalfTimeScaler is never taken: a
\* finite 1000.0 / step is never 0.
ToCycles(sec) == (2 * sec * 1000 + RawSimStep) \div (2 * RawSimStep)

setHalfTime(v) ==
    /\ raw_half_time' = v
    /\ half_time' = ToCycles(v)
    /\ UNCHANGED <<lengths, raw_extra_half_time, extra_half_time>>

setExtraHalfTime(v) ==
    /\ raw_extra_half_time' = v
    /\ extra_half_time' = ToCycles(v)
    /\ UNCHANGED <<lengths, raw_half_time, half_time>>

\* getRawHalfTime / getRawExtraHalfTime: the seconds as configured, kept
\* rather than converted back from cycles.
getRawHalfTime == raw_half_time
getRawExtraHalfTime == raw_extra_half_time

(***************************************************************************)
(* Specification.  setDefaults is in serverparam.cpp; it leaves the       *)
(* derived lengths equal to their defining sums (the state every setter   *)
(* call starts from) and the half times set through the same conversion. *)
(***************************************************************************)
Init ==
    /\ player_size = Default["player_size"]
    /\ ball_size = Default["ball_size"]
    /\ kickable_margin = Default["kickable_margin"]
    /\ control_radius = Default["control_radius"]
    /\ kickable_area = kickable_margin + ball_size + player_size
    /\ control_radius_width = control_radius - player_size
    /\ raw_half_time = Default["half_time"]
    /\ half_time = ToCycles(raw_half_time)
    /\ raw_extra_half_time = Default["extra_half_time"]
    /\ extra_half_time = ToCycles(raw_extra_half_time)

Next ==
    \/ \E v \in Lengths : \/ setCTLRadius(v) \/ setKickMargin(v)
                          \/ setBallSize(v) \/ setPlayerSize(v)
    \/ \E t \in HalfTimes : setHalfTime(t) \/ setExtraHalfTime(t)

Spec == Init /\ [][Next]_vars

(***************************************************************************)
(* Properties.                                                             *)
(***************************************************************************)
\* Whatever order the configuration calls the four setters in, and however
\* often, the incrementally kept kickable_area and control_radius_width
\* equal their defining sums of the current parameters (player_size
\* enters both, with opposite signs).
DerivedLengthsConsistent ==
    /\ kickable_area = kickable_margin + ball_size + player_size
    /\ control_radius_width = control_radius - player_size

\* A half time in cycles lasts the configured number of seconds to within
\* half a cycle, and getRawHalfTime / getRawExtraHalfTime still return the
\* seconds last configured: |cycles * step - seconds * 1000| <= step / 2.
WithinHalfCycle(cycles, sec) ==
    /\ 2 * (cycles * RawSimStep - sec * 1000) <= RawSimStep
    /\ 2 * (sec * 1000 - cycles * RawSimStep) <= RawSimStep
HalfTimesMatchSeconds ==
    /\ WithinHalfCycle(half_time, getRawHalfTime)
    /\ WithinHalfCycle(extra_half_time, getRawExtraHalfTime)
=============================================================================
