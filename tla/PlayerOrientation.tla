------------------------- MODULE PlayerOrientation -------------------------
(***************************************************************************)
(* The body and neck orientation of one Player (src/src/player.cpp): the  *)
(* pending angles that turn and turn_neck set, the committed angles that  *)
(* the cycle boundary (updateAngle / turnImpl) copies them into, and the  *)
(* direct writes of the committed body angle by init (on a connection)    *)
(* and by place(pos, angle, vel, accel) (the stadium repositioning a      *)
(* player).                                                                *)
(*                                                                         *)
(* The body angle lives on a ring of AngleSteps directions, and           *)
(* normalize_angle is the remainder modulo AngleSteps.  A turn's          *)
(* effective moment ((1 + noise) * moment / (1 + inertia * speed)) is an  *)
(* input from TurnSteps.  Neck angles and neck moments are whole steps.   *)
(***************************************************************************)
EXTENDS Integers

CONSTANTS
    AngleSteps,     \* directions on the ring
    TurnSteps,      \* the effective moments a turn can produce
    MinNeckMoment, MaxNeckMoment, \* ServerParam min/maxNeckMoment()
    MinNeckAngle, MaxNeckAngle,   \* ServerParam min/maxNeckAngle()
    NeckMoments,    \* neck moments a client may send
    SideDirection,  \* SideDirection(side()), the body angle of init()
    NoAngle         \* no placement this cycle

ASSUME AngleSteps \in Nat \ {0} /\ NoAngle \notin 0..(AngleSteps - 1)
ASSUME MinNeckAngle <= 0 /\ 0 <= MaxNeckAngle

Angles == 0..(AngleSteps - 1)
NeckAngles == MinNeckAngle..MaxNeckAngle

VARIABLES
    angle_body,             \* M_angle_body (pending)
    angle_body_committed,   \* M_angle_body_committed
    angle_neck,             \* M_angle_neck (pending)
    angle_neck_committed,   \* M_angle_neck_committed
    command_done,           \* M_command_done (turn's guard)
    turn_neck_done,         \* M_turn_neck_done
    \* history variables, not program state:
    placed,                 \* the angle init or place set this cycle
    turned                  \* a turn was accepted after that write

vars == <<angle_body, angle_body_committed, angle_neck, angle_neck_committed,
          command_done, turn_neck_done, placed, turned>>

\* turn() without normalize_angle.
normalize_angleMissing(a) == a

normalize_angle(a) == a % AngleSteps

\* rcss::bound as NormalizeNeckMoment and NormalizeNeckAngle use it.
Bound(lo, x, hi) == IF x < lo THEN lo ELSE IF x > hi THEN hi ELSE x

\* turn_neck() without NormalizeNeckMoment.
NormalizeNeckMomentMissing(m) == m

NormalizeNeckMoment(m) == Bound(MinNeckMoment, m, MaxNeckMoment)

NormalizeNeckAngle(a) == Bound(MinNeckAngle, a, MaxNeckAngle)

(***************************************************************************)
(* Commands.                                                               *)
(***************************************************************************)
\* Player::turn: the pending body angle is the committed one plus the
\* effective moment.
turn(d) ==
    /\ ~command_done
    /\ angle_body' = normalize_angle(angle_body_committed + d)
    /\ command_done' = TRUE
    /\ turned' = (placed # NoAngle)
    /\ UNCHANGED <<angle_body_committed, angle_neck, angle_neck_committed,
                   turn_neck_done, placed>>

\* Player::turn_neck: the pending neck angle is the committed one plus
\* the bounded moment, bounded to the neck range.
turn_neck(m) ==
    /\ ~turn_neck_done
    /\ angle_neck' = NormalizeNeckAngle(angle_neck_committed + NormalizeNeckMoment(m))
    /\ turn_neck_done' = TRUE
    /\ UNCHANGED <<angle_body, angle_body_committed, angle_neck_committed,
                   command_done, placed, turned>>

\* Player::init on a (re)connection writes the committed body angle only.
init ==
    /\ angle_body_committed' = SideDirection
    /\ placed' = SideDirection
    /\ turned' = FALSE
    /\ UNCHANGED <<angle_body, angle_neck, angle_neck_committed, command_done,
                   turn_neck_done>>

\* Player::place(pos, angle, vel, accel) writes the committed body angle
\* only (position, velocity and acceleration are not modelled).
place(a) ==
    /\ angle_body_committed' = a
    /\ placed' = a
    /\ turned' = FALSE
    /\ UNCHANGED <<angle_body, angle_neck, angle_neck_committed, command_done,
                   turn_neck_done>>

\* The cycle boundary: Player::updateAngle (turnImpl does the same and
\* also stops the player) makes the pending angles the committed ones;
\* then resetCommandFlags (no tackle lock in this module).
CycleStep ==
    /\ angle_body_committed' = angle_body
    /\ angle_neck_committed' = angle_neck
    /\ command_done' = FALSE
    /\ turn_neck_done' = FALSE
    /\ placed' = NoAngle
    /\ turned' = FALSE
    /\ UNCHANGED <<angle_body, angle_neck>>

(***************************************************************************)
(* Specification.  The constructor sets all four angles to 0.             *)
(***************************************************************************)
Init ==
    /\ angle_body = 0 /\ angle_body_committed = 0
    /\ angle_neck = 0 /\ angle_neck_committed = 0
    /\ command_done = FALSE /\ turn_neck_done = FALSE
    /\ placed = NoAngle /\ turned = FALSE

Next ==
    \/ \E d \in TurnSteps : turn(d)
    \/ \E m \in NeckMoments : turn_neck(m)
    \/ init
    \/ \E a \in Angles : place(a)
    \/ CycleStep

Spec == Init /\ [][Next]_vars /\ WF_vars(CycleStep)

(***************************************************************************)
(* Properties.                                                             *)
(***************************************************************************)
TypeOK ==
    /\ angle_body \in Angles /\ angle_body_committed \in Angles
    /\ angle_neck \in Int /\ angle_neck_committed \in Int
    /\ command_done \in BOOLEAN /\ turn_neck_done \in BOOLEAN
    /\ placed \in Angles \cup {NoAngle} /\ turned \in BOOLEAN

\* turn_neck bounds the moment and then the angle it gives: across a cycle
\* boundary the committed neck angle moves by at most the neck moment
\* bounds and lands within [min_neck_angle, max_neck_angle], however large
\* the moment sent and wherever the neck already was.
NeckStepBounded ==
    [][angle_neck_committed' # angle_neck_committed =>
         /\ angle_neck_committed' \in NeckAngles
         /\ angle_neck_committed' - angle_neck_committed \in MinNeckMoment..MaxNeckMoment]_vars

\* Claimed by the code's purpose: an angle that init() or place() gives a
\* player is the one it has after the next cycle boundary, unless the
\* player turned after it.
PlacedAngleKept ==
    [][placed # NoAngle /\ ~turned /\ placed' = NoAngle
         => angle_body_committed' = placed]_vars
=============================================================================
