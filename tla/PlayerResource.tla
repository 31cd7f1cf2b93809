--------------------------- MODULE PlayerResource ---------------------------
(***************************************************************************)
(* The resource model of one Player (src/src/player.cpp): stamina,        *)
(* recovery and effort as dash spends them and updateStamina restores     *)
(* them, the two hearing-capacity counters, and the resets done by        *)
(* substitute and recoverAll.                                              *)
(*                                                                         *)
(* Reals are fixed-point integers.  Stamina is in stamina units; recovery *)
(* is in units of 1/RecoveryOne, so M_recovery = 1.0 is RecoveryOne; the  *)
(* thresholds are given already multiplied by staminaMax().  The dash's  *)
(* push (effort x power x dash_power_rate along the body) is physics and  *)
(* is left out; M_consumed_stamina is a diagnostic and is left out.       *)
(***************************************************************************)
EXTENDS Integers

CONSTANTS
    StaminaMax,     \* ServerParam::staminaMax()
    RecoverInit,    \* ServerParam::recoverInit()
    RecoveryOne,    \* the fixed-point value of 1.0 for M_recovery
    RecoverDecThr,  \* recoverDecThr() * staminaMax()
    RecoverDec,     \* recoverDec()
    RecoverMin,     \* recoverMin()
    EffortDecThr,   \* effortDecThr() * staminaMax()
    EffortIncThr,   \* effortIncThr() * staminaMax()
    EffortDec,      \* effortDec()
    EffortInc,      \* effortInc()
    HearMax,        \* hearMax()
    HearInc,        \* hearInc()
    HearDecay,      \* hearDecay()
    Types,          \* the player type ids the stadium knows
    DefaultType,    \* type 0, set by the constructor
    BadType,        \* an id with no HeteroPlayer (setPlayerType returns)
    EffortMin,      \* [Types -> Int]: HeteroPlayer::effortMin()
    EffortMax,      \* [Types -> Int]: HeteroPlayer::effortMax()
    ExtraStamina,   \* [Types -> Nat]: HeteroPlayer::extraStamina()
    StaminaIncMax,  \* [Types -> Nat]: HeteroPlayer::staminaIncMax()
    MinPower,       \* ServerParam::minPower()
    MaxPower,       \* ServerParam::maxPower()
    DashPowers      \* dash powers a client may send

ASSUME BadType \notin Types /\ DefaultType \in Types
\* recovery x staminaIncMax stays a whole number of stamina units
ASSUME \A t \in Types : StaminaIncMax[t] % RecoveryOne = 0
ASSUME \A t \in Types : EffortMin[t] <= EffortMax[t]
ASSUME MinPower <= 0 /\ 0 <= MaxPower

VARIABLES
    ptype,          \* M_player_type (its id)
    stamina,        \* M_stamina
    recovery,       \* M_recovery
    effort,         \* M_effort
    hear_mate,      \* M_hear_capacity_from_teammate
    hear_opp,       \* M_hear_capacity_from_opponent
    command_done    \* M_command_done (dash's guard)

vars == <<ptype, stamina, recovery, effort, hear_mate, hear_opp, command_done>>

\* NormalizeDashPower: rcss::bound(minPower(), p, maxPower()).
NormalizeDashPower(p) ==
    IF p < MinPower THEN MinPower ELSE IF p > MaxPower THEN MaxPower ELSE p

(***************************************************************************)
(* Plausible faults of the code, each of which one property must catch.    *)
(***************************************************************************)
\* dash() without the clamp of M_stamina at 0.
StaminaAfterDashUnclamped(t, s, power) ==
    LET need == IF power < 0 THEN -2 * NormalizeDashPower(power)
                ELSE NormalizeDashPower(power)
        capped == IF need > s + ExtraStamina[t] THEN s + ExtraStamina[t] ELSE need
    IN s - capped

(***************************************************************************)
(* Player::dash: the stamina charged for a dash of power `power`.          *)
(***************************************************************************)
\* power_need: the power as NormalizeDashPower bounds it; a backward dash
\* (the sign of the power sent) costs twice its magnitude, and the cost is
\* capped at the stamina left plus the type's extra stamina.
PowerNeed(t, s, power) ==
    LET need == IF power < 0 THEN -2 * NormalizeDashPower(power)
                ELSE NormalizeDashPower(power)
    IN IF need > s + ExtraStamina[t] THEN s + ExtraStamina[t] ELSE need

StaminaAfterDash(t, s, power) ==
    IF s - PowerNeed(t, s, power) < 0 THEN 0 ELSE s - PowerNeed(t, s, power)

dash(power) ==
    /\ ~command_done
    /\ stamina' = StaminaAfterDash(ptype, stamina, power)
    /\ command_done' = TRUE
    /\ UNCHANGED <<ptype, recovery, effort, hear_mate, hear_opp>>

\* updateStamina() without the clamp of M_recovery at recover_min.
RecoveryAfterUnclamped(s, r) ==
    IF s <= RecoverDecThr /\ r > RecoverMin THEN r - RecoverDec ELSE r

(***************************************************************************)
(* Player::updateStamina, run once per cycle.                              *)
(***************************************************************************)
RecoveryAfter(s, r) ==
    IF s <= RecoverDecThr
    THEN LET r1 == IF r > RecoverMin THEN r - RecoverDec ELSE r
         IN IF r1 < RecoverMin THEN RecoverMin ELSE r1
    ELSE r

\* The effort decrement toward the type's minimum, then the increment
\* toward its maximum; both test the stamina before regeneration.
EffortAfterDec(t, s, e) ==
    IF s <= EffortDecThr
    THEN LET e1 == IF e > EffortMin[t] THEN e - EffortDec ELSE e
         IN IF e1 < EffortMin[t] THEN EffortMin[t] ELSE e1
    ELSE e

EffortAfterInc(t, s, e) ==
    IF s >= EffortIncThr /\ e < EffortMax[t]
    THEN IF e + EffortInc > EffortMax[t] THEN EffortMax[t] ELSE e + EffortInc
    ELSE e

\* The regeneration without the cap at stamina_max.
StaminaAfterRegenUncapped(t, s, r) == s + (r * StaminaIncMax[t]) \div RecoveryOne

\* The regeneration uses the recovery just updated.
StaminaAfterRegen(t, s, r) ==
    IF s + (r * StaminaIncMax[t]) \div RecoveryOne > StaminaMax
    THEN StaminaMax
    ELSE s + (r * StaminaIncMax[t]) \div RecoveryOne

(***************************************************************************)
(* Hearing: Player::updateCapacity (the hearing part),                    *)
(* Player::canHearFullFrom and Player::decrementHearCapacity.             *)
(***************************************************************************)
\* The full-hearing test as "any capacity left".
canHearFullFromAnyLeft(c) == c > 0

Refill(c) == IF c + HearInc > HearMax THEN HearMax ELSE c + HearInc

canHearFullFrom(c) == c >= HearDecay

decrementHearCapacity(c) == c - HearDecay

\* A message from a teammate (mate = TRUE) or an opponent reaches the
\* player.  The audio code outside the sources asks canHearFullFrom and,
\* when it holds, delivers the message in full and calls
\* decrementHearCapacity; otherwise the message is not heard in full.
hear(mate) ==
    /\ IF mate
       THEN /\ canHearFullFrom(hear_mate)
            /\ hear_mate' = decrementHearCapacity(hear_mate)
            /\ UNCHANGED hear_opp
       ELSE /\ canHearFullFrom(hear_opp)
            /\ hear_opp' = decrementHearCapacity(hear_opp)
            /\ UNCHANGED hear_mate
    /\ UNCHANGED <<ptype, stamina, recovery, effort, command_done>>

(***************************************************************************)
(* Resets.                                                                 *)
(***************************************************************************)
\* Player::setPlayerType: an unknown id leaves the type as it is.
setPlayerType(old, id) == IF id \in Types THEN id ELSE old

\* substitute() without the reset of M_effort.
substituteKeepEffort(id) ==
    /\ ptype' = setPlayerType(ptype, id)
    /\ stamina' = StaminaMax
    /\ recovery' = RecoveryOne
    /\ hear_mate' = HearMax
    /\ hear_opp' = HearMax
    /\ UNCHANGED <<effort, command_done>>

\* Player::substitute: set the type, then reset stamina, recovery, effort
\* and hearing to the values of a fresh match.
substitute(id) ==
    /\ ptype' = setPlayerType(ptype, id)
    /\ stamina' = StaminaMax
    /\ recovery' = RecoveryOne
    /\ effort' = EffortMax[ptype']
    /\ hear_mate' = HearMax
    /\ hear_opp' = HearMax
    /\ UNCHANGED command_done

\* Player::recoverAll
recoverAll ==
    /\ stamina' = StaminaMax
    /\ recovery' = RecoveryOne
    /\ effort' = EffortMax[ptype]
    /\ hear_mate' = HearMax
    /\ hear_opp' = HearMax
    /\ UNCHANGED <<ptype, command_done>>

(***************************************************************************)
(* The cycle boundary: updateStamina, then updateCapacity, then the        *)
(* release of the command guard by resetCommandFlags (no tackle here).    *)
(***************************************************************************)
CycleStep ==
    LET r == RecoveryAfter(stamina, recovery)
        e == EffortAfterInc(ptype, stamina, EffortAfterDec(ptype, stamina, effort))
    IN /\ recovery' = r
       /\ effort' = e
       /\ stamina' = StaminaAfterRegen(ptype, stamina, r)
       /\ hear_mate' = Refill(hear_mate)
       /\ hear_opp' = Refill(hear_opp)
       /\ command_done' = FALSE
       /\ UNCHANGED ptype

(***************************************************************************)
(* Specification.  The constructor: full stamina, recover_init, type 0's  *)
(* effort maximum, full hearing capacity.                                 *)
(***************************************************************************)
Init ==
    /\ ptype = DefaultType
    /\ stamina = StaminaMax
    /\ recovery = RecoverInit
    /\ effort = EffortMax[ptype]
    /\ hear_mate = HearMax
    /\ hear_opp = HearMax
    /\ command_done = FALSE

Next ==
    \/ \E pw \in DashPowers : dash(pw)
    \/ \E m \in BOOLEAN : hear(m)
    \/ \E id \in Types \cup {BadType} : substitute(id)
    \/ recoverAll
    \/ CycleStep

Spec == Init /\ [][Next]_vars /\ WF_vars(CycleStep)

(***************************************************************************)
(* Properties.                                                             *)
(***************************************************************************)
TypeOK ==
    /\ ptype \in Types
    /\ stamina \in Nat /\ recovery \in Nat /\ effort \in Nat
    /\ hear_mate \in Nat /\ hear_opp \in Nat
    /\ command_done \in BOOLEAN

\* Stamina bound: whatever dashes (forward, backward, beyond the stamina
\* left plus the type's extra stamina) and cycle boundaries happen,
\* dash's clamp and updateStamina's cap keep M_stamina in [0, staminaMax].
StaminaBound == 0 <= stamina /\ stamina <= StaminaMax

\* Effort stays within the bounds of the player's CURRENT type, across
\* substitutions to a type with other bounds (substitute resets M_effort)
\* and updateStamina's decrements and increments.
EffortWithinType == EffortMin[ptype] <= effort /\ effort <= EffortMax[ptype]

\* Recovery never falls below recover_min (updateStamina's clamp), so a
\* tired player always regenerates, and never exceeds its initial value.
RecoveryFloor == RecoverMin <= recovery /\ recovery <= RecoveryOne

\* Hearing capacity never exceeds hear_max after refills and never goes
\* negative after decrements, because decrementHearCapacity follows a
\* canHearFullFrom that held.
HearCapacityBounds ==
    \A c \in {hear_mate, hear_opp} : 0 <= c /\ c <= HearMax
=============================================================================
