----------------------------- MODULE PlayerNoise -----------------------------
(***************************************************************************)
(* The actuator noise of one player slot (src/src/player.cpp): M_kick_rand *)
(* (the kick and tackle noise) and M_randp (the turn noise), as the        *)
(* constructor, setPlayerType (through the constructor and substitute),   *)
(* init on every connection and disable set them.                         *)
(*                                                                         *)
(* With team_actuator_noise on, both are scaled by the team's factors     *)
(* (Team::kickRandFactorTeam and Team::prandFactorTeam, outside the       *)
(* sources; the server parameters kick_rand_factor_l/_r and               *)
(* player_rand_factor_l/_r of serverparam.h give them per side).  The    *)
(* factors are whole numbers here, so every product is exact.  The other *)
(* effects of init, substitute and disable are modelled by PlayerCommand, *)
(* PlayerResource and PlayerSenders.                                       *)
(***************************************************************************)
EXTENDS Naturals

CONSTANTS
    Types,              \* the player type ids the stadium knows
    BadType,            \* an id with no HeteroPlayer
    KickRand,           \* [Types -> Nat]: HeteroPlayer::kickRand()
    ServerKickRand,     \* ServerParam::kickRand()
    PlayerRand,         \* ServerParam::playerRand()
    TeamActuatorNoise,  \* ServerParam::teamActuatorNoise()
    KickRandFactor,     \* Team::kickRandFactorTeam()
    PrandFactor,        \* Team::prandFactorTeam()
    Unset,              \* M_randp before the first init
    MaxInits            \* bound on Player::init calls in one behaviour

ASSUME BadType \notin Types
ASSUME KickRand \in [Types -> Nat] /\ TeamActuatorNoise \in BOOLEAN
ASSUME {ServerKickRand, PlayerRand, KickRandFactor, PrandFactor, MaxInits} \subseteq Nat
ASSUME Unset \notin Nat

VARIABLES
    ptype,      \* M_player_type_id
    kick_rand,  \* M_kick_rand
    randp,      \* M_randp
    enable,     \* M_enable
    inits       \* history: Player::init calls so far

vars == <<ptype, kick_rand, randp, enable, inits>>

(***************************************************************************)
(* Player::setPlayerType: an unknown id returns with nothing changed;     *)
(* otherwise the type's kick_rand, scaled by the team's factor.           *)
(***************************************************************************)
TypeKickRand(id) ==
    IF TeamActuatorNoise THEN KickRand[id] * KickRandFactor ELSE KickRand[id]

setPlayerType(id) ==
    /\ ptype' = IF id \in Types THEN id ELSE ptype
    /\ kick_rand' = IF id \in Types THEN TypeKickRand(id) ELSE kick_rand

(***************************************************************************)
(* Player::init on a (re)connection of the slot: M_randp is computed from *)
(* playerRand() each time, while M_kick_rand is multiplied in place.  ok: *)
(* setSenders() succeeded (otherwise init disables the slot again).      *)
(***************************************************************************)
init(ok) ==
    /\ inits < MaxInits
    /\ randp' = IF TeamActuatorNoise THEN PlayerRand * PrandFactor ELSE PlayerRand
    /\ kick_rand' = IF TeamActuatorNoise THEN kick_rand * KickRandFactor ELSE kick_rand
    /\ enable' = ok
    /\ inits' = inits + 1
    /\ UNCHANGED ptype

\* Player::disable (bye, discard or a lost connection).
disable ==
    /\ enable
    /\ enable' = FALSE
    /\ UNCHANGED <<ptype, kick_rand, randp, inits>>

\* Player::substitute (the coach's change_player_type): setPlayerType.
substitute(id) ==
    /\ setPlayerType(id)
    /\ UNCHANGED <<randp, enable, inits>>

(***************************************************************************)
(* The constructor: M_kick_rand = kickRand(), then setPlayerType(0);       *)
(* M_randp is first written by init.                                       *)
(***************************************************************************)
Init ==
    /\ ptype = 0
    /\ kick_rand = IF 0 \in Types THEN TypeKickRand(0) ELSE ServerKickRand
    /\ randp = Unset
    /\ enable = FALSE
    /\ inits = 0

Next ==
    \/ \E ok \in BOOLEAN : init(ok)
    \/ disable
    \/ \E id \in Types \cup {BadType} : substitute(id)

Spec == Init /\ [][Next]_vars

(***************************************************************************)
(* Properties.                                                             *)
(***************************************************************************)
\* Claimed by serverparam.h ("factor to multiple kick_rand for left team")
\* and by init's own handling of M_randp, which it recomputes from
\* playerRand(): a connected player's kick noise is its type's kick_rand
\* times the team's factor, once, however often the slot reconnected.
KickRandScaledOnce == enable => kick_rand = TypeKickRand(ptype)
=============================================================================
