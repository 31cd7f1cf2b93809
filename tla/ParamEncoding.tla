--------------------------- MODULE ParamEncoding ---------------------------
(***************************************************************************)
(* The heterogeneous-player parameter registry of src/src/playerparam.cpp *)
(* and its binary encoding: setDefaults, the configuration parser writing *)
(* registered parameters, and convertToStruct, which encodes every        *)
(* parameter into the player_params_t sent to monitors and clients: the   *)
(* integer ones as network-order 16-bit words, the seed as a 32-bit word, *)
(* and the real ones as roundint(SHOWINFO_SCALE2 * value) in network-     *)
(* order 32-bit words.                                                     *)
(*                                                                         *)
(* A real parameter is a rational number with the fixed denominator Den;  *)
(* the defaults of the code are all whole multiples of 1/10000.  A wire   *)
(* field is its sequence of bytes in the order they are sent.  4096 * n / *)
(* 625 never ends in exactly .5, so the double's representation error of *)
(* such a value cannot move roundint across a rounding boundary.          *)
(***************************************************************************)
EXTENDS Integers, Sequences, SequencesExt

CONSTANTS
    Scale2,     \* SHOWINFO_SCALE2 (65536)
    ConfigSets  \* the (name, value) writes the configuration file may make

(***************************************************************************)
(* The parameters and their defaults, the DEFAULT_ constants of PlayerParam. *)
(***************************************************************************)
Int16Fields == {"player_types", "subs_max", "pt_max", "allow_mult_default_type"}
Int32Fields == {"random_seed"}
ScaledFields ==
    {"player_speed_max_delta_min", "player_speed_max_delta_max",
     "stamina_inc_max_delta_factor", "player_decay_delta_min",
     "player_decay_delta_max", "inertia_moment_delta_factor",
     "dash_power_rate_delta_min", "dash_power_rate_delta_max",
     "player_size_delta_factor", "kickable_margin_delta_min",
     "kickable_margin_delta_max", "kick_rand_delta_factor",
     "extra_stamina_delta_min", "extra_stamina_delta_max",
     "effort_max_delta_factor", "effort_min_delta_factor",
     "new_dash_power_rate_delta_min", "new_dash_power_rate_delta_max",
     "new_stamina_inc_max_delta_factor"}
Fields == Int16Fields \cup Int32Fields \cup ScaledFields

\* The denominator of a real parameter: every DEFAULT_ real of the code
\* is a whole number of ten-thousandths.
Den == 10000

\* PlayerParam::setDefaults; allow_mult_default_type = false is 0.
Defaults ==
    [f \in Fields |->
        CASE f = "player_types" -> 18
          [] f = "subs_max" -> 3
          [] f = "pt_max" -> 1
          [] f = "allow_mult_default_type" -> 0
          [] f = "random_seed" -> -1
          [] f = "player_decay_delta_min" -> -1000
          [] f = "player_decay_delta_max" -> 1000
          [] f = "inertia_moment_delta_factor" -> 250000
          [] f = "player_size_delta_factor" -> -1000000
          [] f = "kickable_margin_delta_min" -> -1000
          [] f = "kickable_margin_delta_max" -> 1000
          [] f = "kick_rand_delta_factor" -> 10000
          [] f = "extra_stamina_delta_max" -> 500000
          [] f = "effort_max_delta_factor" -> -40
          [] f = "effort_min_delta_factor" -> -40
          [] f = "new_dash_power_rate_delta_min" -> -12
          [] f = "new_dash_power_rate_delta_max" -> 8
          [] f = "new_stamina_inc_max_delta_factor" -> -60000000
          [] OTHER -> 0]

ASSUME \A w \in ConfigSets : w[1] \in Fields

(***************************************************************************)
(* Conversions.                                                            *)
(***************************************************************************)
\* x = SHOWINFO_SCALE2 * n / Den, the product a real parameter n / Den is
\* scaled to, is IntPart(n) + FracNum(n) / Den with 0 <= FracNum(n) < Den
\* (kept apart so that every intermediate fits TLC's 32-bit integers).
IntPart(n) == Scale2 * (n \div Den)
FracNum(n) == Scale2 * (n % Den)

\* floor(x + 0.5) and whether x + 0.5 is a whole number.
FloorHalfUp(n) == IntPart(n) + (2 * FracNum(n) + Den) \div (2 * Den)
HalfUpWhole(n) == (2 * FracNum(n) + Den) % (2 * Den) = 0

\* The reading a receiver would expect: x rounded half away from zero.
RoundNearest(n) == IF n >= 0 THEN FloorHalfUp(n) ELSE -FloorHalfUp(-n)

\* roundint(x) = static_cast<Int32>(x + 0.5): the cast truncates toward
\* zero, so a negative x + 0.5 that is not whole goes up, not down.
roundint(n) ==
    IF FloorHalfUp(n) >= 0 \/ HalfUpWhole(n) THEN FloorHalfUp(n)
    ELSE FloorHalfUp(n) + 1

\* The bytes of the k-byte two's complement of x, most significant first
\* (floor division yields two's complement bytes of a negative x):
\* htons / htonl put them in network order whatever the host.
NetworkBytes(x, k) ==
    [i \in 1..k |-> (x \div (256 ^ (k - i))) % 256]

\* The 16-bit encoding of an integer field: static_cast<Int16>, htons.
Encode16(v) == NetworkBytes(v, 2)
\* The 32-bit encodings: random_seed as it is, a real field scaled.
Encode32(v) == NetworkBytes(v, 4)

\* A receiver's reading of a field: ntohs / ntohl into the signed type;
\* the most significant byte carries the sign.
Decode(bytes) ==
    FoldLeft(LAMBDA acc, b : acc * 256 + b,
             IF bytes[1] >= 128 THEN bytes[1] - 256 ELSE bytes[1],
             Tail(bytes))

\* The width of each field of player_params_t, in bytes.
Width(f) == IF f \in Int16Fields THEN 2 ELSE 4

\* PlayerParam::convertToStruct
convertToStructOf(p) ==
    [f \in Fields |->
        IF f \in Int16Fields THEN Encode16(p[f])
        ELSE IF f \in Int32Fields THEN Encode32(p[f])
        ELSE Encode32(roundint(p[f]))]

(***************************************************************************)
(* The registry.                                                           *)
(***************************************************************************)
VARIABLES
    param,  \* the registry's members
    wire    \* the last player_params_t sent, or <<>> before the first

vars == <<param, wire>>

Init ==
    /\ param = Defaults
    /\ wire = <<>>

\* The configuration parser writes a parameter; it runs in init(), before
\* any parameters are sent.
configure(f, v) ==
    /\ wire = <<>>
    /\ param' = [param EXCEPT ![f] = v]
    /\ UNCHANGED wire

\* The parameters are sent (to a monitor or a client).
convertToStruct ==
    /\ wire' = convertToStructOf(param)
    /\ UNCHANGED param

Next ==
    \/ \E w \in ConfigSets : configure(w[1], w[2])
    \/ convertToStruct

Spec == Init /\ [][Next]_vars

(***************************************************************************)
(* Properties.                                                             *)
(***************************************************************************)
\* What a receiver of player_params_t relies on (rcssmonitor and clients
\* divide by SHOWINFO_SCALE2): every real parameter is sent as 65536 times
\* its value rounded to the nearest integer, negative parameters included.
ScaledRoundsToNearest ==
    wire # <<>> =>
        \A f \in ScaledFields :
            Decode(wire[f]) = RoundNearest(param[f])
=============================================================================
