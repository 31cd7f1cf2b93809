---------------------------- MODULE SynchBarrier ----------------------------
(***************************************************************************)
(* Synchronized mode: the done-received flags of the player slots         *)
(* (src/src/player.cpp) and of the coach (src/src/coach.h), and the       *)
(* stadium's barrier that advances the cycle once every connected agent   *)
(* has sent "done", or when the cycle's timeout fires.                    *)
(*                                                                         *)
(* A player slot is reused: Player::disable ends a connection and         *)
(* Player::init (through setEnable) starts the next one on the same       *)
(* object.  The barrier and the coach's "done" handler are in stadium.cpp *)
(* and coach.cpp, outside the sources; they are modelled from the         *)
(* description of synchronized mode.  The other per-cycle flags are kept  *)
(* by PlayerCommand.                                                       *)
(***************************************************************************)
EXTENDS Naturals

CONSTANTS
    Players,        \* the player slots
    CoachConnected, \* whether a coach takes part in the barrier
    MaxReconnects   \* bound on Player::init calls in one behaviour

ASSUME CoachConnected \in BOOLEAN /\ MaxReconnects \in Nat

VARIABLES
    enable,         \* M_enable of each slot
    done_received,  \* M_done_received of each slot
    coach_done,     \* Coach::M_done_received
    tick,           \* parity of the simulation cycle
    said,           \* history: the client of p's current connection sent
                    \* done since the last cycle boundary
    reconnects      \* history: Player::init calls so far

vars == <<enable, done_received, coach_done, tick, said, reconnects>>

(***************************************************************************)
(* The agents' handlers.                                                   *)
(***************************************************************************)
\* Player::init: setEnable() makes the slot STAND and enabled; nothing in
\* init touches M_done_received.
init(p) ==
    /\ ~enable[p]
    /\ reconnects < MaxReconnects
    /\ enable' = [enable EXCEPT ![p] = TRUE]
    /\ said' = [said EXCEPT ![p] = FALSE]
    /\ reconnects' = reconnects + 1
    /\ UNCHANGED <<done_received, coach_done, tick>>

\* Player::done: the client's (done) command.
done(p) ==
    /\ enable[p]
    /\ done_received' = [done_received EXCEPT ![p] = TRUE]
    /\ said' = [said EXCEPT ![p] = TRUE]
    /\ UNCHANGED <<enable, coach_done, tick, reconnects>>

\* Player::disable (bye, discard or a lost connection): clears M_enable
\* and leaves M_done_received as it is.
disable(p) ==
    /\ enable[p]
    /\ enable' = [enable EXCEPT ![p] = FALSE]
    /\ UNCHANGED <<done_received, coach_done, tick, said, reconnects>>

\* The coach's (done) command sets M_done_received (coach.cpp).
coachDone ==
    /\ CoachConnected
    /\ coach_done' = TRUE
    /\ UNCHANGED <<enable, done_received, tick, said, reconnects>>

(***************************************************************************)
(* The cycle boundary.                                                     *)
(***************************************************************************)
\* Coach::doneReceived()
coachDoneReceived == coach_done

\* doneReceived() of every connected slot and of the coach.
AllDone ==
    /\ \A p \in Players : enable[p] => done_received[p]
    /\ CoachConnected => coachDoneReceived

\* Player::resetCommandFlags, its done part, on every slot.
PlayerResetCommandFlags == done_received' = [p \in Players |-> FALSE]

\* Coach::resetCommandFlags.
CoachResetCommandFlags == coach_done' = FALSE

\* The stadium resets every agent's flags when the cycle advances.
resetCommandFlags ==
    /\ PlayerResetCommandFlags
    /\ CoachResetCommandFlags
    /\ said' = [p \in Players |-> FALSE]

\* The stadium advances the cycle once everyone connected is done ...
Advance ==
    /\ AllDone
    /\ resetCommandFlags
    /\ tick' = 1 - tick
    /\ UNCHANGED <<enable, reconnects>>

\* ... or when the synchronized cycle's time runs out.
Timeout ==
    /\ resetCommandFlags
    /\ tick' = 1 - tick
    /\ UNCHANGED <<enable, reconnects>>

(***************************************************************************)
(* Specification.  Slots start disabled with M_done_received false (the   *)
(* Player constructor).                                                    *)
(***************************************************************************)
Init ==
    /\ enable = [p \in Players |-> FALSE]
    /\ done_received = [p \in Players |-> FALSE]
    /\ coach_done = FALSE
    /\ tick = 0
    /\ said = [p \in Players |-> FALSE]
    /\ reconnects = 0

Next ==
    \/ \E p \in Players : init(p) \/ done(p) \/ disable(p)
    \/ coachDone
    \/ Advance
    \/ Timeout

Spec == Init /\ [][Next]_vars

(***************************************************************************)
(* Properties.                                                             *)
(***************************************************************************)
\* Synchronized mode as described: the barrier lets the cycle advance only
\* when the client of every connected slot has sent done in this cycle.
\* A done sent before a disable() survives the reconnection in init().
BarrierWaitsForConnected ==
    [][Advance => \A p \in Players : enable[p] => said[p]]_vars
=============================================================================
