---------------------------- MODULE PlayerCommand ----------------------------
(***************************************************************************)
(* The per-cycle command state machine of Player (src/src/player.cpp):    *)
(* the primary-command guard M_command_done, the neck guard, the tackle   *)
(* lock, the M_state flag set with its fault and transient markers, the   *)
(* goalie catch ban and post-catch move counter, handshake (init),        *)
(* disconnect (disable), bye and discard, and the stadium's cycle         *)
(* boundary that decrements and resets them.                              *)
(*                                                                         *)
(* Data the guards do not read is abstracted: stamina, angles and         *)
(* positions are left out (PlayerResource and later modules keep them);   *)
(* the geometry of a kick, tackle or catch is an input chosen by \E (is   *)
(* the ball kickable, which tackle zone, is it in the catch area), and a  *)
(* random draw is a nondeterministic boolean.                             *)
(***************************************************************************)
EXTENDS Integers, FiniteSets, SerializerMarkers

CONSTANTS
    Players,        \* player slots (model values)
    NoPlayer,       \* the stadium has no ball catcher
    PlayModes,      \* the play modes the referee may set (strings)
    PenaltyModes,   \* those for which Referee::isPenaltyShootOut holds
    Versions,       \* protocol versions a client may ask for
    SerializerVersions, \* versions for which setSenders() finds senders
    TackleCycles,   \* ServerParam::tackleCycles()
    CatchBanCycle,  \* ServerParam::catchBanCycle()
    GoalieMaxMoves  \* ServerParam::goalieMaxMoves(); negative = unlimited

ASSUME TackleCycles \in Nat /\ CatchBanCycle \in Nat
ASSUME GoalieMaxMoves \in Int
ASSUME NoPlayer \notin Players /\ PenaltyModes \subseteq PlayModes

VARIABLES
    state,              \* M_state, a set of flag names; {} is DISABLE
    enable,             \* M_enable
    goalie,             \* M_goalie
    command_done,       \* M_command_done
    turn_neck_done,     \* M_turn_neck_done
    done_received,      \* M_done_received
    tackle_cycles,      \* M_tackle_cycles
    goalie_catch_ban,   \* M_goalie_catch_ban
    goalie_moves_since_catch, \* M_goalie_moves_since_catch
    playmode,           \* Stadium::playmode(), set by the referee
    ball_catcher,       \* Stadium::ballCatcher()
    \* history variables, not program state:
    cmd_count,      \* primary commands that took effect this cycle
    catch_draws,    \* catch_probability draws taken this cycle
    kick_taken,     \* kickTaken() was called for p this cycle
    since_tackle,   \* cycle boundaries since p's last tackle attempt
    tackle_marked,  \* that attempt set the TACKLE bit
    ban_age,        \* cycle boundaries since p's catch ban was last set
    discarded       \* p was discarded and has not reconnected since

prog == <<state, enable, goalie, command_done, turn_neck_done, done_received,
          tackle_cycles, goalie_catch_ban, goalie_moves_since_catch,
          playmode, ball_catcher>>
hist == <<cmd_count, catch_draws, kick_taken, since_tackle, tackle_marked,
          ban_age, discarded>>
vars == <<prog, hist>>

\* Bounds of the history counters.
SinceCap == TackleCycles + 1
BanAgeCap == CatchBanCycle + 1
\* Draws beyond a second one in a cycle are not counted.
DrawCap == 2

DISABLE == {}
Flags == {"STAND", "GOALIE", "DISCARD", "KICK", "KICK_FAULT", "CATCH",
          "CATCH_FAULT", "TACKLE", "TACKLE_FAULT"}

\* The play modes in which Player::kick returns early.
KickBanModes ==
    {"BeforeKickOff", "AfterGoal_Left", "AfterGoal_Right", "OffSide_Left",
     "OffSide_Right", "Back_Pass_Left", "Back_Pass_Right",
     "Free_Kick_Fault_Left", "Free_Kick_Fault_Right", "CatchFault_Left",
     "CatchFault_Right", "TimeOver"}
\* The play modes in which a successful tackle applies no force.
TackleBanModes == KickBanModes \ {"CatchFault_Left", "CatchFault_Right"}
\* The play modes in which a move repositions freely.
FreeMoveModes == {"BeforeKickOff", "AfterGoal_Right", "AfterGoal_Left"}
FreeKickModes == {"FreeKick_Left", "FreeKick_Right"}

isPenaltyShootOut(pm) == pm \in PenaltyModes

(***************************************************************************)
(* Plausible faults of the code, each of which one property must catch.    *)
(***************************************************************************)
\* disable() forgets Stadium::clearBallCatcher().
ReleasedCatcherKept(p) == ball_catcher
\* resetState() keeps the tackle bits whatever M_tackle_cycles is.
resetStateKeepTackle(s, cycles) ==
    s \cap {"STAND", "GOALIE", "DISCARD", "TACKLE", "TACKLE_FAULT"}
\* The move limit tested with <= instead of <.
goalieMayMoveOffByOne(p) ==
    GoalieMaxMoves < 0 \/ goalie_moves_since_catch[p] <= GoalieMaxMoves
\* The ban decremented twice per cycle.
updateCapacityBanTwice(b) == IF b > 1 THEN b - 2 ELSE 0
\* The tackle counter decremented without the > 0 test.
DecTackleUnchecked(c) == c - 1
\* The tackle counter never leaves 1.
DecTackleStuck(c) == IF c > 1 THEN c - 1 ELSE c
\* resetCommandFlags tests the counter before decrementing it.
resetCommandDoneEarly(cmdDone, c) == IF c = 0 THEN FALSE ELSE cmdDone

(***************************************************************************)
(* Helpers shared by several handlers.                                     *)
(***************************************************************************)
\* Player::setEnable
setEnable(g) == IF g THEN {"STAND", "GOALIE"} ELSE {"STAND"}

\* The ball-catcher release done by Player::disable.
ReleasedCatcher(p) ==
    IF goalie[p] /\ ball_catcher = p THEN NoPlayer ELSE ball_catcher

\* Player::disable: drop the catcher, DISABLE, not enabled.  Position,
\* velocity and the connection close are not modelled.
disable(p) ==
    /\ ball_catcher' = ReleasedCatcher(p)
    /\ enable' = [enable EXCEPT ![p] = FALSE]
    /\ state' = [state EXCEPT ![p] = DISABLE]

\* Player::resetState
resetState(s, cycles) ==
    IF cycles > 0
    THEN s \cap {"STAND", "GOALIE", "DISCARD", "TACKLE", "TACKLE_FAULT"}
    ELSE s \cap {"STAND", "GOALIE", "DISCARD"}

\* A primary command that took effect: M_command_done set, counter bumped.
Consume(p) ==
    /\ command_done' = [command_done EXCEPT ![p] = TRUE]
    /\ cmd_count' = [cmd_count EXCEPT ![p] = @ + 1]

AddFlags(p, F) == state' = [state EXCEPT ![p] = @ \cup F]

\* Commands only arrive on an open connection: a disabled player's
\* connection has been closed by disable().
Connected(p) == enable[p]

(***************************************************************************)
(* Command handlers.                                                       *)
(***************************************************************************)
\* Player::dash (stamina and the push are modelled in PlayerResource).
dash(p) ==
    /\ Connected(p) /\ ~command_done[p]
    /\ Consume(p)
    /\ UNCHANGED <<state, enable, goalie, turn_neck_done, done_received,
                   tackle_cycles, goalie_catch_ban, goalie_moves_since_catch,
                   playmode, ball_catcher, catch_draws, kick_taken,
                   since_tackle, tackle_marked, ban_age, discarded>>

\* Player::turn (the body angle is not modelled here).
turn(p) == dash(p)

\* Player::turn_neck
turn_neck(p) ==
    /\ Connected(p) /\ ~turn_neck_done[p]
    /\ turn_neck_done' = [turn_neck_done EXCEPT ![p] = TRUE]
    /\ UNCHANGED <<state, enable, goalie, command_done, done_received,
                   tackle_cycles, goalie_catch_ban, goalie_moves_since_catch,
                   playmode, ball_catcher, hist>>

\* Player::kick.  KICK is set before the play-mode gate; a rejected or
\* faulted kick leaves M_command_done unset.
kick(p, kickable) ==
    /\ Connected(p) /\ ~command_done[p]
    /\ \/ /\ playmode \in KickBanModes
          /\ AddFlags(p, {"KICK"})
          /\ UNCHANGED <<command_done, cmd_count, kick_taken>>
       \/ /\ playmode \notin KickBanModes /\ ~kickable
          /\ AddFlags(p, {"KICK", "KICK_FAULT"})
          /\ UNCHANGED <<command_done, cmd_count, kick_taken>>
       \/ /\ playmode \notin KickBanModes /\ kickable
          /\ AddFlags(p, {"KICK"})
          /\ Consume(p)
          /\ kick_taken' = [kick_taken EXCEPT ![p] = TRUE]
    /\ UNCHANGED <<enable, goalie, turn_neck_done, done_received,
                   tackle_cycles, goalie_catch_ban, goalie_moves_since_catch,
                   playmode, ball_catcher, catch_draws, since_tackle,
                   tackle_marked, ban_age, discarded>>

\* Player::goalieCatch (the #else branch that is compiled).  inArea: the
\* ball is in the rotated catch area; drawOk: drand(0,1) < catch_probability;
\* reliable: the ball is in the reliable area; failDraw: the bernoulli
\* draw with fail_prob came up true.
CatchFaultGate(p) ==
    \/ ~goalie[p]
    \/ goalie_catch_ban[p] > 0
    \/ playmode # "PlayOn" /\ ~isPenaltyShootOut(playmode)

goalieCatch(p, inArea, drawOk, reliable, failDraw) ==
    /\ Connected(p) /\ ~command_done[p]
    /\ \/ /\ CatchFaultGate(p)
          /\ AddFlags(p, {"CATCH", "CATCH_FAULT"})
          /\ UNCHANGED <<command_done, cmd_count, catch_draws,
                         goalie_catch_ban, goalie_moves_since_catch,
                         ball_catcher, ban_age>>
       \/ /\ ~CatchFaultGate(p)
          /\ catch_draws' = [catch_draws EXCEPT ![p] =
                                IF inArea /\ @ < DrawCap THEN @ + 1 ELSE @]
          /\ IF ~inArea \/ ~drawOk
             THEN /\ AddFlags(p, {"CATCH", "CATCH_FAULT"})
                  /\ UNCHANGED <<command_done, cmd_count, goalie_catch_ban,
                                 goalie_moves_since_catch, ball_catcher,
                                 ban_age>>
             ELSE /\ AddFlags(p, {"CATCH"})
                  /\ goalie_catch_ban' = [goalie_catch_ban EXCEPT ![p] =
                                              CatchBanCycle]
                  /\ ban_age' = [ban_age EXCEPT ![p] = 0]
                  /\ IF reliable \/ ~failDraw
                     THEN \* success: reposition, Stadium::ballCaught
                          /\ goalie_moves_since_catch' =
                                 [goalie_moves_since_catch EXCEPT ![p] = 0]
                          /\ ball_catcher' = p
                     ELSE UNCHANGED <<goalie_moves_since_catch, ball_catcher>>
                  /\ Consume(p)
    /\ UNCHANGED <<enable, goalie, turn_neck_done, done_received,
                   tackle_cycles, playmode, kick_taken, since_tackle,
                   tackle_marked, discarded>>

\* Player::tackle.  zone: "nodist" when |tackle_dist| <= 1e-5 for the side
\* the ball is on, "far" when the failure probability is >= 1, "near"
\* otherwise; hit: the bernoulli draw with 1 - prob came up true.
tackle(p, zone, hit) ==
    /\ Connected(p) /\ ~command_done[p] /\ ~isTackling(state[p])
    /\ Consume(p)
    /\ tackle_cycles' = [tackle_cycles EXCEPT ![p] = TackleCycles]
    /\ since_tackle' = [since_tackle EXCEPT ![p] = 0]
    /\ LET F == IF zone # "near" THEN {"TACKLE_FAULT"}
                ELSE IF hit THEN {"TACKLE"}
                ELSE {"TACKLE", "TACKLE_FAULT"}
       IN /\ AddFlags(p, F)
          /\ tackle_marked' = [tackle_marked EXCEPT ![p] = "TACKLE" \in F]
          \* a hit outside the banned play modes calls kickTaken()
          /\ kick_taken' = [kick_taken EXCEPT ![p] =
                 @ \/ (zone = "near" /\ hit /\ playmode \notin TackleBanModes)]
    /\ UNCHANGED <<enable, goalie, turn_neck_done, done_received,
                   goalie_catch_ban, goalie_moves_since_catch, playmode,
                   ball_catcher, catch_draws, ban_age, discarded>>

\* The goalie_max_moves test of Player::move.
goalieMayMove(p) ==
    GoalieMaxMoves < 0 \/ goalie_moves_since_catch[p] < GoalieMaxMoves

\* move() without the M_command_done guard.
moveUnguarded(p) ==
    /\ Connected(p)
    /\ \/ playmode \in FreeMoveModes
       \/ playmode \in FreeKickModes /\ ball_catcher = p
    /\ goalie_moves_since_catch' =
           IF playmode \in FreeKickModes /\ goalieMayMove(p)
           THEN [goalie_moves_since_catch EXCEPT ![p] = @ + 1]
           ELSE goalie_moves_since_catch
    /\ Consume(p)
    /\ UNCHANGED <<state, enable, goalie, turn_neck_done, done_received,
                   tackle_cycles, goalie_catch_ban, playmode, ball_catcher,
                   catch_draws, kick_taken, since_tackle, tackle_marked,
                   ban_age, discarded>>

\* Player::move.  The too_many_moves branch still consumes the command.
move(p) ==
    /\ Connected(p) /\ ~command_done[p]
    /\ \/ playmode \in FreeMoveModes
       \/ playmode \in FreeKickModes /\ ball_catcher = p
    /\ goalie_moves_since_catch' =
           IF playmode \in FreeKickModes /\ goalieMayMove(p)
           THEN [goalie_moves_since_catch EXCEPT ![p] = @ + 1]
           ELSE goalie_moves_since_catch
    /\ Consume(p)
    /\ UNCHANGED <<state, enable, goalie, turn_neck_done, done_received,
                   tackle_cycles, goalie_catch_ban, playmode, ball_catcher,
                   catch_draws, kick_taken, since_tackle, tackle_marked,
                   ban_age, discarded>>

\* Player::bye
bye(p) ==
    /\ Connected(p)
    /\ disable(p)
    /\ command_done' = [command_done EXCEPT ![p] = TRUE]
    /\ UNCHANGED <<goalie, turn_neck_done, done_received, tackle_cycles,
                   goalie_catch_ban, goalie_moves_since_catch, playmode, hist>>

\* Player::done
done(p) ==
    /\ Connected(p)
    /\ done_received' = [done_received EXCEPT ![p] = TRUE]
    /\ UNCHANGED <<state, enable, goalie, command_done, turn_neck_done,
                   tackle_cycles, goalie_catch_ban, goalie_moves_since_catch,
                   playmode, ball_catcher, hist>>

(***************************************************************************)
(* Handlers the stadium calls.                                             *)
(***************************************************************************)
\* Player::init on a (re)connection to a free slot: setEnable, clear the
\* ban and the move counter, then setSenders(), whose failure disables.
init(p, ver, g) ==
    /\ ~enable[p]
    /\ goalie' = [goalie EXCEPT ![p] = g]
    /\ goalie_catch_ban' = [goalie_catch_ban EXCEPT ![p] = 0]
    /\ goalie_moves_since_catch' = [goalie_moves_since_catch EXCEPT ![p] = 0]
    /\ IF ver \in SerializerVersions
       THEN /\ state' = [state EXCEPT ![p] = setEnable(g)]
            /\ enable' = [enable EXCEPT ![p] = TRUE]
            /\ UNCHANGED ball_catcher
       ELSE \* disable() runs with the new M_goalie
            /\ ball_catcher' = IF g /\ ball_catcher = p THEN NoPlayer
                               ELSE ball_catcher
            /\ enable' = [enable EXCEPT ![p] = FALSE]
            /\ state' = [state EXCEPT ![p] = DISABLE]
    \* the cleared ban counts as long expired; the new connection's state
    \* carries no tackle marker
    /\ ban_age' = [ban_age EXCEPT ![p] = BanAgeCap]
    /\ tackle_marked' = [tackle_marked EXCEPT ![p] = FALSE]
    /\ UNCHANGED <<command_done, turn_neck_done, done_received, tackle_cycles,
                   playmode, cmd_count, catch_draws, kick_taken, since_tackle>>
    /\ discarded' = [discarded EXCEPT ![p] = FALSE]

\* The connection is lost: Player::disable.
disconnect(p) ==
    /\ enable[p]
    /\ disable(p)
    /\ UNCHANGED <<goalie, command_done, turn_neck_done, done_received,
                   tackle_cycles, goalie_catch_ban, goalie_moves_since_catch,
                   playmode, hist>>

\* discard() toggling DISCARD before disable(), which then resets M_state.
discardToggleFirst(p) ==
    /\ "STAND" \in state[p]
    /\ ball_catcher' = ReleasedCatcher(p)
    /\ enable' = [enable EXCEPT ![p] = FALSE]
    /\ state' = [state EXCEPT ![p] = DISABLE]
    /\ discarded' = [discarded EXCEPT ![p] = TRUE]
    /\ UNCHANGED <<goalie, command_done, turn_neck_done, done_received,
                   tackle_cycles, goalie_catch_ban, goalie_moves_since_catch,
                   playmode, cmd_count, catch_draws, kick_taken, since_tackle,
                   tackle_marked, ban_age>>

\* Player::discard: disable(), then toggle DISCARD on the DISABLE state
\* (the toggle's clearing branch is dead: disable() left DISCARD unset).
discard(p) ==
    /\ "STAND" \in state[p]
    /\ ball_catcher' = ReleasedCatcher(p)
    /\ enable' = [enable EXCEPT ![p] = FALSE]
    /\ state' = [state EXCEPT ![p] =
                     IF "DISCARD" \notin DISABLE THEN DISABLE \cup {"DISCARD"}
                     ELSE DISABLE \ {"DISCARD"}]
    /\ discarded' = [discarded EXCEPT ![p] = TRUE]
    /\ UNCHANGED <<goalie, command_done, turn_neck_done, done_received,
                   tackle_cycles, goalie_catch_ban, goalie_moves_since_catch,
                   playmode, cmd_count, catch_draws, kick_taken, since_tackle,
                   tackle_marked, ban_age>>

\* The referee changes the play mode and may clear the ball catcher.
changePlayMode(pm, clear) ==
    /\ playmode' = pm
    /\ ball_catcher' = IF clear THEN NoPlayer ELSE ball_catcher
    /\ UNCHANGED <<state, enable, goalie, command_done, turn_neck_done,
                   done_received, tackle_cycles, goalie_catch_ban,
                   goalie_moves_since_catch, hist>>

\* Player::updateCapacity, the catch ban part.
updateCapacityBan(b) == IF b > 0 THEN b - 1 ELSE b

\* Player::resetCommandFlags: decrement the lock, then release the command
\* guard only when the lock is over.
DecTackle(c) == IF c > 0 THEN c - 1 ELSE c
resetCommandDone(cmdDone, c) == IF DecTackle(c) = 0 THEN FALSE ELSE cmdDone

\* The stadium's cycle boundary, one step over every player:
\* updateCapacity, resetCommandFlags, then resetState with the
\* decremented tackle count.
StadiumStep ==
    /\ goalie_catch_ban' = [p \in Players |-> updateCapacityBan(goalie_catch_ban[p])]
    /\ tackle_cycles' = [p \in Players |-> DecTackle(tackle_cycles[p])]
    /\ command_done' = [p \in Players |->
                            resetCommandDone(command_done[p], tackle_cycles[p])]
    /\ turn_neck_done' = [p \in Players |-> FALSE]
    /\ done_received' = [p \in Players |-> FALSE]
    /\ state' = [p \in Players |-> resetState(state[p], tackle_cycles'[p])]
    /\ cmd_count' = [p \in Players |-> 0]
    /\ catch_draws' = [p \in Players |-> 0]
    /\ kick_taken' = [p \in Players |-> FALSE]
    /\ since_tackle' = [p \in Players |->
                            IF since_tackle[p] < SinceCap
                            THEN since_tackle[p] + 1 ELSE SinceCap]
    /\ ban_age' = [p \in Players |->
                       IF ban_age[p] < BanAgeCap THEN ban_age[p] + 1
                       ELSE BanAgeCap]
    /\ UNCHANGED <<enable, goalie, goalie_moves_since_catch, playmode,
                   ball_catcher, tackle_marked, discarded>>

(***************************************************************************)
(* Specification.  A player slot starts disabled (the constructor).        *)
(***************************************************************************)
Init ==
    /\ state = [p \in Players |-> DISABLE]
    /\ enable = [p \in Players |-> FALSE]
    /\ goalie = [p \in Players |-> FALSE]
    /\ command_done = [p \in Players |-> FALSE]
    /\ turn_neck_done = [p \in Players |-> FALSE]
    /\ done_received = [p \in Players |-> FALSE]
    /\ tackle_cycles = [p \in Players |-> 0]
    /\ goalie_catch_ban = [p \in Players |-> 0]
    /\ goalie_moves_since_catch = [p \in Players |-> 0]
    /\ playmode = "BeforeKickOff"
    /\ ball_catcher = NoPlayer
    /\ cmd_count = [p \in Players |-> 0]
    /\ catch_draws = [p \in Players |-> 0]
    /\ kick_taken = [p \in Players |-> FALSE]
    /\ since_tackle = [p \in Players |-> SinceCap]
    /\ tackle_marked = [p \in Players |-> FALSE]
    /\ ban_age = [p \in Players |-> BanAgeCap]
    /\ discarded = [p \in Players |-> FALSE]

Next ==
    \/ \E p \in Players :
          \/ dash(p) \/ turn(p) \/ turn_neck(p) \/ done(p) \/ bye(p)
          \/ \E k \in BOOLEAN : kick(p, k)
          \/ \E a, d, r, f \in BOOLEAN : goalieCatch(p, a, d, r, f)
          \/ \E z \in {"nodist", "far", "near"}, h \in BOOLEAN : tackle(p, z, h)
          \/ move(p)
          \/ \E v \in Versions, g \in BOOLEAN : init(p, v, g)
          \/ disconnect(p) \/ discard(p)
    \/ \E pm \in PlayModes, c \in BOOLEAN : changePlayMode(pm, c)
    \/ StadiumStep

\* The simulator loop always reaches the next cycle boundary.
Spec == Init /\ [][Next]_vars /\ WF_vars(StadiumStep)

(***************************************************************************)
(* Properties.                                                             *)
(***************************************************************************)
TypeOK ==
    /\ state \in [Players -> SUBSET Flags]
    /\ enable \in [Players -> BOOLEAN]
    /\ goalie \in [Players -> BOOLEAN]
    /\ command_done \in [Players -> BOOLEAN]
    /\ turn_neck_done \in [Players -> BOOLEAN]
    /\ done_received \in [Players -> BOOLEAN]
    /\ tackle_cycles \in [Players -> 0..TackleCycles]
    /\ goalie_catch_ban \in [Players -> 0..CatchBanCycle]
    /\ goalie_moves_since_catch \in [Players -> Nat]
    /\ playmode \in PlayModes \cup {"BeforeKickOff"}
    /\ ball_catcher \in Players \cup {NoPlayer}
    /\ cmd_count \in [Players -> Nat]
    /\ catch_draws \in [Players -> 0..DrawCap]
    /\ kick_taken \in [Players -> BOOLEAN]
    /\ since_tackle \in [Players -> 0..SinceCap]
    /\ tackle_marked \in [Players -> BOOLEAN]
    /\ ban_age \in [Players -> 0..BanAgeCap]
    /\ discarded \in [Players -> BOOLEAN]

\* Single action per cycle: however the commands of a cycle interleave
\* (dash, turn, kick, catch, tackle, move, including faulted and repeated
\* ones), at most one primary command takes effect per player per cycle.
OnePrimaryPerCycle == \A p \in Players : cmd_count[p] <= 1

\* Tackle lock: from a tackle attempt (hit, miss or fault) no primary
\* command is accepted in that cycle and the next TackleCycles - 1 ones
\* (resetCommandFlags decrements M_tackle_cycles before testing it), and
\* the boundary that ends the lock releases M_command_done.
LockReleasedNow(p) ==
    since_tackle[p] = TackleCycles - 1 /\ since_tackle'[p] = TackleCycles
TackleLock ==
    /\ [](\A p \in Players : since_tackle[p] < TackleCycles => command_done[p])
    /\ [][\A p \in Players : LockReleasedNow(p) => ~command_done'[p]]_vars

\* The tackle lock always ends: a locked player eventually may send a
\* primary command again (the simulator loop keeps stepping).
TackleLockEnds ==
    \A p \in Players : tackle_cycles[p] > 0 ~> ~command_done[p]

\* What observers see: a connected player is shown with the " t" marker
\* by every v13 player serialization (the four visual forms and the full
\* state) and both v8 coach visual forms exactly while
\* the lock of a tackle that set TACKLE lasts (resetState keeps TACKLE
\* only while M_tackle_cycles > 0).
LockSpan(p) == since_tackle[p] = 0 \/ since_tackle[p] < TackleCycles
TackleMarkerSpan ==
    \A p \in Players :
        enable[p] =>
            \A m \in Shown13(state[p]) \cup ShownCoach8(state[p]) :
                (m = <<"t">>) = (tackle_marked[p] /\ LockSpan(p))

\* Catch ban: between two catch attempts that pass the catch area and the
\* catch_probability draw (each sets M_goalie_catch_ban), at least
\* CatchBanCycle cycle boundaries pass on one connection.
CatchBanSpacing ==
    [][\A p \in Players :
          ban_age'[p] = 0 /\ ban_age[p] > 0 => ban_age[p] >= CatchBanCycle]_vars

\* The stadium's ball catcher is always a connected goalie: disable()
\* releases it on bye, disconnect and discard.
BallCatcherIsConnectedGoalie ==
    ball_catcher # NoPlayer => enable[ball_catcher] /\ goalie[ball_catcher]

\* After a catch the goalie repositions at most goalie_max_moves times
\* (a further move is refused with too_many_moves).
GoalieMoveLimit ==
    GoalieMaxMoves >= 0 =>
        \A p \in Players : goalie_moves_since_catch[p] <= GoalieMaxMoves

\* Claimed by the spec (at-most-once application even of duplicate
\* messages): a goalie gets at most one catch_probability draw per cycle.
OneCatchDrawPerCycle == \A p \in Players : catch_draws[p] <= 1

\* Claimed by the spec (a kick rejected for the play mode returns without
\* effect): a v13 observer sees " k" only for a player whose kick or
\* tackle reached kickTaken() this cycle.
KickMarkerMeansKick ==
    \A p \in Players : Marker13(state[p]) = <<"k">> => kick_taken[p]

\* A discarded player stays off and is shown as discarded (DISCARD, which
\* resetState keeps every cycle) until its slot reconnects through init():
\* discard() sets the bit after disable() has reset M_state, and no other
\* handler reaches a discarded slot.
DiscardSticks ==
    \A p \in Players : discarded[p] => ~enable[p] /\ "DISCARD" \in state[p]
=============================================================================
