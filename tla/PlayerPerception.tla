-------------------------- MODULE PlayerPerception --------------------------
(***************************************************************************)
(* The perception settings of the players (src/src/player.cpp): view      *)
(* width, view quality, visible angle, visual-update period M_vis_send    *)
(* and the synchronised-see flag as change_view (both overloads) and      *)
(* synch_see set them, and the attention focus that attentionto resolves  *)
(* from a side selector or team name and a uniform number.  ear resolves  *)
(* a side the same way and calls setEar, which stores the hearing mode    *)
(* outside the sources: ear is the operator EarCall giving that call.     *)
(*                                                                         *)
(* Each view handler carries its own copy of the width table, as the code *)
(* does.  Angles are in units of DefAngle / 6 (defangle = visAngle()), so *)
(* every factor of the code (1/2, 2/3, 1, 4/3, 2) is a whole number.      *)
(***************************************************************************)
EXTENDS Integers, FiniteSets, Functions

CONSTANTS
    DefAngle,   \* ServerParam::visAngle(), in the module's angle unit
    Players,    \* the player slots of both teams
    side,       \* [Players -> {"left", "right"}]: Player::side()
    unum,       \* [Players -> Nat]: Player::unum()
    TeamNames,  \* [{"left", "right"} -> names]: Team::name()
    NoPlayer    \* no focus

ASSUME DefAngle \in Nat /\ DefAngle % 6 = 0
ASSUME NoPlayer \notin Players

Sides == {"left", "right"}
Widths == {"NARROW", "NORMAL", "WIDE"}
Qualities == {"HIGH", "LOW"}
\* rcss::pcom::TEAM selectors; "NAME" is a selector given by team name.
TeamSelectors == {"OUR", "OPP", "LEFT_SIDE", "RIGHT_SIDE", "NAME"}

\* Team::size(): the slots of a side.
TeamSize(s) == Cardinality({q \in Players : side[q] = s})

VARIABLES
    view_width,     \* M_view_width
    highquality,    \* M_highquality
    vis_angle,      \* M_vis_angle
    vis_send,       \* M_vis_send
    synch,          \* M_synch_see
    focus,          \* the player focusOn() was last given, or NoPlayer
    team_enabled    \* Team::enabled() of each side

view == <<view_width, highquality, vis_angle, vis_send, synch>>
vars == <<view, focus, team_enabled>>

(***************************************************************************)
(* Plausible faults of the code, each of which one property must catch.    *)
(***************************************************************************)
\* synch_see() without M_highquality = true.
synch_seeKeepQuality(p) ==
    /\ synch' = [synch EXCEPT ![p] = TRUE]
    /\ vis_angle' = [vis_angle EXCEPT ![p] =
                        CASE view_width[p] = "NARROW" -> (DefAngle * 2) \div 3
                          [] view_width[p] = "NORMAL" -> (DefAngle * 4) \div 3
                          [] view_width[p] = "WIDE"   -> (DefAngle * 6) \div 3]
    /\ vis_send' = [vis_send EXCEPT ![p] =
                        CASE view_width[p] = "NARROW" -> 1
                          [] view_width[p] = "NORMAL" -> 2
                          [] view_width[p] = "WIDE"   -> 3]
    /\ UNCHANGED <<view_width, highquality, focus, team_enabled>>

(***************************************************************************)
(* The width tables of change_view: angle and period for a width in the   *)
(* normal (s = FALSE) and the synchronised see mode.                      *)
(***************************************************************************)
WidthAngle(w, s) ==
    IF ~s THEN CASE w = "NARROW" -> DefAngle \div 2
                 [] w = "NORMAL" -> DefAngle
                 [] w = "WIDE"   -> DefAngle * 2
          ELSE CASE w = "NARROW" -> (DefAngle * 2) \div 3
                 [] w = "NORMAL" -> (DefAngle * 4) \div 3
                 [] w = "WIDE"   -> (DefAngle * 6) \div 3

WidthSend(w, s) ==
    IF ~s THEN CASE w = "NARROW" -> 2 [] w = "NORMAL" -> 4 [] w = "WIDE" -> 8
          ELSE CASE w = "NARROW" -> 1 [] w = "NORMAL" -> 2 [] w = "WIDE" -> 3

\* LOW quality halves the integer period.
LowSend(send) == send \div 2

\* change_view() without the refusal of LOW quality in synch mode.
change_viewNoSynchGuard(p, w, q) ==
    /\ view_width' = [view_width EXCEPT ![p] = w]
    /\ vis_angle' = [vis_angle EXCEPT ![p] = WidthAngle(w, synch[p])]
    /\ vis_send' = [vis_send EXCEPT ![p] =
                       IF q = "HIGH" THEN WidthSend(w, synch[p])
                       ELSE LowSend(WidthSend(w, synch[p]))]
    /\ highquality' = [highquality EXCEPT ![p] = (q = "HIGH")]
    /\ UNCHANGED <<synch, focus, team_enabled>>

(***************************************************************************)
(* Player::change_view(width, quality).  In synch mode anything but HIGH  *)
(* is refused up front, so the LOW branch's own synch return is dead.     *)
(***************************************************************************)
change_view(p, w, q) ==
    /\ ~(synch[p] /\ q # "HIGH")
    /\ view_width' = [view_width EXCEPT ![p] = w]
    /\ vis_angle' = [vis_angle EXCEPT ![p] = WidthAngle(w, synch[p])]
    /\ vis_send' = [vis_send EXCEPT ![p] =
                       IF q = "HIGH" THEN WidthSend(w, synch[p])
                       ELSE LowSend(WidthSend(w, synch[p]))]
    /\ highquality' = [highquality EXCEPT ![p] = (q = "HIGH")]
    /\ UNCHANGED <<synch, focus, team_enabled>>

\* Player::change_view(width): the overload without a quality.
change_view_width(p, w) ==
    /\ view_width' = [view_width EXCEPT ![p] = w]
    /\ vis_angle' = [vis_angle EXCEPT ![p] = WidthAngle(w, synch[p])]
    /\ vis_send' = [vis_send EXCEPT ![p] = WidthSend(w, synch[p])]
    /\ highquality' = [highquality EXCEPT ![p] = TRUE]
    /\ UNCHANGED <<synch, focus, team_enabled>>

\* Player::synch_see: its own copy of the synchronised table, applied to
\* the current width; switches to high quality.
synch_see(p) ==
    /\ synch' = [synch EXCEPT ![p] = TRUE]
    /\ vis_angle' = [vis_angle EXCEPT ![p] =
                        CASE view_width[p] = "NARROW" -> (DefAngle * 2) \div 3
                          [] view_width[p] = "NORMAL" -> (DefAngle * 4) \div 3
                          [] view_width[p] = "WIDE"   -> (DefAngle * 6) \div 3]
    /\ vis_send' = [vis_send EXCEPT ![p] =
                        CASE view_width[p] = "NARROW" -> 1
                          [] view_width[p] = "NORMAL" -> 2
                          [] view_width[p] = "WIDE"   -> 3]
    /\ highquality' = [highquality EXCEPT ![p] = TRUE]
    /\ UNCHANGED <<view_width, focus, team_enabled>>

(***************************************************************************)
(* Player::attentionto.                                                    *)
(***************************************************************************)
Other(s) == IF s = "left" THEN "right" ELSE "left"

\* The team a selector names: OUR, OPP, a side, or a team name matched
\* against the left team first; NoSide when the name matches neither.
NoSide == "none"
AtTeam(p, sel, name) ==
    CASE sel = "OUR"        -> side[p]
      [] sel = "OPP"        -> Other(side[p])
      [] sel = "LEFT_SIDE"  -> "left"
      [] sel = "RIGHT_SIDE" -> "right"
      [] name = TeamNames["left"]  -> "left"
      [] name = TeamNames["right"] -> "right"
      [] OTHER -> NoSide

\* The slot at_team->player(at_unum - 1): a team keeps its players in
\* uniform-number order.
PlayerAt(s, u) == CHOOSE q \in Players : side[q] = s /\ unum[q] = u

\* on = FALSE turns the focus off; otherwise the target must be on an
\* enabled team, have a uniform number within the team's size and not be
\* the sender; each failed test returns without a change.
attentionto(p, on, sel, name, u) ==
    /\ IF ~on
       THEN focus' = [focus EXCEPT ![p] = NoPlayer]
       ELSE LET s == AtTeam(p, sel, name) IN
            /\ s # NoSide
            /\ team_enabled[s]
            /\ 1 <= u /\ u <= TeamSize(s)
            /\ ~(s = side[p] /\ u = unum[p])
            /\ focus' = [focus EXCEPT ![p] = PlayerAt(s, u)]
    /\ UNCHANGED <<view, team_enabled>>

(***************************************************************************)
(* Player::ear.                                                            *)
(***************************************************************************)
\* rcss::pcom::EAR_MODE; "ALL" is the mode given as neither.
EarModes == {"PARTIAL", "COMPLETE", "ALL"}
Neutral == "neutral"

\* ear() resolving OPP as the player's own side.
EarSideOwnOpp(p, sel, name) ==
    CASE sel = "OUR"        -> side[p]
      [] sel = "OPP"        -> side[p]
      [] sel = "LEFT_SIDE"  -> "left"
      [] sel = "RIGHT_SIDE" -> "right"
      [] name = "" -> Neutral
      [] name = TeamNames["left"]  -> "left"
      [] name = TeamNames["right"] -> "right"
      [] OTHER -> NoSide

\* ear's own side resolution: OUR, OPP (-side()), a side, NEUTRAL for an
\* empty team name, else the name matched against the left team first;
\* NoSide for an unknown name.
EarSide(p, sel, name) ==
    CASE sel = "OUR"        -> side[p]
      [] sel = "OPP"        -> Other(side[p])
      [] sel = "LEFT_SIDE"  -> "left"
      [] sel = "RIGHT_SIDE" -> "right"
      [] name = "" -> Neutral
      [] name = TeamNames["left"]  -> "left"
      [] name = TeamNames["right"] -> "right"
      [] OTHER -> NoSide

\* Player::ear: an unknown team name is answered with an error and no
\* call (the empty set); otherwise PARTIAL clears complete, COMPLETE clears
\* partial, and setEar(on, side, complete, partial) is called.
EarCall(p, on, sel, name, mode) ==
    IF EarSide(p, sel, name) = NoSide THEN {}
    ELSE {[on |-> on, side |-> EarSide(p, sel, name),
           complete |-> mode # "PARTIAL", partial |-> mode # "COMPLETE"]}

\* A team connects its first player or loses its last one (Team::enabled
\* is kept by the team code, outside the sources).
setTeamEnabled(s, b) ==
    /\ team_enabled' = [team_enabled EXCEPT ![s] = b]
    /\ UNCHANGED <<view, focus>>

(***************************************************************************)
(* Specification.  The constructor: NORMAL width, high quality, visAngle, *)
(* a period of 4, not synchronised, no focus.                             *)
(***************************************************************************)
Init ==
    /\ view_width = [p \in Players |-> "NORMAL"]
    /\ highquality = [p \in Players |-> TRUE]
    /\ vis_angle = [p \in Players |-> DefAngle]
    /\ vis_send = [p \in Players |-> 4]
    /\ synch = [p \in Players |-> FALSE]
    /\ focus = [p \in Players |-> NoPlayer]
    /\ team_enabled = [s \in Sides |-> FALSE]

Next ==
    \/ \E p \in Players :
          \/ \E w \in Widths, q \in Qualities : change_view(p, w, q)
          \/ \E w \in Widths : change_view_width(p, w)
          \/ synch_see(p)
          \/ \E on \in BOOLEAN, sel \in TeamSelectors,
               name \in Range(TeamNames) \cup {"unknown"},
               u \in 0..(TeamSize("left") + 1) :
                attentionto(p, on, sel, name, u)
    \/ \E s \in Sides, b \in BOOLEAN : setTeamEnabled(s, b)

Spec == Init /\ [][Next]_vars

(***************************************************************************)
(* Properties.                                                             *)
(***************************************************************************)
TypeOK ==
    /\ view_width \in [Players -> Widths]
    /\ highquality \in [Players -> BOOLEAN]
    /\ vis_angle \in [Players -> Nat]
    /\ vis_send \in [Players -> 1..8]
    /\ synch \in [Players -> BOOLEAN]
    /\ focus \in [Players -> Players \cup {NoPlayer}]
    /\ team_enabled \in [Sides -> BOOLEAN]

\* The three copies of the width table agree: whatever order change_view
\* (with either quality, either overload) and synch_see are sent in, the
\* visible angle and the visual period are the ones the current width,
\* see mode and quality call for, and a synchronised player is never in
\* low quality (its LOW requests are refused, synch_see resets quality).
ViewConsistent ==
    \A p \in Players :
        /\ vis_angle[p] = WidthAngle(view_width[p], synch[p])
        /\ vis_send[p] = IF highquality[p] THEN WidthSend(view_width[p], synch[p])
                         ELSE LowSend(WidthSend(view_width[p], synch[p]))
        /\ synch[p] => highquality[p]

\* ear and attentionto keep separate copies of the selector resolution.
\* Whenever attentionto would accept the team a selector and name give
\* (the team is known and enabled), the setEar call that ear makes for the
\* same selector and name, in any mode, names that team (OPP the other
\* side, a name the team that bears it).  Otherwise ear makes no call for
\* an unknown name and calls setEar with NEUTRAL for the empty one.
\* Every call asks for partial or complete hearing.
EarSideAsAttention ==
    \A p \in Players, on \in BOOLEAN, sel \in TeamSelectors, mode \in EarModes,
      name \in Range(TeamNames) \cup {"unknown", ""} :
        LET at == AtTeam(p, sel, name)
            call == EarCall(p, on, sel, name, mode)
        IN /\ at # NoSide /\ team_enabled[at] => \A c \in call : c.side = at
           /\ at = NoSide => /\ (call = {}) = (name # "")
                            /\ \A c \in call : c.side = Neutral
           /\ \A c \in call : c.complete \/ c.partial
=============================================================================
