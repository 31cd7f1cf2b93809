-------------------------- MODULE SerializerMarkers --------------------------
(***************************************************************************)
(* The state markers that the versioned serializers append to a player's  *)
(* visual token list.  A player's M_state is a set of flag names; the      *)
(* empty set is DISABLE.  Only the marker logic is modelled: numbers and   *)
(* names are opaque tokens handed in by the caller.                        *)
(***************************************************************************)
EXTENDS Naturals, Sequences

\* Player::isTackling() and Player::kicked() read the TACKLE and KICK bits
\* of M_state (player.h is not part of the sources).
isTackling(s) == "TACKLE" \in s
kicked(s) == "KICK" \in s

\* SerializerPlayerStdv13::serializeVisualPlayer: " t" for a tackling
\* player, otherwise " k" for a player that kicked, otherwise nothing.
Marker13(s) ==
    IF isTackling(s) THEN <<"t">>
    ELSE IF kicked(s) THEN <<"k">>
    ELSE <<>>

\* SerializerCoachStdv8::serializeVisualPlayer: versions 8 to 12 only
\* know the tackle marker.
Marker8(s) == IF isTackling(s) THEN <<"t">> ELSE <<>>

\* The four SerializerPlayerStdv13::serializeVisualPlayer overloads: the
\* fields the see message has room for, then the marker.
VisualPlayer13(name, dist, dir, s) == <<name, dist, dir>> \o Marker13(s)
VisualPlayer13Point(name, dist, dir, point_dir, s) ==
    <<name, dist, dir, point_dir>> \o Marker13(s)
VisualPlayer13Change(name, dist, dir, dist_chg, dir_chg, body, head, s) ==
    <<name, dist, dir, dist_chg, dir_chg, body, head>> \o Marker13(s)
VisualPlayer13ChangePoint(name, dist, dir, dchg, dirchg, body, head, pdir, s) ==
    <<name, dist, dir, dchg, dirchg, body, head, pdir>> \o Marker13(s)

\* serializeFSPlayerState with the tackle test left out.
serializeFSPlayerStateKickOnly(s) == IF kicked(s) THEN <<"k">> ELSE <<>>

\* SerializerPlayerStdv13::serializeFSPlayerState: the same choice,
\* written out, for the full-state message.
serializeFSPlayerState(s) ==
    IF isTackling(s) THEN <<"t">>
    ELSE IF kicked(s) THEN <<"k">>
    ELSE <<>>

\* The two SerializerCoachStdv8::serializeVisualPlayer overloads
\* "(name x y vx vy body neck [point_dir] [t])".
VisualPlayerCoach8(name, x, y, vx, vy, body, neck, s) ==
    <<name, x, y, vx, vy, body, neck>> \o Marker8(s)
VisualPlayerCoach8Point(name, x, y, vx, vy, body, neck, point_dir, s) ==
    <<name, x, y, vx, vy, body, neck, point_dir>> \o Marker8(s)

\* What follows the first n tokens of a serialization.
MarkerAfter(seq, n) == SubSeq(seq, n + 1, Len(seq))

\* The markers a client of each version is shown for a player in state s,
\* one per serialization that describes the player (f: any field token).
Shown13(s) ==
    LET f == "f" IN
    { MarkerAfter(VisualPlayer13(f, f, f, s), 3),
      MarkerAfter(VisualPlayer13Point(f, f, f, f, s), 4),
      MarkerAfter(VisualPlayer13Change(f, f, f, f, f, f, f, s), 7),
      MarkerAfter(VisualPlayer13ChangePoint(f, f, f, f, f, f, f, f, s), 8),
      serializeFSPlayerState(s) }
ShownCoach8(s) ==
    LET f == "f" IN
    { MarkerAfter(VisualPlayerCoach8(f, f, f, f, f, f, f, s), 7),
      MarkerAfter(VisualPlayerCoach8Point(f, f, f, f, f, f, f, f, s), 8) }
=============================================================================
