--------------------------- MODULE MCPlayerCommand ---------------------------
(***************************************************************************)
(* Model-checking instance of PlayerCommand: one player slot, and one     *)
(* play mode of each class the handlers tell apart.                        *)
(***************************************************************************)
EXTENDS PlayerCommand

\* PlayOn: everything allowed; BeforeKickOff: kicks and tackle force
\* banned, free moves; CatchFault_Left: kicks banned, tackle force
\* allowed; FreeKick_Left: the ball catcher may move; PenaltyTaken_Left: a
\* penalty shoot-out mode, the only other mode in which a goalie catches.
MCPlayModes == {"PlayOn", "BeforeKickOff", "CatchFault_Left",
                "FreeKick_Left", "PenaltyTaken_Left"}
MCPenaltyModes == {"PenaltyTaken_Left"}

\* 13 has a serializer; 20 stands for a version with none.
MCVersions == {13, 20}
MCSerializerVersions == {13}
=============================================================================
