-------------------------- MODULE MCPlayerSenders --------------------------
(***************************************************************************)
(* Two player slots; versions 7, 8, 9 and 13.  Version 13 has every       *)
(* sender; version 8 has a serializer and the first three senders but no  *)
(* full-state sender, and version 9 lacks only the audio sender, so       *)
(* setSenders stops part-way at different places; version 7 has senders   *)
(* but no serializer, so setSenders stops before installing any.          *)
(***************************************************************************)
EXTENDS PlayerSenders, TLC

MCVersions == {7, 8, 9, 13}
MCSerializerVersions == {8, 9, 13}
MCCreators ==
    [k \in Kinds |-> CASE k = "fullstate" -> {9, 13}
                       [] k = "audio" -> {7, 8, 13}
                       [] OTHER -> {7, 8, 9, 13}]
=============================================================================
