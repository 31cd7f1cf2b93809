--------------------------- MODULE PlayerSenders ---------------------------
(***************************************************************************)
(* The handshake of the player slots of src/src/player.cpp with the       *)
(* senders it installs: Player::init stores the client's version, enables *)
(* the slot and calls setSenders, which looks up the serializer and then  *)
(* the body, visual, init, full-state and audio sender creators for that  *)
(* version one after the other, installing each sender as it goes and    *)
(* returning false at the first creator that is missing; init then        *)
(* disables the slot.  Player::disable (on bye, discard or a lost         *)
(* connection) clears the enable flag and leaves the senders in place.    *)
(*                                                                         *)
(* The factories' registrations are outside the sources; which version    *)
(* has which creator is the constant Creators.  A sender is represented   *)
(* by the version it was created for.                                     *)
(***************************************************************************)
EXTENDS Integers, Sequences

CONSTANTS
    Players,            \* the player slots
    Versions,           \* protocol versions a client may ask for
    InitVersion,        \* M_version of a fresh Player (3.0)
    NoSender,           \* an observer with no sender yet
    SerializerVersions, \* versions SerializerPlayer::factory() knows
    Creators            \* [Kinds -> SUBSET Versions]: sender factories

\* The senders in the order setSenders installs them.
SenderOrder == <<"body", "visual", "init", "fullstate", "audio">>
Kinds == {SenderOrder[i] : i \in 1..Len(SenderOrder)}

ASSUME Creators \in [Kinds -> SUBSET Versions]

VARIABLES
    enable,     \* M_enable of each slot
    version,    \* M_version of each slot
    sender      \* the sender each observer of each slot holds

vars == <<enable, version, sender>>

(***************************************************************************)
(* Player::setSenders for version v.                                       *)
(***************************************************************************)
\* The position of the first sender whose creator is missing, or one past
\* the last when all are there.
FirstMissing(v) ==
    LET missing == {i \in 1..Len(SenderOrder) : v \notin Creators[SenderOrder[i]]}
    IN IF missing = {} THEN Len(SenderOrder) + 1
       ELSE CHOOSE i \in missing : \A j \in missing : i <= j

\* The senders after the call: none replaced when the serializer is
\* missing, otherwise those before the first missing creator.
InstalledSenders(old, v) ==
    [k \in Kinds |->
        IF /\ v \in SerializerVersions
           /\ \E i \in 1..(FirstMissing(v) - 1) : SenderOrder[i] = k
        THEN v
        ELSE old[k]]

\* setSenders reporting success once the serializer is found, as if the
\* sender lookups after it had no return false.
setSendersSerializerOnly(v) == v \in SerializerVersions

\* setSenders' result.
setSenders(v) ==
    /\ v \in SerializerVersions
    /\ FirstMissing(v) > Len(SenderOrder)

(***************************************************************************)
(* Handlers.                                                               *)
(***************************************************************************)
\* Player::init: store the version, setEnable, then setSenders; on its
\* failure disable the slot again.
init(p, v) ==
    /\ version' = [version EXCEPT ![p] = v]
    /\ enable' = [enable EXCEPT ![p] = setSenders(v)]
    /\ sender' = [sender EXCEPT ![p] = InstalledSenders(sender[p], v)]

\* Player::disable
disable(p) ==
    /\ enable' = [enable EXCEPT ![p] = FALSE]
    /\ UNCHANGED <<version, sender>>

(***************************************************************************)
(* Specification.  The constructor: disabled, version 3.0, observers       *)
(* without senders.                                                        *)
(***************************************************************************)
Init ==
    /\ enable = [p \in Players |-> FALSE]
    /\ version = [p \in Players |-> InitVersion]
    /\ sender = [p \in Players |-> [k \in Kinds |-> NoSender]]

Next ==
    \E p \in Players :
        \/ \E v \in Versions : init(p, v)
        \/ disable(p)

Spec == Init /\ [][Next]_vars

(***************************************************************************)
(* Properties.                                                             *)
(***************************************************************************)
\* Every sender of an enabled slot speaks the slot's version: after a
\* reconnection with a version for which setSenders stops part-way, the
\* senders installed before the stop and those left from the previous
\* connection differ, and only init's disable() keeps them from being used.
SendersMatchVersion ==
    \A p \in Players : enable[p] => \A k \in Kinds : sender[p][k] = version[p]
=============================================================================
