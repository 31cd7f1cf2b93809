--------------------------- MODULE MCSynchBarrier ---------------------------
(***************************************************************************)
(* Two player slots and a coach.  Three Player::init calls let one slot   *)
(* connect, leave and come back while the other is connected, and let     *)
(* both be connected at once.                                              *)
(***************************************************************************)
EXTENDS SynchBarrier
=============================================================================
