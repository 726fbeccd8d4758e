---------------------------- MODULE MCPresence ----------------------------
(***************************************************************************)
(* Model-checking instances of Presence.                                   *)
(***************************************************************************)
EXTENDS Presence, TLC

CONSTANTS i1, i2
=============================================================================
