----------------------------- MODULE MCPresence -----------------------------
(***************************************************************************)
(* An instance of Presence for TLC.                                        *)
(***************************************************************************)
EXTENDS Presence

CONSTANTS i1
=============================================================================
