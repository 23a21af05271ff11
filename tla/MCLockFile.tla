----------------------------- MODULE MCLockFile -----------------------------
(***************************************************************************)
(* An instance of LockFile for TLC.                                        *)
(***************************************************************************)
EXTENDS LockFile

CONSTANTS d1, d2, d3
=============================================================================
