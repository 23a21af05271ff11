----------------------------- MODULE MCDiscord ------------------------------
(***************************************************************************)
(* Instances of Discord for TLC.                                           *)
(***************************************************************************)
EXTENDS Discord, TLC

CONSTANTS q1, q2, click1, click2, message1

(* The clicks of the humans are interchangeable. *)
Symmetry == Permutations(Presses)
=============================================================================
