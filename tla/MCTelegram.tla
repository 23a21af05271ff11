----------------------------- MODULE MCTelegram -----------------------------
(***************************************************************************)
(* The instance of Telegram for TLC.                                       *)
(***************************************************************************)
EXTENDS Telegram

CONSTANTS q1, q2, press1, message1
=============================================================================
