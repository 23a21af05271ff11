------------------------------ MODULE MCBroker ------------------------------
(***************************************************************************)
(* Instances of Broker for TLC.                                            *)
(***************************************************************************)
EXTENDS Broker, TLC

CONSTANTS q1, q2, q3, telegram, discord, click1, click2, cancel1, cancel2

(* The questions with a timeout are interchangeable. *)
TimedSymmetry == Permutations(Timed)
=============================================================================
