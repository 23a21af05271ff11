------------------------------ MODULE MCDaemon ------------------------------
(***************************************************************************)
(* Instances of Daemon for TLC.                                            *)
(***************************************************************************)
EXTENDS Daemon, TLC

CONSTANTS d1, d2, d3, c1, c2, c3

Symmetry == Permutations(Daemons) \union Permutations(Clients)
=============================================================================
