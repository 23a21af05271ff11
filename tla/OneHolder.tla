------------------------------ MODULE OneHolder ------------------------------
(***************************************************************************)
(* What the daemon asks of its lifetime lock, on every platform: at most   *)
(* one process holds it, and a process that dies gives it back.            *)
(***************************************************************************)
CONSTANT Processes

VARIABLE holders  \* the processes that hold the lock

Init == holders = {}

Acquire(p) == holders = {} /\ holders' = {p}

(* Released or died. *)
GiveUp(p) == p \in holders /\ holders' = holders \ {p}

Next == \E p \in Processes : Acquire(p) \/ GiveUp(p)

Spec == Init /\ [][Next]_holders
=============================================================================
