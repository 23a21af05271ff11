--------------------------- MODULE LockFileProofs ---------------------------
(***************************************************************************)
(* Proofs about LockFile, for any number of processes, any clock and any   *)
(* stale age: the lock file of Windows is a lock, although it may look     *)
(* abandoned while it is held.                                             *)
(***************************************************************************)
EXTENDS LockFile, TLAPS

(* Whoever holds the lock has the file open, which is why nobody can       *)
(* remove it.                                                              *)
HeldIsOpen == \A p \in Holders : file.there /\ file.by = p

IInv == TypeOK /\ HeldIsOpen

USE LockFileAssumption

LEMMA InitIInv == Init => IInv
  BY DEF Init, IInv, TypeOK, HeldIsOpen, Holders, NoFile

LEMMA NextIInv == IInv /\ [Next]_vars => IInv'
<1> SUFFICES ASSUME IInv, [Next]_vars PROVE IInv'
  OBVIOUS
<1> USE DEF IInv, TypeOK, HeldIsOpen, Holders, Goto
<1>1. CASE Tick
  BY <1>1 DEF Tick
<1>2. ASSUME NEW p \in Processes, Start(p) PROVE IInv'
  BY <1>2 DEF Start
<1>3. ASSUME NEW p \in Processes, TryLock(p) PROVE IInv'
  <2>0. ASSUME NEW next \in {"looking", "refused"}, Create(p, next), UNCHANGED <<now, pipe>>,
               pc[p] \in {"creating", "retrying"}
        PROVE  IInv'
    <3>1. CASE file.there
      BY <2>0, <3>1 DEF Create
    <3>2. CASE ~file.there
      <4>1. file' = Written(p) /\ pc' = [pc EXCEPT ![p] = "locked"] /\ Holders = {}
        BY <2>0, <3>2 DEF Create
      <4>2. file' \in [there : BOOLEAN, by : Processes \union {Nobody}, at : 0 .. MaxTime]
        BY <4>1 DEF Written
      <4>3. TypeOK'
        BY <4>1, <4>2, <2>0
      <4>4. Holders' = {p}
        BY <4>1
      <4>5. HeldIsOpen'
        BY <4>1, <4>4 DEF Written
      <4> QED BY <4>3, <4>5
    <3> QED BY <3>1, <3>2
  <2>1. CASE FirstTry(p)
    BY <2>0, <2>1 DEF FirstTry
  <2>2. CASE Look(p)
    BY <2>2 DEF Look
  <2>3. CASE RemoveAbandoned(p)
    BY <2>3 DEF RemoveAbandoned, Removable, NoFile
  <2>4. CASE SecondTry(p)
    BY <2>0, <2>4 DEF SecondTry
  <2> QED BY <1>3, <2>1, <2>2, <2>3, <2>4 DEF TryLock
<1>4. ASSUME NEW p \in Processes, Run(p) PROVE IInv'
  <2>1. CASE Listen(p)
    BY <2>1 DEF Listen
  <2>2. CASE StopListening(p)
    BY <2>2 DEF StopListening
  <2>3. CASE CloseTransports(p)
    BY <2>3 DEF CloseTransports
  <2>4. CASE Close(p)
    BY <2>4 DEF Close
  <2>5. CASE RemoveOwn(p)
    BY <2>5 DEF RemoveOwn, Removable, NoFile
  <2> QED BY <1>4, <2>1, <2>2, <2>3, <2>4, <2>5 DEF Run
<1>5. ASSUME NEW p \in Processes, Crash(p) PROVE IInv'
  BY <1>5 DEF Crash, Over
<1>6. CASE UNCHANGED vars
  BY <1>6 DEF vars
<1> QED BY <1>1, <1>2, <1>3, <1>4, <1>5, <1>6 DEF Next

LEMMA AlwaysIInv == Spec => []IInv
<1> QED BY InitIInv, NextIInv, PTL DEF Spec

(* The lock's variables keep their ranges in every behaviour (tryLock and  *)
(* release in lock_windows.go, Run in daemon.go).                          *)
THEOREM TypeCorrect == Spec => []TypeOK
<1>1. IInv => TypeOK
  BY DEF IInv
<1> QED BY <1>1, AlwaysIInv, PTL

(* Every step of a process acquires the lock that nobody holds, gives it   *)
(* back, or does not change who holds it.                                  *)
LEMMA StepRefines == IInv /\ [Next]_vars => [Lock!Next]_Holders
<1> SUFFICES ASSUME IInv, [Next]_vars PROVE [Lock!Next]_Holders
  OBVIOUS
<1> USE DEF IInv, TypeOK, HeldIsOpen, Goto
<1>1. CASE Tick
  BY <1>1 DEF Tick, Holders
<1>2. ASSUME NEW p \in Processes, Start(p) PROVE UNCHANGED Holders
  BY <1>2 DEF Start, Holders
<1>3. ASSUME NEW p \in Processes, TryLock(p) PROVE [Lock!Next]_Holders
  <2>1. ASSUME NEW next \in {"looking", "refused"}, pc[p] \in {"creating", "retrying"},
               Create(p, next)
        PROVE  [Lock!Next]_Holders
    <3>1. CASE file.there
      BY <2>1, <3>1 DEF Create, Holders
    <3>2. CASE ~file.there
      <4>1. Holders = {} /\ Holders' = {p}
        BY <2>1, <3>2 DEF Create, Holders
      <4> QED BY <4>1 DEF Lock!Next, Lock!Acquire
    <3> QED BY <3>1, <3>2
  <2>2. CASE FirstTry(p)
    BY <2>1, <2>2 DEF FirstTry
  <2>3. CASE Look(p)
    BY <2>3 DEF Look, Holders
  <2>4. CASE RemoveAbandoned(p)
    BY <2>4 DEF RemoveAbandoned, Holders
  <2>5. CASE SecondTry(p)
    BY <2>1, <2>5 DEF SecondTry
  <2> QED BY <1>3, <2>2, <2>3, <2>4, <2>5 DEF TryLock
<1>4. ASSUME NEW p \in Processes, Run(p) PROVE [Lock!Next]_Holders
  <2>1. CASE Listen(p)
    BY <2>1 DEF Listen, Holders
  <2>2. CASE StopListening(p)
    BY <2>2 DEF StopListening, Holders
  <2>3. CASE CloseTransports(p)
    BY <2>3 DEF CloseTransports, Holders
  <2>4. CASE Close(p)
    <3>1. p \in Holders /\ Holders' = Holders \ {p}
      BY <2>4 DEF Close, Holders
    <3> QED BY <3>1 DEF Lock!Next, Lock!GiveUp
  <2>5. CASE RemoveOwn(p)
    BY <2>5 DEF RemoveOwn, Holders
  <2> QED BY <1>4, <2>1, <2>2, <2>3, <2>4, <2>5 DEF Run
<1>5. ASSUME NEW p \in Processes, Crash(p) PROVE [Lock!Next]_Holders
  <2>1. Holders' = Holders \ {p}
    BY <1>5 DEF Crash, Over, Holders
  <2>2. CASE p \in Holders
    BY <2>1, <2>2 DEF Lock!Next, Lock!GiveUp
  <2>3. CASE p \notin Holders
    BY <2>1, <2>3
  <2> QED BY <2>2, <2>3
<1>6. CASE UNCHANGED vars
  BY <1>6 DEF vars, Holders
<1> QED BY <1>1, <1>2, <1>3, <1>4, <1>5, <1>6 DEF Next

(* The lock of the daemon on Windows is the lock the daemon asks for: at   *)
(* most one process holds it, however old its file looks, and a process    *)
(* that dies gives it back (lock_windows.go: tryLock).                     *)
THEOREM Implementation == Spec => ImplementsLock
<1>1. Init => Lock!Init
  BY DEF Init, Lock!Init, Holders
<1> QED BY <1>1, AlwaysIInv, StepRefines, PTL DEF Spec, ImplementsLock, Lock!Spec
=============================================================================
