------------------------------ MODULE LockFile -------------------------------
(***************************************************************************)
(* The lifetime lock and the endpoint of the daemon on Windows             *)
(* (internal/daemon/lock_windows.go, internal/ipc/endpoint_windows.go).    *)
(*                                                                         *)
(* The lock is a file made with O_EXCL and kept open by its holder.        *)
(* Windows does not delete it when the holder dies, so whoever finds one   *)
(* that looks abandoned may remove it; what Windows does refuse is to      *)
(* remove a file that a process has open.  The endpoint is a named pipe,   *)
(* which the kernel drops with its last handle.                            *)
(*                                                                         *)
(* A step is one system call.  A process runs the daemon once; the next    *)
(* attempt is another process.  Time advances in fractions of lockStale.   *)
(***************************************************************************)
EXTENDS Naturals

CONSTANTS
  Processes,  \* the daemons that are started
  Stale,      \* lockStale
  Nobody,     \* no process
  MaxTime     \* bound: when the clock stops

ASSUME LockFileAssumption ==
  /\ Stale \in Nat /\ MaxTime \in Nat
  /\ Nobody \notin Processes

VARIABLES
  now,   \* the clock of the file system
  pc,    \* where the Run of each process is
  file,  \* the lock file: who has it open, and when it was written
  pipe   \* the process that listens on the named pipe

vars == <<now, pc, file, pipe>>

NoFile    == [there |-> FALSE, by |-> Nobody, at |-> 0]
Written(p) == [there |-> TRUE, by |-> p, at |-> now]

Init ==
  /\ now = 0
  /\ pc = [p \in Processes |-> "off"]
  /\ file = NoFile
  /\ pipe = Nobody

Goto(p, there) == pc' = [pc EXCEPT ![p] = there]

-----------------------------------------------------------------------------
(* tryLock.                                                                *)

Start(p) ==
  /\ pc[p] = "off"
  /\ Goto(p, "creating")
  /\ UNCHANGED <<now, file, pipe>>

(* The process id where the time belongs. *)
CreateSwapped(p, next) ==
  IF file.there
  THEN Goto(p, next) /\ UNCHANGED file
  ELSE Goto(p, "locked") /\ file' = [there |-> TRUE, by |-> p, at |-> p]

(* OpenFile with O_EXCL, and the pid that is written into it. *)
Create(p, next) ==
  IF file.there
  THEN Goto(p, next) /\ UNCHANGED file
  ELSE Goto(p, "locked") /\ file' = Written(p)

FirstTry(p) == pc[p] = "creating" /\ Create(p, "looking") /\ UNCHANGED <<now, pipe>>

(* A file is only ever as old as the clock of the one who looks at it. *)
StaleNever(f) == ~f.there

(* stale; a file that has disappeared counts as abandoned. *)
LooksAbandoned(f) == ~f.there \/ now - f.at > Stale

Look(p) ==
  /\ pc[p] = "looking"
  /\ Goto(p, IF LooksAbandoned(file) THEN "removing" ELSE "refused")
  /\ UNCHANGED <<now, file, pipe>>

(* os.Remove fails on a file that a process has open. *)
Removable(f) == f.there /\ f.by = Nobody

(* A file that is already gone is no error. *)
RemoveAbandoned(p) ==
  /\ pc[p] = "removing"
  /\ file' = IF Removable(file) THEN NoFile ELSE file
  /\ Goto(p, IF file'.there THEN "refused" ELSE "retrying")
  /\ UNCHANGED <<now, pipe>>

(* Exactly one more attempt. *)
SecondTry(p) == pc[p] = "retrying" /\ Create(p, "refused") /\ UNCHANGED <<now, pipe>>

-----------------------------------------------------------------------------
(* Run, from the lock to the deferred calls.                               *)

(* Listen fails when another process has the pipe. *)
Listen(p) ==
  /\ pc[p] = "locked"
  /\ IF pipe = Nobody
     THEN pipe' = p /\ Goto(p, "polling")
     ELSE UNCHANGED pipe /\ Goto(p, "closing")
  /\ UNCHANGED <<now, file>>

(* The server closes its listener first, and then waits for the asks. *)
StopListening(p) ==
  /\ pc[p] = "polling"
  /\ pipe' = Nobody
  /\ Goto(p, "draining")
  /\ UNCHANGED <<now, file>>

CloseTransports(p) ==
  /\ pc[p] = "draining"
  /\ Goto(p, "closing")
  /\ UNCHANGED <<now, file, pipe>>

(* The lock given back while the asks still drain. *)
CloseEarly(p) ==
  /\ pc[p] \in {"draining", "closing"}
  /\ file' = IF file.by = p THEN [file EXCEPT !.by = Nobody] ELSE file
  /\ Goto(p, IF pc[p] = "closing" THEN "closed" ELSE "draining")
  /\ UNCHANGED <<now, pipe>>

(* release: the file is closed, and then removed unless somebody has it. *)
Close(p) ==
  /\ pc[p] = "closing"
  /\ file' = IF file.by = p THEN [file EXCEPT !.by = Nobody] ELSE file
  /\ Goto(p, "closed")
  /\ UNCHANGED <<now, pipe>>

RemoveOwn(p) ==
  /\ pc[p] = "closed"
  /\ file' = IF Removable(file) THEN NoFile ELSE file
  /\ Goto(p, "done")
  /\ UNCHANGED <<now, pipe>>

-----------------------------------------------------------------------------
Over(p) == pc[p] \in {"refused", "done", "dead"}

(* The process is killed, or one of its calls fails for a reason of its    *)
(* own: the system closes its handles, and a file that it made stays.      *)
Crash(p) ==
  /\ pc[p] # "off" /\ ~Over(p)
  /\ Goto(p, "dead")
  /\ file' = IF file.by = p THEN [file EXCEPT !.by = Nobody] ELSE file
  /\ pipe' = IF pipe = p THEN Nobody ELSE pipe
  /\ UNCHANGED now

Tick ==
  /\ now < MaxTime
  /\ now' = now + 1
  /\ UNCHANGED <<pc, file, pipe>>

TryLock(p) == FirstTry(p) \/ Look(p) \/ RemoveAbandoned(p) \/ SecondTry(p)
Run(p)     == Listen(p) \/ StopListening(p) \/ CloseTransports(p) \/ Close(p) \/ RemoveOwn(p)

Next ==
  \/ Tick
  \/ \E p \in Processes : Start(p) \/ TryLock(p) \/ Run(p) \/ Crash(p)

(* A process that tries to lock keeps running; when a daemon stops, if     *)
(* ever, is up to its users.                                               *)
Spec     == Init /\ [][Next]_vars
FairSpec == Spec /\ \A p \in Processes : WF_vars(TryLock(p))

-----------------------------------------------------------------------------
(* The type invariant: the ranges of the lock's state. *)
TypeOK ==
  /\ now \in 0 .. MaxTime
  /\ pc \in [Processes -> {"off", "creating", "looking", "removing", "retrying", "refused",
                           "locked", "polling", "draining", "closing", "closed", "done", "dead"}]
  /\ file \in [there : BOOLEAN, by : Processes \union {Nobody}, at : 0 .. MaxTime]
  /\ pipe \in Processes \union {Nobody}

(* The processes that tryLock told they have the lock, until they give it  *)
(* back.                                                                   *)
Holders == {p \in Processes : pc[p] \in {"locked", "polling", "draining", "closing"}}

(* The file is the lock the daemon needs: however old it looks, whoever    *)
(* races to remove it and whoever dies, at most one process holds it, and  *)
(* so at most one polls the messengers (lock_windows.go: tryLock).         *)
Lock == INSTANCE OneHolder WITH holders <- Holders

ImplementsLock == Lock!Spec

(* A lock file nobody holds, older than lockStale. *)
Abandoned == file.there /\ file.by = Nobody /\ now - file.at > Stale

(* A killed daemon does not block the next one for ever: whoever tries     *)
(* while its file is stale gets the lock, unless another process does, or  *)
(* dies in the attempt (lock_windows.go: lockStale).                       *)
AbandonedIsTaken ==
  \A p \in Processes :
    (Abandoned /\ pc[p] = "creating") ~> (Holders # {} \/ pc[p] = "dead")
=============================================================================
