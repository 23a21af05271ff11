------------------------------- MODULE Daemon -------------------------------
(***************************************************************************)
(* One resident daemon per machine: internal/daemon/daemon.go and          *)
(* ensure.go, with the socket of internal/ipc and the flock of             *)
(* lock_unix.go.  Any number of CLI processes start daemons on demand;     *)
(* daemons are told to stop, fail to start, or are killed at any step.     *)
(*                                                                         *)
(* A step is one system call on the lock files or the socket file, or a    *)
(* stretch of code between two of them.                                    *)
(***************************************************************************)
EXTENDS Naturals, FiniteSets

CONSTANTS
  Daemons,   \* the serve processes that may be spawned
  Clients,   \* the CLI processes that need a daemon
  Nobody,    \* no process
  MaxKills   \* bound: how many daemons may be killed

ASSUME DaemonAssumption ==
  /\ Nobody \notin Daemons \union Clients
  /\ MaxKills \in Nat

VARIABLES
  pc,         \* where each daemon's Run is
  lock,       \* who holds the lifetime lock
  path,       \* the daemon that bound the socket file, if there is one
  listening,  \* the daemons whose listener is open
  polling,    \* the daemons whose transports are up
  failures,   \* how many fatal lines the daemon log holds
  kills,      \* how many daemons were killed
  at,         \* where each CLI process is
  spawnLock,  \* who holds the spawn lock
  child,      \* the daemon each CLI process spawned
  baseline,   \* how long the log was before that
  server      \* the daemon each CLI process is connected to

daemonVars == <<pc, lock, path, listening, polling, failures>>
clientVars == <<at, spawnLock, child, baseline, server>>
vars == <<pc, lock, path, listening, polling, failures, kills, at, spawnLock,
          child, baseline, server>>

Alive(d) == pc[d] \notin {"none", "redundant", "exited", "killed"}

(* ipc.Probe: somebody accepts connections on the socket file. *)
Reachable == path # Nobody /\ path \in listening

Init ==
  /\ pc = [d \in Daemons |-> "none"]
  /\ lock = Nobody /\ path = Nobody
  /\ listening = {} /\ polling = {}
  /\ failures = 0 /\ kills = 0
  /\ at = [c \in Clients |-> "idle"]
  /\ spawnLock = Nobody
  /\ child = [c \in Clients |-> Nobody]
  /\ baseline = [c \in Clients |-> 0]
  /\ server = [c \in Clients |-> Nobody]

-----------------------------------------------------------------------------
(* Run: the start.                                                         *)

Goto(d, there) == pc' = [pc EXCEPT ![d] = there]

(* The socket is the arbiter: no lock is taken. *)
TakeNoLock(d) ==
  /\ pc[d] = "spawned"
  /\ Goto(d, "locked")
  /\ UNCHANGED <<lock, path, listening, polling, failures, kills>>
  /\ UNCHANGED clientVars

(* The last words of a Run that fails: one fatal line in the log. *)
Fail(d, there) ==
  /\ failures' = failures + 1
  /\ Goto(d, there)

(* tryLock: a daemon that finds the lock taken exits quietly, and one that *)
(* cannot tell, for want of a directory or of the file, fails.             *)
TakeLock(d) ==
  /\ pc[d] = "spawned"
  /\ \/ lock = Nobody /\ lock' = d /\ Goto(d, "locked") /\ UNCHANGED failures
     \/ lock # Nobody /\ Goto(d, "redundant") /\ UNCHANGED <<lock, failures>>
     \/ Fail(d, "exited") /\ UNCHANGED lock
  /\ UNCHANGED <<path, listening, polling, kills>>
  /\ UNCHANGED clientVars

(* ipc.Listen: bind; when the file exists, probe it; a live one means that *)
(* another daemon runs, a stale one is removed before the second bind.     *)
(* Any of these calls may fail, and so does Run.                           *)
Bind(d) ==
  /\ pc[d] \in {"locked", "cleared"}
  /\ \/ /\ path = Nobody
        /\ path' = d
        /\ listening' = listening \union {d}
        /\ Goto(d, "bound")
        /\ UNCHANGED failures
     \/ /\ pc[d] = "locked" /\ path # Nobody
        /\ IF Reachable THEN UNCHANGED path /\ Goto(d, "unlocking")
           ELSE path' = Nobody /\ Goto(d, "cleared")
        /\ UNCHANGED <<listening, failures>>
     \/ Fail(d, "unlocking") /\ UNCHANGED <<path, listening>>
  /\ UNCHANGED <<lock, polling, kills>>
  /\ UNCHANGED clientVars

(* startTransports: all, some or none of the messengers come up.  Each     *)
(* failure is a fatal line in the log; without a messenger Run unwinds.    *)
StartTransports(d, up) ==
  /\ pc[d] = "bound"
  /\ up \in {"all", "some", "none"}
  /\ polling' = IF up = "none" THEN polling ELSE polling \union {d}
  /\ failures' = IF up = "all" THEN failures ELSE failures + 1
  /\ Goto(d, IF up = "none" THEN "closed" ELSE "serving")
  /\ UNCHANGED <<lock, path, listening, kills>>
  /\ UNCHANGED clientVars

-----------------------------------------------------------------------------
(* Run: the end.  The deferred calls run last in, first out.               *)

(* A signal, a shutdown request or the idle watchdog cancels runCtx. *)
Stop(d) ==
  /\ pc[d] = "serving"
  /\ Goto(d, "stopping")
  /\ UNCHANGED <<lock, path, listening, polling, failures, kills>>
  /\ UNCHANGED clientVars

(* Closing a Unix listener removes its file, whoever's it is by now. *)
Unlink(d) ==
  /\ path' = Nobody
  /\ listening' = listening \ {d}

(* Serve closes the listener and accepts no more. *)
CloseListener(d) ==
  /\ pc[d] = "stopping"
  /\ Unlink(d)
  /\ Goto(d, "draining")
  /\ UNCHANGED <<lock, polling, failures, kills>>
  /\ UNCHANGED clientVars

(* A Serve that does not wait. *)
DrainAtOnce(d) ==
  /\ pc[d] = "draining"
  /\ Goto(d, "drained")
  /\ UNCHANGED <<lock, path, listening, polling, failures, kills>>
  /\ UNCHANGED clientVars

(* Serve waits for every connection it accepted. *)
Drain(d) ==
  /\ pc[d] = "draining"
  /\ \A c \in Clients : ~(at[c] = "served" /\ server[c] = d)
  /\ Goto(d, "drained")
  /\ UNCHANGED <<lock, path, listening, polling, failures, kills>>
  /\ UNCHANGED clientVars

CloseTransports(d) ==
  /\ pc[d] = "drained"
  /\ polling' = polling \ {d}
  /\ Goto(d, "closed")
  /\ UNCHANGED <<lock, path, listening, failures, kills>>
  /\ UNCHANGED clientVars

(* The lock released before the socket file is removed. *)
RemoveEndpointUnlocked(d) ==
  /\ pc[d] = "closed"
  /\ lock' = IF lock = d THEN Nobody ELSE lock
  /\ IF lock = d THEN UNCHANGED <<path, listening, pc>>
                 ELSE Unlink(d) /\ Goto(d, "unlocking")
  /\ UNCHANGED <<polling, failures, kills>>
  /\ UNCHANGED clientVars

(* A listener that leaves its file behind. *)
KeepEndpoint(d) ==
  /\ pc[d] = "closed"
  /\ listening' = listening \ {d}
  /\ Goto(d, "unlocking")
  /\ UNCHANGED <<lock, path, polling, failures, kills>>
  /\ UNCHANGED clientVars

(* listener.Close and removeEndpoint *)
RemoveEndpoint(d) ==
  /\ pc[d] = "closed"
  /\ Unlink(d)
  /\ Goto(d, "unlocking")
  /\ UNCHANGED <<lock, polling, failures, kills>>
  /\ UNCHANGED clientVars

ReleaseLock(d) ==
  /\ pc[d] = "unlocking"
  /\ lock' = IF lock = d THEN Nobody ELSE lock
  /\ Goto(d, "exited")
  /\ UNCHANGED <<path, listening, polling, failures, kills>>
  /\ UNCHANGED clientVars

(* The kernel closes what a killed process held; the socket file stays. *)
Kill(d) ==
  /\ Alive(d)
  /\ kills < MaxKills
  /\ kills' = kills + 1
  /\ Goto(d, "killed")
  /\ lock' = IF lock = d THEN Nobody ELSE lock
  /\ listening' = listening \ {d}
  /\ polling' = polling \ {d}
  /\ UNCHANGED <<path, failures>>
  /\ UNCHANGED clientVars

-----------------------------------------------------------------------------
(* EnsureRunning.                                                          *)

Move(c, there) == at' = [at EXCEPT ![c] = there]

Probe(c) ==
  /\ at[c] = "idle"
  /\ Move(c, IF Reachable THEN "ready" ELSE "locking")
  /\ UNCHANGED <<kills, spawnLock, child, baseline, server>>
  /\ UNCHANGED daemonVars

(* One lock file for both purposes. *)
LockLifetimeForSpawn(c, broken) ==
  /\ at[c] = "locking"
  /\ lock' = IF ~broken /\ lock = Nobody THEN c ELSE lock
  /\ Move(c, IF broken \/ lock = Nobody THEN "spawning" ELSE "waiting")
  /\ baseline' = [baseline EXCEPT ![c] = failures]
  /\ UNCHANGED <<pc, path, listening, polling, failures, kills, spawnLock, child, server>>

(* lockForSpawn.  A lock that is broken, rather than held, is no reason    *)
(* not to spawn.  The length of the log is read afterwards.                *)
LockForSpawn(c, broken) ==
  /\ at[c] = "locking"
  /\ spawnLock' = IF ~broken /\ spawnLock = Nobody THEN c ELSE spawnLock
  /\ Move(c, IF broken \/ spawnLock = Nobody THEN "spawning" ELSE "waiting")
  /\ baseline' = [baseline EXCEPT ![c] = failures]
  /\ UNCHANGED <<kills, child, server>>
  /\ UNCHANGED daemonVars

Spawn(c, d) ==
  /\ at[c] = "spawning"
  /\ pc[d] = "none"
  /\ Goto(d, "spawned")
  /\ child' = [child EXCEPT ![c] = d]
  /\ Move(c, "waiting")
  /\ UNCHANGED <<lock, path, listening, polling, failures, kills, spawnLock, baseline, server>>

(* EnsureRunning returns: the deferred release. *)
Return(c, outcome) ==
  /\ Move(c, outcome)
  /\ spawnLock' = IF spawnLock = c THEN Nobody ELSE spawnLock
  /\ child' = [child EXCEPT ![c] = Nobody]
  /\ baseline' = [baseline EXCEPT ![c] = 0]
  /\ UNCHANGED <<kills, server>>
  /\ UNCHANGED daemonVars

(* waitForDaemon looks at the socket first, then at the log, then at the   *)
(* clock. *)
Poll(c) ==
  /\ at[c] = "waiting"
  /\ \/ Reachable /\ Return(c, "ready")
     \/ ~Reachable /\ failures > baseline[c] /\ Return(c, "failed")
     \/ ~Reachable /\ failures = baseline[c] /\ Return(c, "timeout")

(* Ctrl-C; the kernel releases the lock of a CLI that dies. *)
Interrupt(c) ==
  /\ at[c] \in {"locking", "spawning", "waiting"}
  /\ Return(c, "interrupted")

-----------------------------------------------------------------------------
(* One ask over the socket.                                                *)

Dial(c) ==
  /\ at[c] = "ready"
  /\ IF Reachable THEN Move(c, "dialed") /\ server' = [server EXCEPT ![c] = path]
                  ELSE Move(c, "refused") /\ UNCHANGED server
  /\ UNCHANGED <<kills, spawnLock, child, baseline>>
  /\ UNCHANGED daemonVars

(* The CLI process ends with an outcome. *)
Ends(c, outcome) ==
  /\ Move(c, outcome)
  /\ server' = [server EXCEPT ![c] = Nobody]
  /\ UNCHANGED <<kills, spawnLock, child, baseline>>
  /\ UNCHANGED daemonVars

(* A daemon accepts only once its transports are up. *)
Accept(c) ==
  /\ at[c] = "dialed"
  /\ pc[server[c]] = "serving"
  /\ Move(c, "served")
  /\ UNCHANGED <<kills, spawnLock, child, baseline, server>>
  /\ UNCHANGED daemonVars

(* An ask that only a human ends. *)
ReplyWhenAnswered(c) ==
  /\ at[c] = "served"
  /\ pc[server[c]] = "serving"
  /\ Ends(c, "answered")

(* The human answers, or the client goes away; while the daemon stops, the *)
(* question is canceled and settled.                                       *)
Reply(c) ==
  /\ at[c] = "served"
  /\ Alive(server[c])
  /\ Ends(c, IF pc[server[c]] = "serving" THEN "answered" ELSE "canceled")

(* The connection drops: it was never accepted, or the daemon died. *)
Reset(c) ==
  /\ at[c] \in {"dialed", "served"}
  /\ server[c] \notin listening
  /\ at[c] = "served" => ~Alive(server[c])
  /\ Ends(c, "reset")

-----------------------------------------------------------------------------
StartStep(d) ==
  TakeLock(d) \/ Bind(d) \/ \E up \in {"all", "some", "none"} : StartTransports(d, up)

EndStep(d) ==
  \/ CloseListener(d) \/ Drain(d) \/ CloseTransports(d)
  \/ RemoveEndpoint(d) \/ ReleaseLock(d)

EnsureStep(c) ==
  \/ Probe(c) \/ Poll(c)
  \/ \E broken \in BOOLEAN : LockForSpawn(c, broken)
  \/ \E d \in Daemons : Spawn(c, d)

AskStep(c) == Dial(c) \/ Accept(c) \/ Reply(c) \/ Reset(c)

Next ==
  \/ \E d \in Daemons : StartStep(d) \/ Stop(d) \/ EndStep(d) \/ Kill(d)
  \/ \E c \in Clients : EnsureStep(c) \/ Interrupt(c) \/ AskStep(c)

Spec == Init /\ [][Next]_vars

(* A daemon runs on until it is killed, its transports start or fail, and  *)
(* an ask whose context is canceled returns.  Nobody has to stop a daemon. *)
Fairness ==
  /\ \A d \in Daemons : WF_vars(StartStep(d)) /\ WF_vars(EndStep(d))
  /\ \A c \in Clients :
       WF_vars(at[c] = "served" /\ pc[server[c]] # "serving" /\ Reply(c))

FairSpec == Spec /\ Fairness

-----------------------------------------------------------------------------
(* The type invariant: the ranges of the lifecycle's state. *)
TypeOK ==
  /\ pc \in [Daemons -> {"none", "spawned", "locked", "cleared", "bound", "serving",
                        "stopping", "draining", "drained", "closed", "unlocking",
                        "redundant", "exited", "killed"}]
  /\ lock \in Daemons \union {Nobody}
  /\ path \in Daemons \union {Nobody}
  /\ listening \subseteq Daemons
  /\ polling \subseteq Daemons
  /\ failures \in Nat
  /\ kills \in 0 .. MaxKills
  /\ at \in [Clients -> {"idle", "locking", "spawning", "waiting", "ready", "failed",
                        "timeout", "interrupted", "dialed", "refused", "served",
                        "answered", "canceled", "reset"}]
  /\ spawnLock \in Clients \union {Nobody}
  /\ child \in [Clients -> Daemons \union {Nobody}]
  /\ baseline \in [Clients -> Nat]
  /\ server \in [Clients -> Daemons \union {Nobody}]

(* Never two pollers of one bot token: at most one daemon has its          *)
(* transports up, and it holds the lifetime lock (daemon.go: Run, tryLock).*)
OneDaemonPolls ==
  /\ \A d, e \in polling : d = e
  /\ polling \subseteq {lock}

(* A daemon that serves can be reached: nobody has removed its socket file *)
(* or put another one in its place, so no CLI starts a second daemon       *)
(* beside it (daemon.go: Run; ipc: Listen; removeEndpoint).                *)
ServingIsReachable ==
  \A d \in Daemons : pc[d] = "serving" => path = d /\ d \in listening

(* A daemon that ends in order leaves nothing behind: no socket file that  *)
(* the next start would have to probe, no listener and no transport.       *)
CleanExit ==
  /\ path # Nobody /\ path \notin listening => pc[path] = "killed"
  /\ \A d \in Daemons :
       ~Alive(d) => d \notin listening /\ d \notin polling /\ lock # d

(* No shutdown strands a blocked ask: the transports that must settle its  *)
(* question stay up until it was answered or canceled (server.go: Serve).  *)
StrandsNobody ==
  \A c \in Clients :
    at[c] = "served" /\ Alive(server[c]) => server[c] \in polling

(* A daemon told to stop does stop, whatever asks it was blocked on. *)
StopEnds ==
  \A d \in Daemons : pc[d] = "stopping" ~> pc[d] \in {"exited", "killed"}

(* What the serve command says of itself: it exits quietly because another *)
(* daemon owns the endpoint, so the CLI that started it reaches that one,  *)
(* or will: it does not hold the spawn lock, for others to wait on, while  *)
(* nobody owns the endpoint or is about to.  Nothing has failed here.      *)
RedundantMeansRunning ==
  \A c \in Clients :
    at[c] = "waiting" /\ spawnLock = c /\ child[c] # Nobody /\ pc[child[c]] = "redundant"
      /\ failures = 0 =>
        \/ Reachable
        \/ \E d \in Daemons : pc[d] \in {"spawned", "locked", "cleared", "bound", "serving"}
        \/ \E b \in Clients : at[b] = "spawning"
=============================================================================
