---------------------------- MODULE DaemonProofs ----------------------------
(***************************************************************************)
(* The lifetime lock is what makes "one daemon" true (daemon.go: Run): at  *)
(* most one process is between taking and releasing it, so the socket file *)
(* cannot change under a daemon that serves, and two daemons never poll.   *)
(* The safety invariants of Daemon follow, for any number of daemons, CLI  *)
(* processes and kills.                                                    *)
(***************************************************************************)
EXTENDS Daemon, TLAPS

(* The stretch of Run between taking the lifetime lock and releasing it. *)
Holding == {"locked", "cleared", "bound", "serving", "stopping", "draining", "drained",
            "closed", "unlocking"}

(* The lock is held by exactly the daemon that is in that stretch. *)
LockInv ==
  /\ \A d \in Daemons : pc[d] \in Holding => lock = d
  /\ lock # Nobody => pc[lock] \in Holding

(* The transports are up from startTransports to closeTransports. *)
PollingInv ==
  \A d \in Daemons : d \in polling <=> pc[d] \in {"serving", "stopping", "draining", "drained"}

(* The socket file and the listener, which Bind and Unlink move together;  *)
(* a file without a listener is what a killed daemon has left.             *)
SocketInv ==
  /\ \A d \in Daemons : pc[d] \in {"bound", "serving", "stopping"} =>
       path = d /\ d \in listening
  /\ \A d \in listening : pc[d] \in {"bound", "serving", "stopping", "closed"}
  /\ path # Nobody /\ path \notin listening => pc[path] = "killed"

(* A connection that was accepted belongs to a daemon that has not yet     *)
(* stopped waiting for it.                                                 *)
ServedInv ==
  \A c \in Clients :
    /\ at[c] \in {"dialed", "served"} => server[c] \in Daemons
    /\ at[c] = "served" => pc[server[c]] \in {"serving", "stopping", "draining", "killed"}

IInv == TypeOK /\ LockInv /\ PollingInv /\ SocketInv /\ ServedInv

-----------------------------------------------------------------------------
(* The first state satisfies the invariant (daemon.go: Run has not begun). *)
LEMMA InitInv == Init => IInv
  <1>1. Nobody \notin Daemons
    BY DaemonAssumption
  <1> QED
    BY <1>1, DaemonAssumption
    DEF Init, IInv, TypeOK, LockInv, PollingInv, SocketInv, ServedInv, Holding

(* A daemon that takes the lock, or exits because it is taken (daemon.go: tryLock). *)
LEMMA TakeLockInv ==
  ASSUME IInv, NEW d \in Daemons, TakeLock(d)
  PROVE  IInv'
  <1> USE DaemonAssumption
  <1>1. TypeOK'
    BY DEF IInv, TypeOK, TakeLock, Goto, Fail, clientVars
  <1>2. LockInv'
    BY DEF IInv, TypeOK, LockInv, Holding, TakeLock, Goto, Fail
  <1>3. PollingInv'
    BY DEF IInv, TypeOK, PollingInv, TakeLock, Goto, Fail
  <1>4. SocketInv'
    BY DEF IInv, TypeOK, LockInv, SocketInv, Holding, TakeLock, Goto, Fail
  <1>5. ServedInv'
    BY DEF IInv, TypeOK, ServedInv, TakeLock, Goto, Fail, clientVars
  <1> QED
    BY <1>1, <1>2, <1>3, <1>4, <1>5 DEF IInv

(* A daemon that binds the socket file, alone with the lock (endpoint_unix.go: Listen). *)
LEMMA BindInv ==
  ASSUME IInv, NEW d \in Daemons, Bind(d)
  PROVE  IInv'
  <1> USE DaemonAssumption
  <1>1. TypeOK'
    BY DEF IInv, TypeOK, Bind, Goto, Fail, clientVars, Reachable
  <1>2. LockInv'
    BY DEF IInv, TypeOK, LockInv, Holding, Bind, Goto, Fail, Reachable
  <1>3. PollingInv'
    BY DEF IInv, TypeOK, PollingInv, Bind, Goto, Fail, Reachable
  <1>4. SocketInv'
    BY DEF IInv, TypeOK, LockInv, SocketInv, Holding, Bind, Goto, Fail, Reachable
  <1>5. ServedInv'
    BY DEF IInv, TypeOK, ServedInv, Bind, Goto, Fail, clientVars, Reachable
  <1> QED
    BY <1>1, <1>2, <1>3, <1>4, <1>5 DEF IInv

(* The transports come up or Run unwinds (daemon.go: startTransports). *)
LEMMA StartTransportsInv ==
  ASSUME IInv, NEW d \in Daemons, NEW up, StartTransports(d, up)
  PROVE  IInv'
  <1> USE DaemonAssumption
  <1>1. TypeOK'
    BY DEF IInv, TypeOK, StartTransports, Goto, clientVars
  <1>2. LockInv'
    BY DEF IInv, TypeOK, LockInv, Holding, StartTransports, Goto
  <1>3. PollingInv'
    BY DEF IInv, TypeOK, PollingInv, StartTransports, Goto
  <1>4. SocketInv'
    BY DEF IInv, TypeOK, LockInv, SocketInv, Holding, StartTransports, Goto
  <1>5. ServedInv'
    BY DEF IInv, TypeOK, ServedInv, StartTransports, Goto, clientVars
  <1> QED
    BY <1>1, <1>2, <1>3, <1>4, <1>5 DEF IInv

(* A shutdown is requested (daemon.go: Run). *)
LEMMA StopInv ==
  ASSUME IInv, NEW d \in Daemons, Stop(d)
  PROVE  IInv'
  <1> USE DaemonAssumption
  <1>1. TypeOK'
    BY DEF IInv, TypeOK, Stop, Goto, clientVars
  <1>2. LockInv'
    BY DEF IInv, TypeOK, LockInv, Holding, Stop, Goto
  <1>3. PollingInv'
    BY DEF IInv, TypeOK, PollingInv, Stop, Goto
  <1>4. SocketInv'
    BY DEF IInv, TypeOK, LockInv, SocketInv, Holding, Stop, Goto
  <1>5. ServedInv'
    BY DEF IInv, TypeOK, ServedInv, Stop, Goto, clientVars
  <1> QED
    BY <1>1, <1>2, <1>3, <1>4, <1>5 DEF IInv

(* The listener closes and takes its file away (server.go: Serve). *)
LEMMA CloseListenerInv ==
  ASSUME IInv, NEW d \in Daemons, CloseListener(d)
  PROVE  IInv'
  <1> USE DaemonAssumption
  <1>1. TypeOK'
    BY DEF IInv, TypeOK, CloseListener, Goto, clientVars, Unlink
  <1>2. LockInv'
    BY DEF IInv, TypeOK, LockInv, Holding, CloseListener, Goto, Unlink
  <1>3. PollingInv'
    BY DEF IInv, TypeOK, PollingInv, CloseListener, Goto, Unlink
  <1>4. SocketInv'
    BY DEF IInv, TypeOK, LockInv, SocketInv, Holding, CloseListener, Goto, Unlink
  <1>5. ServedInv'
    BY DEF IInv, TypeOK, ServedInv, CloseListener, Goto, clientVars, Unlink
  <1> QED
    BY <1>1, <1>2, <1>3, <1>4, <1>5 DEF IInv

(* Serve returns when nobody is served any more (server.go: Serve). *)
LEMMA DrainInv ==
  ASSUME IInv, NEW d \in Daemons, Drain(d)
  PROVE  IInv'
  <1> USE DaemonAssumption
  <1>1. TypeOK'
    BY DEF IInv, TypeOK, Drain, Goto, clientVars
  <1>2. LockInv'
    BY DEF IInv, TypeOK, LockInv, Holding, Drain, Goto
  <1>3. PollingInv'
    BY DEF IInv, TypeOK, PollingInv, Drain, Goto
  <1>4. SocketInv'
    BY DEF IInv, TypeOK, LockInv, SocketInv, Holding, Drain, Goto
  <1>5. ServedInv'
    BY DEF IInv, TypeOK, ServedInv, Drain, Goto, clientVars
  <1> QED
    BY <1>1, <1>2, <1>3, <1>4, <1>5 DEF IInv

(* The transports go down (daemon.go: closeTransports). *)
LEMMA CloseTransportsInv ==
  ASSUME IInv, NEW d \in Daemons, CloseTransports(d)
  PROVE  IInv'
  <1> USE DaemonAssumption
  <1>1. TypeOK'
    BY DEF IInv, TypeOK, CloseTransports, Goto, clientVars
  <1>2. LockInv'
    BY DEF IInv, TypeOK, LockInv, Holding, CloseTransports, Goto
  <1>3. PollingInv'
    BY DEF IInv, TypeOK, PollingInv, CloseTransports, Goto
  <1>4. SocketInv'
    BY DEF IInv, TypeOK, LockInv, SocketInv, Holding, CloseTransports, Goto
  <1>5. ServedInv'
    BY DEF IInv, TypeOK, ServedInv, CloseTransports, Goto, clientVars
  <1> QED
    BY <1>1, <1>2, <1>3, <1>4, <1>5 DEF IInv

(* The endpoint is removed under the lock (daemon.go: Run). *)
LEMMA RemoveEndpointInv ==
  ASSUME IInv, NEW d \in Daemons, RemoveEndpoint(d)
  PROVE  IInv'
  <1> USE DaemonAssumption
  <1>1. TypeOK'
    BY DEF IInv, TypeOK, RemoveEndpoint, Goto, clientVars, Unlink
  <1>2. LockInv'
    BY DEF IInv, TypeOK, LockInv, Holding, RemoveEndpoint, Goto, Unlink
  <1>3. PollingInv'
    BY DEF IInv, TypeOK, PollingInv, RemoveEndpoint, Goto, Unlink
  <1>4. SocketInv'
    BY DEF IInv, TypeOK, LockInv, SocketInv, Holding, RemoveEndpoint, Goto, Unlink
  <1>5. ServedInv'
    BY DEF IInv, TypeOK, ServedInv, RemoveEndpoint, Goto, clientVars, Unlink
  <1> QED
    BY <1>1, <1>2, <1>3, <1>4, <1>5 DEF IInv

(* The lock is released last (daemon.go: Run). *)
LEMMA ReleaseLockInv ==
  ASSUME IInv, NEW d \in Daemons, ReleaseLock(d)
  PROVE  IInv'
  <1> USE DaemonAssumption
  <1>1. TypeOK'
    BY DEF IInv, TypeOK, ReleaseLock, Goto, clientVars
  <1>2. LockInv'
    BY DEF IInv, TypeOK, LockInv, Holding, ReleaseLock, Goto
  <1>3. PollingInv'
    BY DEF IInv, TypeOK, PollingInv, ReleaseLock, Goto
  <1>4. SocketInv'
    BY DEF IInv, TypeOK, LockInv, SocketInv, Holding, ReleaseLock, Goto
  <1>5. ServedInv'
    BY DEF IInv, TypeOK, ServedInv, ReleaseLock, Goto, clientVars
  <1> QED
    BY <1>1, <1>2, <1>3, <1>4, <1>5 DEF IInv

(* The kernel releases what a killed daemon held (lock_unix.go: tryLock). *)
LEMMA KillInv ==
  ASSUME IInv, NEW d \in Daemons, Kill(d)
  PROVE  IInv'
  <1> USE DaemonAssumption
  <1>1. TypeOK'
    BY DEF IInv, TypeOK, Kill, Goto, clientVars, Alive
  <1>2. LockInv'
    BY DEF IInv, TypeOK, LockInv, Holding, Kill, Goto, Alive
  <1>3. PollingInv'
    BY DEF IInv, TypeOK, PollingInv, Kill, Goto, Alive
  <1>4. SocketInv'
    BY DEF IInv, TypeOK, LockInv, SocketInv, Holding, Kill, Goto, Alive
  <1>5. ServedInv'
    BY DEF IInv, TypeOK, ServedInv, Kill, Goto, clientVars, Alive
  <1> QED
    BY <1>1, <1>2, <1>3, <1>4, <1>5 DEF IInv

(* A daemon is spawned (ensure.go: spawn). *)
LEMMA SpawnInv ==
  ASSUME IInv, NEW c \in Clients, NEW d \in Daemons, Spawn(c, d)
  PROVE  IInv'
  <1> USE DaemonAssumption
  <1>1. TypeOK'
    BY DEF IInv, TypeOK, Spawn, Goto, Move
  <1>2. LockInv'
    BY DEF IInv, TypeOK, LockInv, Holding, Spawn, Goto
  <1>3. PollingInv'
    BY DEF IInv, TypeOK, PollingInv, Spawn, Goto
  <1>4. SocketInv'
    BY DEF IInv, TypeOK, SocketInv, Spawn, Goto
  <1>5. ServedInv'
    BY DEF IInv, TypeOK, ServedInv, Spawn, Goto, Move
  <1> QED
    BY <1>1, <1>2, <1>3, <1>4, <1>5 DEF IInv

(* What a CLI process does by itself touches no daemon (ensure.go, *)
(* client.go). *)
LEMMA ClientInv ==
  ASSUME IInv, UNCHANGED daemonVars, TypeOK', ServedInv'
  PROVE  IInv'
  BY DEF IInv, daemonVars, LockInv, PollingInv, SocketInv

(* A first look at the socket (ensure.go: ensureRunning). *)
LEMMA ProbeInv ==
  ASSUME IInv, NEW c \in Clients, Probe(c)
  PROVE  IInv'
  <1> USE DaemonAssumption
  <1>1. TypeOK'
    BY DEF IInv, TypeOK, daemonVars, Probe, Move, Reachable
  <1>2. ServedInv'
    BY DEF IInv, TypeOK, ServedInv, daemonVars, Probe, Move, Reachable
  <1>3. UNCHANGED daemonVars
    BY DEF daemonVars, Probe, Move, Reachable
  <1> QED
    BY <1>1, <1>2, <1>3, ClientInv

(* The spawn lock (ensure.go: lockForSpawn). *)
LEMMA LockForSpawnInv ==
  ASSUME IInv, NEW c \in Clients, NEW broken \in BOOLEAN, LockForSpawn(c, broken)
  PROVE  IInv'
  <1> USE DaemonAssumption
  <1>1. TypeOK'
    BY DEF IInv, TypeOK, daemonVars, LockForSpawn, Move
  <1>2. ServedInv'
    BY DEF IInv, TypeOK, ServedInv, daemonVars, LockForSpawn, Move
  <1>3. UNCHANGED daemonVars
    BY DEF daemonVars, LockForSpawn, Move
  <1> QED
    BY <1>1, <1>2, <1>3, ClientInv

(* Waiting for the daemon (ensure.go: waitForDaemon). *)
LEMMA PollInv ==
  ASSUME IInv, NEW c \in Clients, Poll(c)
  PROVE  IInv'
  <1> USE DaemonAssumption
  <1>1. TypeOK'
    BY DEF IInv, TypeOK, daemonVars, Poll, Return, Move, Reachable
  <1>2. ServedInv'
    BY DEF IInv, TypeOK, ServedInv, daemonVars, Poll, Return, Move, Reachable
  <1>3. UNCHANGED daemonVars
    BY DEF daemonVars, Poll, Return, Move, Reachable
  <1> QED
    BY <1>1, <1>2, <1>3, ClientInv

(* Ctrl-C (ensure.go: waitForDaemon). *)
LEMMA InterruptInv ==
  ASSUME IInv, NEW c \in Clients, Interrupt(c)
  PROVE  IInv'
  <1> USE DaemonAssumption
  <1>1. TypeOK'
    BY DEF IInv, TypeOK, daemonVars, Interrupt, Return, Move
  <1>2. ServedInv'
    BY DEF IInv, TypeOK, ServedInv, daemonVars, Interrupt, Return, Move
  <1>3. UNCHANGED daemonVars
    BY DEF daemonVars, Interrupt, Return, Move
  <1> QED
    BY <1>1, <1>2, <1>3, ClientInv

(* The connection of an ask (client.go: Dial). *)
LEMMA DialInv ==
  ASSUME IInv, NEW c \in Clients, Dial(c)
  PROVE  IInv'
  <1> USE DaemonAssumption
  <1>1. TypeOK'
    BY DEF IInv, TypeOK, daemonVars, Dial, Move, Reachable
  <1>2. ServedInv'
    BY DEF IInv, TypeOK, ServedInv, daemonVars, Dial, Move, Reachable
  <1>3. UNCHANGED daemonVars
    BY DEF daemonVars, Dial, Move, Reachable
  <1> QED
    BY <1>1, <1>2, <1>3, ClientInv

(* A serving daemon accepts it (server.go: Serve). *)
LEMMA AcceptInv ==
  ASSUME IInv, NEW c \in Clients, Accept(c)
  PROVE  IInv'
  <1> USE DaemonAssumption
  <1>1. TypeOK'
    BY DEF IInv, TypeOK, daemonVars, Accept, Move
  <1>2. ServedInv'
    BY DEF IInv, TypeOK, ServedInv, daemonVars, Accept, Move
  <1>3. UNCHANGED daemonVars
    BY DEF daemonVars, Accept, Move
  <1> QED
    BY <1>1, <1>2, <1>3, ClientInv

(* The ask ends (server.go: handle). *)
LEMMA ReplyInv ==
  ASSUME IInv, NEW c \in Clients, Reply(c)
  PROVE  IInv'
  <1> USE DaemonAssumption
  <1>1. TypeOK'
    BY DEF IInv, TypeOK, daemonVars, Reply, Ends, Move, Alive
  <1>2. ServedInv'
    BY DEF IInv, TypeOK, ServedInv, daemonVars, Reply, Ends, Move, Alive
  <1>3. UNCHANGED daemonVars
    BY DEF daemonVars, Reply, Ends, Move, Alive
  <1> QED
    BY <1>1, <1>2, <1>3, ClientInv

(* The connection drops (client.go: Do). *)
LEMMA ResetInv ==
  ASSUME IInv, NEW c \in Clients, Reset(c)
  PROVE  IInv'
  <1> USE DaemonAssumption
  <1>1. TypeOK'
    BY DEF IInv, TypeOK, daemonVars, Reset, Ends, Move, Alive
  <1>2. ServedInv'
    BY DEF IInv, TypeOK, ServedInv, daemonVars, Reset, Ends, Move, Alive
  <1>3. UNCHANGED daemonVars
    BY DEF daemonVars, Reset, Ends, Move, Alive
  <1> QED
    BY <1>1, <1>2, <1>3, ClientInv

-----------------------------------------------------------------------------
(* Every step preserves the invariant (daemon.go, ensure.go). *)
LEMMA NextInv == IInv /\ [Next]_vars => IInv'
  <1> SUFFICES ASSUME IInv, [Next]_vars PROVE IInv'
    OBVIOUS
  <1>1. CASE UNCHANGED vars
    BY <1>1 DEF vars, IInv, TypeOK, LockInv, PollingInv, SocketInv, ServedInv
  <1>2. ASSUME NEW d \in Daemons, StartStep(d) PROVE IInv'
    BY <1>2, TakeLockInv, BindInv, StartTransportsInv DEF StartStep
  <1>3. ASSUME NEW d \in Daemons, EndStep(d) PROVE IInv'
    BY <1>3, CloseListenerInv, DrainInv, CloseTransportsInv, RemoveEndpointInv, ReleaseLockInv
    DEF EndStep
  <1>4. ASSUME NEW d \in Daemons, Stop(d) \/ Kill(d) PROVE IInv'
    BY <1>4, StopInv, KillInv
  <1>5. ASSUME NEW c \in Clients, EnsureStep(c) PROVE IInv'
    BY <1>5, ProbeInv, PollInv, LockForSpawnInv, SpawnInv DEF EnsureStep
  <1>6. ASSUME NEW c \in Clients, Interrupt(c) PROVE IInv'
    BY <1>6, InterruptInv
  <1>7. ASSUME NEW c \in Clients, AskStep(c) PROVE IInv'
    BY <1>7, DialInv, AcceptInv, ReplyInv, ResetInv DEF AskStep
  <1> QED
    BY <1>1, <1>2, <1>3, <1>4, <1>5, <1>6, <1>7 DEF Next

(* The inductive invariant holds in every reachable state of any number of *)
(* daemons and CLI processes (daemon.go: Run).                             *)
THEOREM Invariance == Spec => []IInv
  BY InitInv, NextInv, PTL DEF Spec

(* The state of the lifecycle always has its type. *)
THEOREM TypeCorrect == Spec => []TypeOK
  <1>1. IInv => TypeOK
    BY DEF IInv
  <1> QED
    BY <1>1, Invariance, PTL

(* Two daemons never poll one bot token, and who polls holds the lifetime  *)
(* lock (daemon.go: Run).                                                  *)
THEOREM OneDaemonPollsAlways == Spec => []OneDaemonPolls
  <1>1. IInv => OneDaemonPolls
    BY DEF IInv, TypeOK, LockInv, PollingInv, Holding, OneDaemonPolls
  <1> QED
    BY <1>1, Invariance, PTL

(* A serving daemon is never cut off from its socket file (daemon.go: Run; *)
(* endpoint_unix.go: Listen).                                              *)
THEOREM ServingIsReachableAlways == Spec => []ServingIsReachable
  <1>1. IInv => ServingIsReachable
    BY DEF IInv, SocketInv, ServingIsReachable
  <1> QED
    BY <1>1, Invariance, PTL

(* Only a killed daemon leaves a socket file behind, and none leaves its   *)
(* lock, its listener or its transports (daemon.go: Run).                  *)
THEOREM CleanExitAlways == Spec => []CleanExit
  <1>1. IInv => CleanExit
    BY DaemonAssumption
    DEF IInv, TypeOK, LockInv, PollingInv, SocketInv, Holding, CleanExit, Alive
  <1> QED
    BY <1>1, Invariance, PTL

(* The transports of a daemon stay up as long as it has an ask to answer   *)
(* (server.go: Serve).                                                     *)
THEOREM StrandsNobodyAlways == Spec => []StrandsNobody
  <1>1. IInv => StrandsNobody
    BY DEF IInv, ServedInv, PollingInv, StrandsNobody, Alive
  <1> QED
    BY <1>1, Invariance, PTL

-----------------------------------------------------------------------------
(* The lock on Unix.                                                       *)

(* The daemons that run under the lifetime lock: what must not overlap is  *)
(* not who holds a file, but everything Run does while it does.            *)
UnderLock == {d \in Daemons : pc[d] \in Holding}

Lock == INSTANCE OneHolder WITH Processes <- Daemons, holders <- UnderLock

(* Every step of the lifecycle takes the lock, gives it up or leaves the   *)
(* daemons that run under it as they are (daemon.go: tryLock, Run).        *)
LEMMA StepRefines == IInv /\ IInv' /\ [Next]_vars => [Lock!Next]_UnderLock
  <1> SUFFICES ASSUME IInv, IInv', [Next]_vars PROVE [Lock!Next]_UnderLock
    OBVIOUS
  <1>1. ASSUME UNCHANGED pc PROVE UNCHANGED UnderLock
    BY <1>1 DEF UnderLock
  <1>2. ASSUME NEW d \in Daemons, NEW there, Goto(d, there),
               pc[d] \in Holding <=> there \in Holding
        PROVE  UNCHANGED UnderLock
    BY <1>2 DEF UnderLock, Goto, IInv, TypeOK
  <1>3. ASSUME NEW d \in Daemons, NEW there, Goto(d, there), pc[d] \in Holding,
               there \notin Holding
        PROVE  Lock!Next
    <2>1. d \in UnderLock /\ UnderLock' = UnderLock \ {d}
      BY <1>3 DEF UnderLock, Goto, IInv, TypeOK
    <2> QED BY <2>1 DEF Lock!Next, Lock!GiveUp
  <1>4. ASSUME NEW d \in Daemons, TakeLock(d) PROVE [Lock!Next]_UnderLock
    <2>1. CASE lock = Nobody /\ Goto(d, "locked")
      <3>1. UnderLock = {}
        BY <2>1, DaemonAssumption DEF UnderLock, IInv, LockInv
      <3>2. pc' = [pc EXCEPT ![d] = "locked"]
        BY <2>1 DEF Goto
      <3>3. UnderLock' = {d}
        BY <3>1, <3>2 DEF UnderLock, Holding, IInv, TypeOK
      <3> QED BY <3>1, <3>3 DEF Lock!Next, Lock!Acquire
    <2>2. CASE ~(lock = Nobody /\ Goto(d, "locked"))
      BY <1>2, <1>4, <2>2 DEF TakeLock, Fail, Holding
    <2> QED BY <2>1, <2>2
  <1>5. ASSUME NEW d \in Daemons, StartStep(d) PROVE [Lock!Next]_UnderLock
    <2>1. CASE Bind(d)
      BY <1>1, <1>2, <2>1 DEF Bind, Fail, Holding
    <2>2. ASSUME NEW up \in {"all", "some", "none"}, StartTransports(d, up)
          PROVE  UNCHANGED UnderLock
      BY <1>2, <2>2 DEF StartTransports, Holding
    <2> QED BY <1>4, <1>5, <2>1, <2>2 DEF StartStep
  <1>6. ASSUME NEW d \in Daemons, Stop(d) \/ EndStep(d) PROVE [Lock!Next]_UnderLock
    <2>1. CASE Stop(d)
      BY <1>2, <2>1 DEF Stop, Holding
    <2>2. CASE CloseListener(d)
      BY <1>2, <2>2 DEF CloseListener, Holding
    <2>3. CASE Drain(d)
      BY <1>2, <2>3 DEF Drain, Holding
    <2>4. CASE CloseTransports(d)
      BY <1>2, <2>4 DEF CloseTransports, Holding
    <2>5. CASE RemoveEndpoint(d)
      BY <1>2, <2>5 DEF RemoveEndpoint, Holding
    <2>6. CASE ReleaseLock(d)
      BY <1>3, <2>6 DEF ReleaseLock, Holding
    <2> QED BY <1>6, <2>1, <2>2, <2>3, <2>4, <2>5, <2>6 DEF EndStep
  <1>7. ASSUME NEW d \in Daemons, Kill(d) PROVE [Lock!Next]_UnderLock
    BY <1>2, <1>3, <1>7 DEF Kill, Holding
  <1>8. ASSUME NEW c \in Clients, NEW d \in Daemons, Spawn(c, d) PROVE UNCHANGED UnderLock
    BY <1>2, <1>8 DEF Spawn, Holding
  <1>9. ASSUME NEW c \in Clients, EnsureStep(c) \/ Interrupt(c) \/ AskStep(c)
        PROVE  UNCHANGED UnderLock
    <2>1. CASE Interrupt(c) \/ AskStep(c)
      BY <1>1, <2>1 DEF Interrupt, AskStep, Return, Dial, Accept, Reply, Reset, Ends, daemonVars
    <2>2. CASE EnsureStep(c)
      BY <1>1, <1>8, <2>2 DEF EnsureStep, Probe, Poll, LockForSpawn, Return, daemonVars
    <2> QED BY <1>9, <2>1, <2>2
  <1> QED
    BY <1>1, <1>5, <1>6, <1>7, <1>9 DEF Next, vars

(* The flock of a Unix daemon is the lock the daemon asks for, as the lock *)
(* file is on Windows: from tryLock to its release, or to the kill of its  *)
(* process, a Run is alone, whatever other daemons and the CLIs that spawn *)
(* them do meanwhile (daemon.go: Run; lock_unix.go: tryLock).              *)
THEOREM RunsAreAlone == Spec => Lock!Spec
  <1>1. Init => Lock!Init
    BY DEF Init, UnderLock, Holding, Lock!Init
  <1> QED
    BY <1>1, Invariance, StepRefines, PTL DEF Spec, Lock!Spec
=============================================================================
