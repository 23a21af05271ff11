------------------------------ MODULE Service ------------------------------
(***************************************************************************)
(* The daemon between its socket and its broker: the connections that      *)
(* internal/ipc/server.go serves, and what internal/daemon/service.go      *)
(* keeps about them (the calls in flight, the idle watchdog, the token on  *)
(* the asking pane), until Run has waited for all of it.                   *)
(*                                                                         *)
(* The broker appears as its promise: a pending ask is decided once, by a  *)
(* human, its deadline or the end of its context (Broker, AnswerOnce);     *)
(* which of them it was makes no difference here.                          *)
(* Toasts are left out: nothing but a human sees them.                     *)
(***************************************************************************)
EXTENDS Naturals, FiniteSets

CONSTANTS
  Calls,    \* the connections that CLI processes open
  Panes,    \* the Herdr panes agents ask from
  NoCall,   \* no connection
  NoPane,   \* an ask from outside Herdr
  Window,   \* daemon.idle_shutdown, in ticks of the clock; 0 switches it off
  MaxTime   \* bound: the last tick

ASSUME ServiceAssumption ==
  /\ NoCall \notin Calls /\ NoPane \notin Panes
  /\ Window \in Nat /\ MaxTime \in Nat
  /\ IsFiniteSet(Calls)

VARIABLES
  now,        \* the clock
  run,        \* how far Run has unwound
  stop,       \* service.stop is closed
  at,         \* where the handler of each connection is
  op,         \* what each connection asks for
  pane,       \* the pane of each ask
  gone,       \* the clients that hung up
  decided,    \* the pending asks that the broker has an answer for
  served,     \* the clients that have read a response
  inflight,   \* service.inflight
  idleFrom,   \* service.idleFrom
  quietFrom,  \* when the last operation ended (history)
  watch,      \* where watchIdle is
  herdr,      \* where the goroutine of trackPane is
  token,      \* whose $hitl token each pane shows
  uncleared   \* the asks whose token Herdr failed to clear

callVars  == <<at, op, pane, gone, decided, served>>
countVars == <<inflight, idleFrom, quietFrom>>
runVars   == <<run, stop, watch>>
paneVars  == <<herdr, token, uncleared>>
vars == <<now, callVars, countVars, runVars, paneVars>>

(* "command" is every operation that neither blocks nor stops the daemon:  *)
(* notify, pending, status, answer and cancel.                             *)
Ops       == {"ask", "command", "shutdown"}

Init ==
  /\ now = 0
  /\ run = "serving" /\ stop = FALSE
  /\ watch = IF Window = 0 THEN "off" ELSE "ticking"
  /\ at = [c \in Calls |-> "none"]
  /\ op = [c \in Calls |-> "command"]
  /\ pane = [c \in Calls |-> NoPane]
  /\ gone = {}
  /\ decided = {}
  /\ served = {}
  /\ inflight = 0 /\ idleFrom = 0 /\ quietFrom = 0
  /\ herdr = [c \in Calls |-> "none"]
  /\ token = [p \in Panes |-> NoCall]
  /\ uncleared = {}

Goto(c, there) == at' = [at EXCEPT ![c] = there]

(* callCtx: the connection is closed, or runCtx is canceled. *)
Canceled(c) == c \in gone \/ run # "serving"

-----------------------------------------------------------------------------
(* The connection (Server.Serve, Server.handle).                           *)

(* Until the listener is closed, also by a daemon that is stopping. *)
Accept(c, o, p) ==
  /\ at[c] = "none"
  /\ run \in {"serving", "stopping"}
  /\ p # NoPane => o = "ask"
  /\ Goto(c, "accepted")
  /\ op' = [op EXCEPT ![c] = o]
  /\ pane' = [pane EXCEPT ![c] = p]
  /\ UNCHANGED <<now, gone, decided, served, countVars, runVars, paneVars>>

(* Ctrl-C, a killed pane: the daemon reads the end of the stream. *)
HangUp(c) ==
  /\ at[c] \notin {"none", "dropped", "closed"}
  /\ c \notin gone
  /\ gone' = gone \union {c}
  /\ UNCHANGED <<now, at, op, pane, decided, served, countVars, runVars, paneVars>>

(* Only the end of the stream ends the wait for a request. *)
DropWhenGone(c) ==
  /\ at[c] = "accepted" /\ c \in gone
  /\ Goto(c, "dropped")
  /\ UNCHANGED <<now, op, pane, gone, decided, served, countVars, runVars, paneVars>>

(* No whole request came within readHeaderTimeout. *)
Drop(c) ==
  /\ at[c] = "accepted"
  /\ Goto(c, "dropped")
  /\ UNCHANGED <<now, op, pane, gone, decided, served, countVars, runVars, paneVars>>

(* A request that does not parse, or has no parameters, is answered at once. *)
Refuse(c) ==
  /\ at[c] = "accepted"
  /\ Goto(c, "replying")
  /\ UNCHANGED <<now, op, pane, gone, decided, served, countVars, runVars, paneVars>>

(* A client that hung up in time reads nothing. *)
Reply(c) ==
  /\ at[c] = "replying"
  /\ Goto(c, "closed")
  /\ served' = IF c \in gone THEN served ELSE served \union {c}
  /\ UNCHANGED <<now, op, pane, gone, decided, countVars, runVars, paneVars>>

-----------------------------------------------------------------------------
(* The operations (service.Ask and the others).                            *)

(* enter: every operation but a shutdown is in flight from here. *)
Enter(c) ==
  /\ at[c] = "accepted" /\ op[c] # "shutdown"
  /\ Goto(c, "entered")
  /\ inflight' = inflight + 1
  /\ UNCHANGED <<now, op, pane, gone, decided, served, idleFrom, quietFrom, runVars, paneVars>>

(* The idle time goes on counting from the first call. *)
LeaveUnmarked(c) ==
  /\ at[c] = "returned"
  /\ Goto(c, "replying")
  /\ inflight' = inflight - 1
  /\ quietFrom' = now
  /\ UNCHANGED <<now, op, pane, gone, decided, served, idleFrom, runVars, paneVars>>

(* The function enter returned; the last one out starts the idle time. *)
Leave(c) ==
  /\ at[c] = "returned"
  /\ Goto(c, "replying")
  /\ inflight' = inflight - 1
  /\ idleFrom' = IF inflight = 1 THEN now ELSE idleFrom
  /\ quietFrom' = now
  /\ UNCHANGED <<now, op, pane, gone, decided, served, runVars, paneVars>>

(* trackPane: nothing to do outside Herdr. *)
Track(c) ==
  herdr' = [herdr EXCEPT ![c] = IF pane[c] = NoPane THEN "none" ELSE "setting"]

(* Ask, up to the entry in the broker.  A bad attachment ends it before    *)
(* the pane is tracked, a rejected request after.                          *)
Ask(c) ==
  /\ at[c] = "entered" /\ op[c] = "ask"
  /\ \/ Goto(c, "pending") /\ Track(c)
     \/ Goto(c, "returned") /\ (Track(c) \/ UNCHANGED herdr)
  /\ UNCHANGED <<now, op, pane, gone, decided, served, countVars, runVars, token, uncleared>>

(* Every messenger refused the question; an answer that came all the same  *)
(* is dropped with it.                                                     *)
PostFails(c) ==
  /\ at[c] = "pending"
  /\ Goto(c, "returned")
  /\ decided' = decided \ {c}
  /\ UNCHANGED <<now, op, pane, gone, served, countVars, runVars, paneVars>>

Decide(c) ==
  /\ at[c] = "pending" /\ c \notin decided
  /\ decided' = decided \union {c}

(* A human answers in a messenger, or the deadline passes. *)
Answer(c) ==
  /\ Decide(c)
  /\ UNCHANGED <<now, at, op, pane, gone, served, countVars, runVars, paneVars>>

(* Only a shutdown withdraws a question. *)
WithdrawAtStop(c) ==
  /\ run # "serving"
  /\ Decide(c)
  /\ UNCHANGED <<now, at, op, pane, gone, served, countVars, runVars, paneVars>>

(* callCtx is done: the asker is gone, or the daemon stops. *)
Withdraw(c) ==
  /\ Canceled(c)
  /\ Decide(c)
  /\ UNCHANGED <<now, at, op, pane, gone, served, countVars, runVars, paneVars>>

(* Submit returns with what was decided. *)
SubmitReturns(c) ==
  /\ c \in decided
  /\ Goto(c, "returned")
  /\ decided' = decided \ {c}
  /\ UNCHANGED <<now, op, pane, gone, served, countVars, runVars, paneVars>>

(* AnswerRequest and CancelRequest decide, unless somebody has; the others *)
(* change nothing here.                                                    *)
Command(c) ==
  /\ at[c] = "entered" /\ op[c] = "command"
  /\ Goto(c, "returned")
  /\ UNCHANGED decided \/ \E q \in Calls : Decide(q)
  /\ UNCHANGED <<now, op, pane, gone, served, countVars, runVars, paneVars>>

(* Shutdown leaves like the calls that entered. *)
ShutdownLeaves(c) ==
  /\ at[c] = "accepted" /\ op[c] = "shutdown"
  /\ Goto(c, "returned")
  /\ stop' = TRUE
  /\ UNCHANGED <<now, op, pane, gone, decided, served, countVars, run, watch, paneVars>>

(* Shutdown, which is not counted, only asks Run to stop. *)
Shutdown(c) ==
  /\ at[c] = "accepted" /\ op[c] = "shutdown"
  /\ Goto(c, "replying")
  /\ stop' = TRUE
  /\ UNCHANGED <<now, op, pane, gone, decided, served, countVars, run, watch, paneVars>>

-----------------------------------------------------------------------------
(* The goroutine of trackPane.  Herdr is best effort: a call may fail, and *)
(* may have had its effect all the same.                                   *)

Showing(p, c) == [token EXCEPT ![p] = c]

SetToken(c) ==
  /\ herdr[c] = "setting"
  /\ \/ /\ herdr' = [herdr EXCEPT ![c] = "set"]
        /\ token' = Showing(pane[c], c)
     \/ /\ herdr' = [herdr EXCEPT ![c] = "refused"]
        /\ token' \in {token, Showing(pane[c], c)}
  /\ UNCHANGED <<now, callVars, countVars, runVars, uncleared>>

(* The ask returns, before it leaves: whatever token the pane shows is     *)
(* cleared.                                                                *)
ClearToken(c) ==
  /\ herdr[c] \in {"set", "refused"}
  /\ at[c] \in {"returned", "replying", "closed"}
  /\ herdr' = [herdr EXCEPT ![c] = "done"]
  /\ \/ /\ token' = Showing(pane[c], NoCall)
        /\ UNCHANGED uncleared
     \/ /\ token' \in {token, Showing(pane[c], NoCall)}
        /\ uncleared' = uncleared \union {c}
  /\ UNCHANGED <<now, callVars, countVars, runVars>>

-----------------------------------------------------------------------------
(* The end (watchIdle, Run, Server.Serve).                                 *)

Tick ==
  /\ now < MaxTime
  /\ now' = now + 1
  /\ UNCHANGED <<callVars, countVars, runVars, paneVars>>

(* idle: nothing pending, nothing in flight, for the whole window. *)
FindIdle ==
  /\ watch = "ticking" /\ run = "serving"
  /\ inflight = 0
  /\ now - idleFrom >= Window
  /\ watch' = "idle"
  /\ UNCHANGED <<now, callVars, countVars, run, stop, paneVars>>

(* The call of stop, after the locks of idle are released. *)
IdleStop ==
  /\ watch = "idle"
  /\ watch' = "off"
  /\ run' = IF run = "serving" THEN "stopping" ELSE run
  /\ UNCHANGED <<now, callVars, countVars, stop, paneVars>>

(* Run notices a shutdown request; a signal or a broken listener do the    *)
(* same unasked.                                                           *)
StopRequested ==
  /\ stop /\ run = "serving"
  /\ run' = "stopping"
  /\ UNCHANGED <<now, callVars, countVars, stop, watch, paneVars>>

Interrupt ==
  /\ run = "serving"
  /\ run' = "stopping"
  /\ UNCHANGED <<now, callVars, countVars, stop, watch, paneVars>>

CloseListener ==
  /\ run = "stopping"
  /\ run' = "closed"
  /\ UNCHANGED <<now, callVars, countVars, stop, watch, paneVars>>

(* Serve returns although handlers are still at work. *)
DrainAtOnce ==
  /\ run = "closed"
  /\ run' = "drained"
  /\ UNCHANGED <<now, callVars, countVars, stop, watch, paneVars>>

(* Serve returns after the last handler. *)
Drain ==
  /\ run = "closed"
  /\ \A c \in Calls : at[c] \in {"none", "dropped", "closed"}
  /\ run' = "drained"
  /\ UNCHANGED <<now, callVars, countVars, stop, watch, paneVars>>

(* Run goes on to close the transports without svc.wait. *)
ExitAtOnce ==
  /\ run = "drained"
  /\ run' = "exited"
  /\ UNCHANGED <<now, callVars, countVars, stop, watch, paneVars>>

(* svc.wait, the first of Run's deferred calls. *)
Exit ==
  /\ run = "drained"
  /\ \A c \in Calls : herdr[c] \in {"none", "done"}
  /\ run' = "exited"
  /\ UNCHANGED <<now, callVars, countVars, stop, watch, paneVars>>

-----------------------------------------------------------------------------
(* The client has sent its request. *)
RequestStep(c) == Enter(c) \/ Shutdown(c) \/ Refuse(c)

(* What the handler of a connection does by itself. *)
HandlerStep(c) ==
  \/ Drop(c) \/ Ask(c) \/ Command(c)
  \/ Withdraw(c) \/ SubmitReturns(c) \/ Leave(c) \/ Reply(c)

PaneStep(c) == SetToken(c) \/ ClearToken(c)

StopStep == StopRequested \/ CloseListener \/ Drain \/ Exit

Next ==
  \/ Tick \/ FindIdle \/ IdleStop \/ Interrupt \/ StopStep
  \/ \E c \in Calls :
       \/ \E o \in Ops, p \in Panes \union {NoPane} : Accept(c, o, p)
       \/ RequestStep(c) \/ HangUp(c) \/ Answer(c) \/ PostFails(c)
       \/ HandlerStep(c) \/ PaneStep(c)

Spec == Init /\ [][Next]_vars

(* Goroutines run, a silent client meets its deadline and a call of Herdr  *)
(* ends within execTimeout.  Nobody has to send a request, answer or stop. *)
Fairness ==
  /\ \A c \in Calls : WF_vars(HandlerStep(c)) /\ WF_vars(PaneStep(c))
  /\ WF_vars(StopStep)

FairSpec == Spec /\ Fairness

-----------------------------------------------------------------------------
(* The state of the service always has its type; the count of the calls in *)
(* flight never falls below zero (service.enter).                          *)
TypeOK ==
  /\ now \in Nat
  /\ run \in {"serving", "stopping", "closed", "drained", "exited"}
  /\ stop \in BOOLEAN
  /\ watch \in {"off", "ticking", "idle"}
  /\ at \in [Calls -> {"none", "accepted", "entered", "pending", "returned",
                       "replying", "dropped", "closed"}]
  /\ op \in [Calls -> Ops]
  /\ pane \in [Calls -> Panes \union {NoPane}]
  /\ gone \subseteq Calls
  /\ decided \subseteq Calls
  /\ served \subseteq Calls
  /\ inflight \in Nat /\ idleFrom \in Nat /\ quietFrom \in Nat
  /\ herdr \in [Calls -> {"none", "setting", "set", "refused", "done"}]
  /\ token \in [Panes -> Calls \union {NoCall}]
  /\ uncleared \subseteq Calls

(* The daemon leaves no $hitl token behind on a pane, unless Herdr itself  *)
(* failed to clear it: "so a shutdown does not leave a stale `$hitl` token *)
(* behind" (service.go: herdrWG).                                          *)
ClearedAtExit ==
  run = "exited" => \A p \in Panes : token[p] \in uncleared \union {NoCall}

(* When the daemon is gone, every client that sent its request and stayed  *)
(* has read a response, the one that asked for the shutdown included       *)
(* (Server.Serve waits for the connections in flight).                     *)
EveryCallIsAnswered ==
  run \in {"drained", "exited"} =>
    \A c \in Calls \ gone : at[c] \notin {"none", "dropped"} => c \in served

(* The watchdog finds the daemon idle only when no operation was running   *)
(* at any moment of the window that ends now (service.idle, service.enter).*)
IdleMeansQuiet ==
  [][watch = "ticking" /\ watch' = "idle" =>
       /\ now - quietFrom >= Window
       /\ \A c \in Calls : at[c] \notin {"entered", "pending", "returned"}]_vars

(* An ask whose client hung up is withdrawn and ends, even when nobody     *)
(* answers and it has no deadline (Server.handle: callCtx).                *)
HangUpWithdraws ==
  \A c \in Calls : (c \in gone /\ at[c] = "pending") ~> (at[c] = "closed")

(* A daemon that was told to stop exits, whatever its clients and Herdr do *)
(* (Run: runCtx; server.go: readHeaderTimeout; herdrctl.go: execTimeout).  *)
StopEndsService == (run = "stopping") ~> (run = "exited")
=============================================================================
