---------------------------- MODULE ServiceProofs ----------------------------
(***************************************************************************)
(* What service.go counts and tracks, for any number of connections, panes *)
(* and ticks: service.inflight is the number of operations between enter   *)
(* and leave, service.idleFrom the end of the last of them, every token    *)
(* has a goroutine that will clear it, and Run ends after both the         *)
(* handlers and those goroutines.                                          *)
(***************************************************************************)
EXTENDS Service, FiniteSetTheorems, TLAPS

(* The operations between enter and the function it returns. *)
InFlight == {c \in Calls : at[c] \in {"entered", "pending", "returned"}}

CountInv == inflight = Cardinality(InFlight)

IdleInv == inflight = 0 => idleFrom = quietFrom

(* Who is decided waits; a pane is tracked from Ask on; a closed           *)
(* connection was answered. *)
CallInv ==
  /\ \A c \in decided : at[c] = "pending"
  /\ \A c \in Calls : at[c] \in {"none", "accepted", "entered"} => herdr[c] = "none"
  /\ \A c \in Calls : at[c] = "closed" => c \in gone \union served

(* A token that Herdr has not refused to clear has a goroutine that will.  *)
TokenInv ==
  \A p \in Panes : token[p] \notin uncleared \union {NoCall} =>
    herdr[token[p]] \in {"set", "refused"} /\ pane[token[p]] = p

(* Serve outlives its handlers, and Run the goroutines of trackPane. *)
EndInv ==
  /\ run \in {"drained", "exited"} =>
       \A c \in Calls : at[c] \in {"none", "dropped", "closed"}
  /\ run = "exited" => \A c \in Calls : herdr[c] \in {"none", "done"}

IInv == TypeOK /\ CountInv /\ IdleInv /\ CallInv /\ TokenInv /\ EndInv

-----------------------------------------------------------------------------
(* The calls in flight are finitely many (service.inflight). *)
LEMMA InFlightFinite == IsFiniteSet(InFlight)
  <1>1. InFlight \in SUBSET Calls
    BY DEF InFlight
  <1> QED
    BY <1>1, FS_Subset, ServiceAssumption

(* Before the first connection (service.go: newService). *)
LEMMA InitInv == Init => IInv
  <1> SUFFICES ASSUME Init PROVE IInv
    OBVIOUS
  <1> USE DEF Init
  <1>1. TypeOK
    BY ServiceAssumption DEF TypeOK, Ops
  <1>2. CountInv
    <2>1. InFlight = {}
      BY DEF InFlight
    <2> QED
      BY <2>1, FS_EmptySet DEF CountInv
  <1>3. IdleInv /\ CallInv /\ TokenInv /\ EndInv
    BY ServiceAssumption DEF IdleInv, CallInv, TokenInv, EndInv
  <1> QED
    BY <1>1, <1>2, <1>3 DEF IInv

(* A connection is accepted (server.go: Serve). *)
LEMMA AcceptInv ==
  ASSUME IInv, NEW c \in Calls, NEW o \in Ops, NEW p \in Panes \union {NoPane}, Accept(c, o, p)
  PROVE  IInv'
  <1> USE ServiceAssumption DEF IInv, Accept, Goto, callVars, countVars, runVars, paneVars
  <1>1. InFlight' = InFlight
    BY DEF TypeOK, InFlight, CallInv
  <1>2. TypeOK'
    BY DEF TypeOK
  <1>3. CountInv' /\ IdleInv'
    BY <1>1 DEF CountInv, IdleInv
  <1>4. CallInv'
    BY DEF TypeOK, CallInv
  <1>5. TokenInv'
    BY DEF TypeOK, CallInv, TokenInv
  <1>6. EndInv'
    BY DEF TypeOK, CallInv, EndInv
  <1> QED
    BY <1>2, <1>3, <1>4, <1>5, <1>6

(* A client hangs up (client.go: Do, Close). *)
LEMMA HangUpInv ==
  ASSUME IInv, NEW c \in Calls, HangUp(c)
  PROVE  IInv'
  <1> USE ServiceAssumption DEF IInv, HangUp, callVars, countVars, runVars, paneVars
  <1>1. InFlight' = InFlight
    BY DEF TypeOK, InFlight, CallInv
  <1>2. TypeOK'
    BY DEF TypeOK
  <1>3. CountInv' /\ IdleInv'
    BY <1>1 DEF CountInv, IdleInv
  <1>4. CallInv'
    BY DEF TypeOK, CallInv
  <1>5. TokenInv'
    BY DEF TypeOK, CallInv, TokenInv
  <1>6. EndInv'
    BY DEF TypeOK, CallInv, EndInv
  <1> QED
    BY <1>2, <1>3, <1>4, <1>5, <1>6

(* No request came in time (server.go: readHeaderTimeout). *)
LEMMA DropInv ==
  ASSUME IInv, NEW c \in Calls, Drop(c)
  PROVE  IInv'
  <1> USE ServiceAssumption DEF IInv, Drop, Goto, callVars, countVars, runVars, paneVars
  <1>1. InFlight' = InFlight
    BY DEF TypeOK, InFlight, CallInv
  <1>2. TypeOK'
    BY DEF TypeOK
  <1>3. CountInv' /\ IdleInv'
    BY <1>1 DEF CountInv, IdleInv
  <1>4. CallInv'
    BY DEF TypeOK, CallInv
  <1>5. TokenInv'
    BY DEF TypeOK, CallInv, TokenInv
  <1>6. EndInv'
    BY DEF TypeOK, CallInv, EndInv
  <1> QED
    BY <1>2, <1>3, <1>4, <1>5, <1>6

(* A malformed request is answered (server.go: handle). *)
LEMMA RefuseInv ==
  ASSUME IInv, NEW c \in Calls, Refuse(c)
  PROVE  IInv'
  <1> USE ServiceAssumption DEF IInv, Refuse, Goto, callVars, countVars, runVars, paneVars
  <1>1. InFlight' = InFlight
    BY DEF TypeOK, InFlight, CallInv
  <1>2. TypeOK'
    BY DEF TypeOK
  <1>3. CountInv' /\ IdleInv'
    BY <1>1 DEF CountInv, IdleInv
  <1>4. CallInv'
    BY DEF TypeOK, CallInv
  <1>5. TokenInv'
    BY DEF TypeOK, CallInv, TokenInv
  <1>6. EndInv'
    BY DEF TypeOK, CallInv, EndInv
  <1> QED
    BY <1>2, <1>3, <1>4, <1>5, <1>6

(* The response is written (server.go: reply). *)
LEMMA ReplyInv ==
  ASSUME IInv, NEW c \in Calls, Reply(c)
  PROVE  IInv'
  <1> USE ServiceAssumption DEF IInv, Reply, Goto, callVars, countVars, runVars, paneVars
  <1>1. InFlight' = InFlight
    BY DEF TypeOK, InFlight, CallInv
  <1>2. TypeOK'
    BY DEF TypeOK
  <1>3. CountInv' /\ IdleInv'
    BY <1>1 DEF CountInv, IdleInv
  <1>4. CallInv'
    BY DEF TypeOK, CallInv
  <1>5. TokenInv'
    BY DEF TypeOK, CallInv, TokenInv
  <1>6. EndInv'
    BY DEF TypeOK, CallInv, EndInv
  <1> QED
    BY <1>2, <1>3, <1>4, <1>5, <1>6

(* An operation begins (service.go: enter). *)
LEMMA EnterInv ==
  ASSUME IInv, NEW c \in Calls, Enter(c)
  PROVE  IInv'
  <1> USE ServiceAssumption DEF IInv, Enter, Goto, callVars, countVars, runVars, paneVars
  <1>1. InFlight' = InFlight \union {c} /\ c \notin InFlight
    BY DEF TypeOK, InFlight
  <1>2. CountInv'
    BY <1>1, InFlightFinite, FS_AddElement DEF CountInv
  <1>3. inflight' \in Nat
    BY <1>1, <1>2, InFlightFinite, FS_CardinalityType, FS_AddElement, FS_RemoveElement DEF CountInv
  <1>4. TypeOK'
    BY <1>3 DEF TypeOK
  <1>5. IdleInv'
    BY <1>3 DEF TypeOK, IdleInv
  <1>6. CallInv'
    BY DEF TypeOK, CallInv
  <1>7. TokenInv'
    BY DEF TypeOK, CallInv, TokenInv
  <1>8. EndInv'
    BY DEF TypeOK, CallInv, EndInv
  <1> QED
    BY <1>2, <1>4, <1>5, <1>6, <1>7, <1>8

(* An operation ends (service.go: the function enter returns). *)
LEMMA LeaveInv ==
  ASSUME IInv, NEW c \in Calls, Leave(c)
  PROVE  IInv'
  <1> USE ServiceAssumption DEF IInv, Leave, Goto, callVars, countVars, runVars, paneVars
  <1>1. InFlight' = InFlight \ {c} /\ c \in InFlight
    BY DEF TypeOK, InFlight
  <1>2. CountInv'
    BY <1>1, InFlightFinite, FS_RemoveElement DEF CountInv
  <1>3. inflight' \in Nat
    BY <1>1, <1>2, InFlightFinite, FS_CardinalityType, FS_AddElement, FS_RemoveElement DEF CountInv
  <1>4. TypeOK'
    BY <1>3 DEF TypeOK
  <1>5. IdleInv'
    BY <1>3 DEF TypeOK, IdleInv
  <1>6. CallInv'
    BY DEF TypeOK, CallInv
  <1>7. TokenInv'
    BY DEF TypeOK, CallInv, TokenInv
  <1>8. EndInv'
    BY DEF TypeOK, CallInv, EndInv
  <1> QED
    BY <1>2, <1>4, <1>5, <1>6, <1>7, <1>8

(* An ask reaches the broker, or fails before (service.go: Ask, trackPane). *)
LEMMA AskInv ==
  ASSUME IInv, NEW c \in Calls, Ask(c)
  PROVE  IInv'
  <1> USE ServiceAssumption DEF IInv, Ask, Goto, Track, callVars, countVars, runVars, paneVars
  <1>1. InFlight' = InFlight
    BY DEF TypeOK, InFlight, CallInv
  <1>2. TypeOK'
    BY DEF TypeOK
  <1>3. CountInv' /\ IdleInv'
    BY <1>1 DEF CountInv, IdleInv
  <1>4. CallInv'
    BY DEF TypeOK, CallInv
  <1>5. TokenInv'
    BY DEF TypeOK, CallInv, TokenInv
  <1>6. EndInv'
    BY DEF TypeOK, CallInv, EndInv
  <1> QED
    BY <1>2, <1>3, <1>4, <1>5, <1>6

(* Every messenger refused the question (service.go: Ask). *)
LEMMA PostFailsInv ==
  ASSUME IInv, NEW c \in Calls, PostFails(c)
  PROVE  IInv'
  <1> USE ServiceAssumption DEF IInv, PostFails, Goto, callVars, countVars, runVars, paneVars
  <1>1. InFlight' = InFlight
    BY DEF TypeOK, InFlight, CallInv
  <1>2. TypeOK'
    BY DEF TypeOK
  <1>3. CountInv' /\ IdleInv'
    BY <1>1 DEF CountInv, IdleInv
  <1>4. CallInv'
    BY DEF TypeOK, CallInv
  <1>5. TokenInv'
    BY DEF TypeOK, CallInv, TokenInv
  <1>6. EndInv'
    BY DEF TypeOK, CallInv, EndInv
  <1> QED
    BY <1>2, <1>3, <1>4, <1>5, <1>6

(* A human or the deadline decides (service.go: Ask). *)
LEMMA AnswerInv ==
  ASSUME IInv, NEW c \in Calls, Answer(c)
  PROVE  IInv'
  <1> USE ServiceAssumption DEF IInv, Answer, Decide, callVars, countVars, runVars, paneVars
  <1>1. InFlight' = InFlight
    BY DEF TypeOK, InFlight, CallInv
  <1>2. TypeOK'
    BY DEF TypeOK
  <1>3. CountInv' /\ IdleInv'
    BY <1>1 DEF CountInv, IdleInv
  <1>4. CallInv'
    BY DEF TypeOK, CallInv
  <1>5. TokenInv'
    BY DEF TypeOK, CallInv, TokenInv
  <1>6. EndInv'
    BY DEF TypeOK, CallInv, EndInv
  <1> QED
    BY <1>2, <1>3, <1>4, <1>5, <1>6

(* The context of an ask is done (server.go: callCtx). *)
LEMMA WithdrawInv ==
  ASSUME IInv, NEW c \in Calls, Withdraw(c)
  PROVE  IInv'
  <1> USE ServiceAssumption DEF IInv, Withdraw, Decide, callVars, countVars, runVars, paneVars
  <1>1. InFlight' = InFlight
    BY DEF TypeOK, InFlight, CallInv
  <1>2. TypeOK'
    BY DEF TypeOK
  <1>3. CountInv' /\ IdleInv'
    BY <1>1 DEF CountInv, IdleInv
  <1>4. CallInv'
    BY DEF TypeOK, CallInv
  <1>5. TokenInv'
    BY DEF TypeOK, CallInv, TokenInv
  <1>6. EndInv'
    BY DEF TypeOK, CallInv, EndInv
  <1> QED
    BY <1>2, <1>3, <1>4, <1>5, <1>6

(* The broker returns the decision (service.go: Ask). *)
LEMMA SubmitReturnsInv ==
  ASSUME IInv, NEW c \in Calls, SubmitReturns(c)
  PROVE  IInv'
  <1> USE ServiceAssumption DEF IInv, SubmitReturns, Goto, callVars, countVars, runVars, paneVars
  <1>1. InFlight' = InFlight
    BY DEF TypeOK, InFlight, CallInv
  <1>2. TypeOK'
    BY DEF TypeOK
  <1>3. CountInv' /\ IdleInv'
    BY <1>1 DEF CountInv, IdleInv
  <1>4. CallInv'
    BY DEF TypeOK, CallInv
  <1>5. TokenInv'
    BY DEF TypeOK, CallInv, TokenInv
  <1>6. EndInv'
    BY DEF TypeOK, CallInv, EndInv
  <1> QED
    BY <1>2, <1>3, <1>4, <1>5, <1>6

(* Any other operation (service.go: Notify to Status). *)
LEMMA CommandInv ==
  ASSUME IInv, NEW c \in Calls, Command(c)
  PROVE  IInv'
  <1> USE ServiceAssumption DEF IInv, Command, Goto, Decide, callVars, countVars, runVars, paneVars
  <1>1. InFlight' = InFlight
    BY DEF TypeOK, InFlight, CallInv
  <1>2. TypeOK'
    BY DEF TypeOK
  <1>3. CountInv' /\ IdleInv'
    BY <1>1 DEF CountInv, IdleInv
  <1>4. CallInv'
    BY DEF TypeOK, CallInv
  <1>5. TokenInv'
    BY DEF TypeOK, CallInv, TokenInv
  <1>6. EndInv'
    BY DEF TypeOK, CallInv, EndInv
  <1> QED
    BY <1>2, <1>3, <1>4, <1>5, <1>6

(* A shutdown is requested (service.go: Shutdown). *)
LEMMA ShutdownInv ==
  ASSUME IInv, NEW c \in Calls, Shutdown(c)
  PROVE  IInv'
  <1> USE ServiceAssumption DEF IInv, Shutdown, Goto, callVars, countVars, runVars, paneVars
  <1>1. InFlight' = InFlight
    BY DEF TypeOK, InFlight, CallInv
  <1>2. TypeOK'
    BY DEF TypeOK
  <1>3. CountInv' /\ IdleInv'
    BY <1>1 DEF CountInv, IdleInv
  <1>4. CallInv'
    BY DEF TypeOK, CallInv
  <1>5. TokenInv'
    BY DEF TypeOK, CallInv, TokenInv
  <1>6. EndInv'
    BY DEF TypeOK, CallInv, EndInv
  <1> QED
    BY <1>2, <1>3, <1>4, <1>5, <1>6

(* The token is set (service.go: trackPane). *)
LEMMA SetTokenInv ==
  ASSUME IInv, NEW c \in Calls, SetToken(c)
  PROVE  IInv'
  <1> USE ServiceAssumption DEF IInv, SetToken, Showing, callVars, countVars, runVars, paneVars
  <1>1. InFlight' = InFlight
    BY DEF TypeOK, InFlight, CallInv
  <1>2. TypeOK'
    BY DEF TypeOK
  <1>3. CountInv' /\ IdleInv'
    BY <1>1 DEF CountInv, IdleInv
  <1>4. CallInv'
    BY DEF TypeOK, CallInv
  <1>5. TokenInv'
    BY DEF TypeOK, CallInv, TokenInv
  <1>6. EndInv'
    BY DEF TypeOK, CallInv, EndInv
  <1> QED
    BY <1>2, <1>3, <1>4, <1>5, <1>6

(* The token is cleared (service.go: trackPane). *)
LEMMA ClearTokenInv ==
  ASSUME IInv, NEW c \in Calls, ClearToken(c)
  PROVE  IInv'
  <1> USE ServiceAssumption DEF IInv, ClearToken, Showing, callVars, countVars, runVars, paneVars
  <1>1. InFlight' = InFlight
    BY DEF TypeOK, InFlight, CallInv
  <1>2. TypeOK'
    BY DEF TypeOK
  <1>3. CountInv' /\ IdleInv'
    BY <1>1 DEF CountInv, IdleInv
  <1>4. CallInv'
    BY DEF TypeOK, CallInv
  <1>5. TokenInv'
    BY DEF TypeOK, CallInv, TokenInv
  <1>6. EndInv'
    BY DEF TypeOK, CallInv, EndInv
  <1> QED
    BY <1>2, <1>3, <1>4, <1>5, <1>6

(* The clock ticks. *)
LEMMA TickInv ==
  ASSUME IInv, Tick
  PROVE  IInv'
  <1> USE ServiceAssumption DEF IInv, Tick, callVars, countVars, runVars, paneVars
  <1>1. InFlight' = InFlight
    BY DEF TypeOK, InFlight, CallInv
  <1>2. TypeOK'
    BY DEF TypeOK
  <1>3. CountInv' /\ IdleInv'
    BY <1>1 DEF CountInv, IdleInv
  <1>4. CallInv'
    BY DEF TypeOK, CallInv
  <1>5. TokenInv'
    BY DEF TypeOK, CallInv, TokenInv
  <1>6. EndInv'
    BY DEF TypeOK, CallInv, EndInv
  <1> QED
    BY <1>2, <1>3, <1>4, <1>5, <1>6

(* The watchdog finds the daemon idle (service.go: idle). *)
LEMMA FindIdleInv ==
  ASSUME IInv, FindIdle
  PROVE  IInv'
  <1> USE ServiceAssumption DEF IInv, FindIdle, callVars, countVars, runVars, paneVars
  <1>1. InFlight' = InFlight
    BY DEF TypeOK, InFlight, CallInv
  <1>2. TypeOK'
    BY DEF TypeOK
  <1>3. CountInv' /\ IdleInv'
    BY <1>1 DEF CountInv, IdleInv
  <1>4. CallInv'
    BY DEF TypeOK, CallInv
  <1>5. TokenInv'
    BY DEF TypeOK, CallInv, TokenInv
  <1>6. EndInv'
    BY DEF TypeOK, CallInv, EndInv
  <1> QED
    BY <1>2, <1>3, <1>4, <1>5, <1>6

(* The watchdog stops the daemon (service.go: watchIdle). *)
LEMMA IdleStopInv ==
  ASSUME IInv, IdleStop
  PROVE  IInv'
  <1> USE ServiceAssumption DEF IInv, IdleStop, callVars, countVars, runVars, paneVars
  <1>1. InFlight' = InFlight
    BY DEF TypeOK, InFlight, CallInv
  <1>2. TypeOK'
    BY DEF TypeOK
  <1>3. CountInv' /\ IdleInv'
    BY <1>1 DEF CountInv, IdleInv
  <1>4. CallInv'
    BY DEF TypeOK, CallInv
  <1>5. TokenInv'
    BY DEF TypeOK, CallInv, TokenInv
  <1>6. EndInv'
    BY DEF TypeOK, CallInv, EndInv
  <1> QED
    BY <1>2, <1>3, <1>4, <1>5, <1>6

(* The daemon is told to stop by a signal (daemon.go: Run). *)
LEMMA InterruptInv ==
  ASSUME IInv, Interrupt
  PROVE  IInv'
  <1> USE ServiceAssumption DEF IInv, Interrupt, callVars, countVars, runVars, paneVars
  <1>1. InFlight' = InFlight
    BY DEF TypeOK, InFlight, CallInv
  <1>2. TypeOK'
    BY DEF TypeOK
  <1>3. CountInv' /\ IdleInv'
    BY <1>1 DEF CountInv, IdleInv
  <1>4. CallInv'
    BY DEF TypeOK, CallInv
  <1>5. TokenInv'
    BY DEF TypeOK, CallInv, TokenInv
  <1>6. EndInv'
    BY DEF TypeOK, CallInv, EndInv
  <1> QED
    BY <1>2, <1>3, <1>4, <1>5, <1>6

(* Run notices the request (daemon.go: Run). *)
LEMMA StopRequestedInv ==
  ASSUME IInv, StopRequested
  PROVE  IInv'
  <1> USE ServiceAssumption DEF IInv, StopRequested, callVars, countVars, runVars, paneVars
  <1>1. InFlight' = InFlight
    BY DEF TypeOK, InFlight, CallInv
  <1>2. TypeOK'
    BY DEF TypeOK
  <1>3. CountInv' /\ IdleInv'
    BY <1>1 DEF CountInv, IdleInv
  <1>4. CallInv'
    BY DEF TypeOK, CallInv
  <1>5. TokenInv'
    BY DEF TypeOK, CallInv, TokenInv
  <1>6. EndInv'
    BY DEF TypeOK, CallInv, EndInv
  <1> QED
    BY <1>2, <1>3, <1>4, <1>5, <1>6

(* The listener is closed (server.go: Serve). *)
LEMMA CloseListenerInv ==
  ASSUME IInv, CloseListener
  PROVE  IInv'
  <1> USE ServiceAssumption DEF IInv, CloseListener, callVars, countVars, runVars, paneVars
  <1>1. InFlight' = InFlight
    BY DEF TypeOK, InFlight, CallInv
  <1>2. TypeOK'
    BY DEF TypeOK
  <1>3. CountInv' /\ IdleInv'
    BY <1>1 DEF CountInv, IdleInv
  <1>4. CallInv'
    BY DEF TypeOK, CallInv
  <1>5. TokenInv'
    BY DEF TypeOK, CallInv, TokenInv
  <1>6. EndInv'
    BY DEF TypeOK, CallInv, EndInv
  <1> QED
    BY <1>2, <1>3, <1>4, <1>5, <1>6

(* Serve has waited for its handlers (server.go: Serve). *)
LEMMA DrainInv ==
  ASSUME IInv, Drain
  PROVE  IInv'
  <1> USE ServiceAssumption DEF IInv, Drain, callVars, countVars, runVars, paneVars
  <1>1. InFlight' = InFlight
    BY DEF TypeOK, InFlight, CallInv
  <1>2. TypeOK'
    BY DEF TypeOK
  <1>3. CountInv' /\ IdleInv'
    BY <1>1 DEF CountInv, IdleInv
  <1>4. CallInv'
    BY DEF TypeOK, CallInv
  <1>5. TokenInv'
    BY DEF TypeOK, CallInv, TokenInv
  <1>6. EndInv'
    BY DEF TypeOK, CallInv, EndInv
  <1> QED
    BY <1>2, <1>3, <1>4, <1>5, <1>6

(* Run has waited for the callbacks (daemon.go: Run, service.wait). *)
LEMMA ExitInv ==
  ASSUME IInv, Exit
  PROVE  IInv'
  <1> USE ServiceAssumption DEF IInv, Exit, callVars, countVars, runVars, paneVars
  <1>1. InFlight' = InFlight
    BY DEF TypeOK, InFlight, CallInv
  <1>2. TypeOK'
    BY DEF TypeOK
  <1>3. CountInv' /\ IdleInv'
    BY <1>1 DEF CountInv, IdleInv
  <1>4. CallInv'
    BY DEF TypeOK, CallInv
  <1>5. TokenInv'
    BY DEF TypeOK, CallInv, TokenInv
  <1>6. EndInv'
    BY DEF TypeOK, CallInv, EndInv
  <1> QED
    BY <1>2, <1>3, <1>4, <1>5, <1>6

-----------------------------------------------------------------------------
(* Every step of the service keeps the invariant (service.go, server.go). *)
LEMMA NextInv == IInv /\ [Next]_vars => IInv'
  <1> SUFFICES ASSUME IInv, [Next]_vars PROVE IInv'
    OBVIOUS
  <1>1. ASSUME NEW c \in Calls,
               \/ \E o \in Ops, p \in Panes \union {NoPane} : Accept(c, o, p)
               \/ RequestStep(c) \/ HangUp(c) \/ Answer(c) \/ PostFails(c)
        PROVE  IInv'
    BY <1>1, AcceptInv, EnterInv, ShutdownInv, RefuseInv, HangUpInv, AnswerInv, PostFailsInv
    DEF RequestStep
  <1>2. ASSUME NEW c \in Calls, HandlerStep(c) \/ PaneStep(c)
        PROVE  IInv'
    BY <1>2, DropInv, AskInv, CommandInv, WithdrawInv, SubmitReturnsInv, LeaveInv, ReplyInv,
       SetTokenInv, ClearTokenInv
    DEF HandlerStep, PaneStep
  <1>3. CASE Tick \/ FindIdle \/ IdleStop \/ Interrupt \/ StopStep
    BY <1>3, TickInv, FindIdleInv, IdleStopInv, InterruptInv, StopRequestedInv, CloseListenerInv,
       DrainInv, ExitInv
    DEF StopStep
  <1>4. CASE UNCHANGED vars
    BY <1>4 DEF vars, callVars, countVars, runVars, paneVars, IInv, TypeOK, CountInv, InFlight,
                IdleInv, CallInv, TokenInv, EndInv
  <1> QED
    BY <1>1, <1>2, <1>3, <1>4 DEF Next

(* The inductive invariant holds in every reachable state (service.go). *)
THEOREM Invariance == Spec => []IInv
  <1> QED
    BY InitInv, NextInv, PTL DEF Spec

(* Every reachable state is type-correct; the count of calls in flight is  *)
(* a natural number (service.go: enter).                                   *)
THEOREM TypeCorrect == Spec => []TypeOK
  <1>1. IInv => TypeOK
    BY DEF IInv
  <1> QED
    BY <1>1, Invariance, PTL

(* The daemon leaves no token behind that Herdr agreed to clear            *)
(* (service.go: herdrWG; daemon.go: svc.wait).                             *)
THEOREM ClearedAtExitAlways == Spec => []ClearedAtExit
  <1>1. IInv => ClearedAtExit
    BY ServiceAssumption DEF IInv, TypeOK, TokenInv, EndInv, ClearedAtExit
  <1> QED
    BY <1>1, Invariance, PTL

(* Whoever sent a request and stayed has been answered when Serve returns  *)
(* (server.go: Serve, handle, reply).                                      *)
THEOREM EveryCallIsAnsweredAlways == Spec => []EveryCallIsAnswered
  <1>1. IInv => EveryCallIsAnswered
    BY DEF IInv, CallInv, EndInv, EveryCallIsAnswered
  <1> QED
    BY <1>1, Invariance, PTL

(* The watchdog finds the daemon idle only when the whole window was quiet *)
(* (service.go: idle, enter), for any window and any number of calls.      *)
THEOREM IdleMeansQuietAlways == Spec => IdleMeansQuiet
  <1> DEFINE Quiet == watch = "ticking" /\ watch' = "idle" =>
                        /\ now - quietFrom >= Window
                        /\ \A c \in Calls : at[c] \notin {"entered", "pending", "returned"}
  <1>1. IInv /\ [Next]_vars => [Quiet]_vars
    <2> SUFFICES ASSUME IInv, Next, watch = "ticking", watch' = "idle"
                 PROVE  Quiet
      OBVIOUS
    <2>1. FindIdle
      BY DEF Next, vars, callVars, countVars, runVars, paneVars, Tick, IdleStop, Interrupt, StopStep,
             StopRequested, CloseListener, Drain, Exit, Accept, RequestStep, Enter, Shutdown, Refuse,
             HangUp, Answer, PostFails, HandlerStep, Drop, Ask, Command, Withdraw, SubmitReturns,
             Leave, Reply, PaneStep, SetToken, ClearToken
    <2>2. InFlight = {}
      BY <2>1, InFlightFinite, FS_EmptySet DEF FindIdle, IInv, CountInv
    <2> QED
      BY <2>1, <2>2 DEF FindIdle, InFlight, IInv, IdleInv
  <1> QED
    BY <1>1, Invariance, PTL DEF Spec, IdleMeansQuiet
=============================================================================
