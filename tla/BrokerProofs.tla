---------------------------- MODULE BrokerProofs ----------------------------
(***************************************************************************)
(* Proofs about Broker: for every set of questions, messengers and calls,  *)
(* and every capacity of the ring of finished questions.                   *)
(***************************************************************************)
EXTENDS Broker, TLAPS

(* The ring index wraps around (broker.go: retire). *)
LEMMA SlotsAreClosed ==
  ASSUME NEW i \in Slots
  PROVE  NextSlot(i) \in Slots
BY BrokerAssumption, SMT DEF NextSlot, Slots

LEMMA InitTypeOK == Init => TypeOK
BY BrokerAssumption, SMT DEF Init, TypeOK, Slots, PCs, Legs, NoCall, Verdicts, Calls

-----------------------------------------------------------------------------
(* The type invariant, action by action.  It says that the state of the    *)
(* broker keeps its ranges: in particular that recentNext stays an index   *)
(* of recentRing and that a finished call names a question.                *)
LEMMA TypeStep == TypeOK /\ [Next]_vars => TypeOK'
<1>1. TypeOK /\ [Next]_vars => TypeOK'
  <2> SUFFICES ASSUME TypeOK, [Next]_vars PROVE TypeOK'
    OBVIOUS
  <2> USE DEF TypeOK, recentVars, submitVars
  <2>1. ASSUME NEW p \in Posters, Register(p) PROVE TypeOK'
    BY <2>1 DEF Register
  <2>2. ASSUME NEW r \in Requests, NEW names \in SUBSET Posters, Submit(r, names)
        PROVE  TypeOK'
    BY <2>2 DEF Submit, StartLegs, PCs, Legs
  <2>3. ASSUME NEW r \in Requests, SubmitRejected(r) PROVE TypeOK'
    BY <2>3 DEF SubmitRejected, PCs
  <2>4. ASSUME NEW r \in Requests, NEW names \in SUBSET Posters, Notify(r, names)
        PROVE  TypeOK'
    BY <2>4 DEF Notify, StartLegs, PCs, Legs
  <2>5. ASSUME NEW r \in Requests, HangUp(r) PROVE TypeOK'
    BY <2>5 DEF HangUp
  <2>6. ASSUME NEW r \in Requests, NEW p \in Posters, Deliver(r, p) PROVE TypeOK'
    BY <2>6 DEF Deliver
  <2>7. ASSUME NEW r \in Requests, NEW p \in Posters,
               NEW outcome \in {"posted", "failed"}, PostReturns(r, p, outcome)
        PROVE  TypeOK'
    BY <2>7 DEF PostReturns, Legs
  <2>8. ASSUME NEW r \in Requests, FanoutDone(r) PROVE TypeOK'
    BY <2>8 DEF FanoutDone, PCs
  <2>9. ASSUME NEW r \in Requests, FanoutFailed(r) PROVE TypeOK'
    BY <2>9 DEF FanoutFailed, PCs
  <2>10. ASSUME NEW r \in Requests, NotifyReturns(r) PROVE TypeOK'
    BY <2>10 DEF NotifyReturns, PCs
  <2>11. ASSUME NEW r \in Requests, TakeAnswer(r) PROVE TypeOK'
    BY <2>11 DEF TakeAnswer, StartSettle, SettleKept, BeginSettle, PCs, Legs
  <2>12. ASSUME NEW r \in Requests, NEW status \in Status, GiveUp(r, status)
         PROVE  TypeOK'
    <3>1. [status |-> status, by |-> "wait"] \in Answers
      BY DEF Answers
    <3>2. done' \in [Requests -> Answers \union {NoAnswer}]
      BY <2>12, <3>1 DEF GiveUp, Complete
    <3>3. result' \in [Requests -> Answers \union {NoAnswer}]
      BY <2>12, <3>2 DEF GiveUp
    <3>4. pc' \in [Requests -> PCs] /\ leg' \in [Requests -> [Posters -> Legs]]
      BY <2>12 DEF GiveUp, StartSettle, SettleKept, BeginSettle, PCs, Legs
    <3> QED
      BY <2>12, <3>2, <3>3, <3>4 DEF GiveUp, StartSettle, SettleKept
  <2>13. ASSUME NEW r \in Requests, NEW p \in Posters,
                NEW outcome \in {"settled", "unsettled"}, SettleReturns(r, p, outcome)
         PROVE  TypeOK'
    <3>1. leg' \in [Requests -> [Posters -> Legs]]
      BY <2>13 DEF SettleReturns, Legs
    <3>2. CASE message' = [message EXCEPT ![r][p] = "dead"]
      BY <2>13, <3>1, <3>2 DEF SettleReturns
    <3>3. CASE UNCHANGED message
      BY <2>13, <3>1, <3>3 DEF SettleReturns
    <3> QED
      BY <2>13, <3>2, <3>3 DEF SettleReturns
  <2>14. ASSUME NEW r \in Requests, Retire(r) PROVE TypeOK'
    <3>1. ring' \in [Slots -> Requests \union {NoRequest}] /\ recent' \subseteq Requests
      BY <2>14 DEF Retire, Remember
    <3>2. recentNext' \in Slots
      BY <2>14, SlotsAreClosed DEF Retire, Remember
    <3>3. retired' \in Seq(Requests)
      BY <2>14 DEF Retire
    <3> QED
      BY <2>14, <3>1, <3>2, <3>3 DEF Retire, PCs
  <2>15. ASSUME NEW c \in Calls, NEW r \in Requests, LookUp(c, r) PROVE TypeOK'
    BY <2>15 DEF LookUp, Missing, Verdicts
  <2>16. ASSUME NEW c \in Calls, RejectBlank(c) PROVE TypeOK'
    BY <2>16 DEF RejectBlank, Verdicts
  <2>17. ASSUME NEW c \in Calls, Finish(c) PROVE TypeOK'
    <3>1. [status |-> StatusOf(c), by |-> c] \in Answers
      BY DEF Answers, StatusOf, Status
    <3>2. done' \in [Requests -> Answers \union {NoAnswer}]
      BY <2>17, <3>1 DEF Finish, Complete
    <3>3. call' \in [Calls -> [at      : {"idle", "holding", "over"},
                             req     : Requests \union {NoRequest},
                             verdict : Verdicts]]
      BY <2>17 DEF Finish, Verdicts
    <3>4. UNCHANGED gone /\ UNCHANGED submitVars /\ UNCHANGED recentVars
      BY <2>17 DEF Finish
    <3> QED
      BY <3>2, <3>3, <3>4
  <2>18. CASE UNCHANGED vars
    BY <2>18 DEF vars
  <2> QED
    BY <2>1, <2>2, <2>3, <2>4, <2>5, <2>6, <2>7, <2>8, <2>9, <2>10, <2>11, <2>12,
       <2>13, <2>14, <2>15, <2>16, <2>17, <2>18
       DEF Next, SubmitStep, CallStep, WaitTimesOut, WaitCanceled, Status
<1> QED
  BY <1>1

(* Every reachable state of the broker is well typed. *)
THEOREM TypeCorrect == Spec => []TypeOK
BY InitTypeOK, TypeStep, PTL DEF Spec

-----------------------------------------------------------------------------
(* Which actions touch what.                                               *)

(* Only the three steps of a call change the calls. *)
LEMMA CallSplit ==
  ASSUME [Next]_vars
  PROVE  \/ UNCHANGED call
         \/ \E c \in Calls, r \in Requests : LookUp(c, r)
         \/ \E c \in Calls : RejectBlank(c) \/ Finish(c)
<1> USE DEF recentVars, submitVars
<1>1. CASE \E p \in Posters : Register(p)
  BY <1>1 DEF Register
<1>2. CASE \E r \in Requests, names \in SUBSET Posters :
             Submit(r, names) \/ SubmitRejected(r) \/ Notify(r, names)
  BY <1>2 DEF Submit, SubmitRejected, Notify
<1>3. CASE \E r \in Requests : HangUp(r)
  BY <1>3 DEF HangUp
<1>4. CASE \E r \in Requests : SubmitStep(r)
  BY <1>4 DEF SubmitStep, PostReturns, FanoutDone, FanoutFailed, NotifyReturns,
              TakeAnswer, WaitTimesOut, WaitCanceled, GiveUp, SettleReturns, Retire
<1>5. CASE \E r \in Requests, p \in Posters : Deliver(r, p)
  BY <1>5 DEF Deliver
<1>6. CASE UNCHANGED vars
  BY <1>6 DEF vars
<1> QED
  BY <1>1, <1>2, <1>3, <1>4, <1>5, <1>6 DEF Next, CallStep

(* Only Retire changes the ring of finished questions. *)
LEMMA RetireSplit ==
  ASSUME [Next]_vars
  PROVE  \/ UNCHANGED recentVars
         \/ \E r \in Requests : Retire(r)
<1>1. CASE \E p \in Posters : Register(p)
  BY <1>1 DEF Register
<1>2. CASE \E r \in Requests, names \in SUBSET Posters :
             Submit(r, names) \/ SubmitRejected(r) \/ Notify(r, names)
  BY <1>2 DEF Submit, SubmitRejected, Notify
<1>3. CASE \E r \in Requests : HangUp(r)
  BY <1>3 DEF HangUp
<1>4. CASE \E r \in Requests : SubmitStep(r)
  BY <1>4 DEF SubmitStep, PostReturns, FanoutDone, FanoutFailed, NotifyReturns,
              TakeAnswer, WaitTimesOut, WaitCanceled, GiveUp, SettleReturns
<1>5. CASE \E r \in Requests, p \in Posters : Deliver(r, p)
  BY <1>5 DEF Deliver
<1>6. CASE \E c \in Calls, r \in Requests : LookUp(c, r)
  BY <1>6 DEF LookUp
<1>7. CASE \E c \in Calls : CallStep(c)
  BY <1>7 DEF CallStep, RejectBlank, Finish
<1>8. CASE UNCHANGED vars
  BY <1>8 DEF vars, recentVars
<1> QED
  BY <1>1, <1>2, <1>3, <1>4, <1>5, <1>6, <1>7, <1>8 DEF Next

(* done is written by the wait that gives up and by the caller that        *)
(* finishes, and by nobody else. *)
LEMMA DoneSplit ==
  ASSUME [Next]_vars
  PROVE  \/ UNCHANGED done
         \/ \E r \in Requests, status \in Status : GiveUp(r, status)
         \/ \E c \in Calls : Finish(c)
<1> USE DEF submitVars
<1>1. CASE \E p \in Posters : Register(p)
  BY <1>1 DEF Register
<1>2. CASE \E r \in Requests, names \in SUBSET Posters :
             Submit(r, names) \/ SubmitRejected(r) \/ Notify(r, names)
  BY <1>2 DEF Submit, SubmitRejected, Notify
<1>3. CASE \E r \in Requests : HangUp(r)
  BY <1>3 DEF HangUp
<1>4. CASE \E r \in Requests : SubmitStep(r)
  BY <1>4 DEF SubmitStep, PostReturns, FanoutDone, FanoutFailed, NotifyReturns,
              TakeAnswer, WaitTimesOut, WaitCanceled, SettleReturns, Retire, Status
<1>5. CASE \E r \in Requests, p \in Posters : Deliver(r, p)
  BY <1>5 DEF Deliver
<1>6. CASE \E c \in Calls, r \in Requests : LookUp(c, r)
  BY <1>6 DEF LookUp
<1>7. CASE \E c \in Calls : CallStep(c)
  BY <1>7 DEF CallStep, RejectBlank
<1>8. CASE UNCHANGED vars
  BY <1>8 DEF vars
<1> QED
  BY <1>1, <1>2, <1>3, <1>4, <1>5, <1>6, <1>7, <1>8 DEF Next

(* pc is moved by the steps of one question. *)
LEMMA PhaseSplit ==
  ASSUME [Next]_vars
  PROVE  \/ UNCHANGED <<pc, pending, result>>
         \/ \E r \in Requests, names \in SUBSET Posters :
              Submit(r, names) \/ SubmitRejected(r) \/ Notify(r, names)
         \/ \E r \in Requests :
              \/ FanoutDone(r) \/ FanoutFailed(r) \/ NotifyReturns(r)
              \/ TakeAnswer(r) \/ Retire(r)
              \/ \E status \in Status : GiveUp(r, status)
<1> USE DEF submitVars
<1>1. CASE \E p \in Posters : Register(p)
  BY <1>1 DEF Register
<1>2. CASE \E r \in Requests : HangUp(r)
  BY <1>2 DEF HangUp
<1>3. CASE \E r \in Requests : SubmitStep(r)
  BY <1>3 DEF SubmitStep, PostReturns, WaitTimesOut, WaitCanceled, SettleReturns, Status
<1>4. CASE \E r \in Requests, p \in Posters : Deliver(r, p)
  BY <1>4 DEF Deliver
<1>5. CASE \E c \in Calls, r \in Requests : LookUp(c, r)
  BY <1>5 DEF LookUp
<1>6. CASE \E c \in Calls : CallStep(c)
  BY <1>6 DEF CallStep, RejectBlank, Finish
<1>7. CASE UNCHANGED vars
  BY <1>7 DEF vars
<1> QED
  BY <1>1, <1>2, <1>3, <1>4, <1>5, <1>6, <1>7 DEF Next

-----------------------------------------------------------------------------
(* A step never takes back what was decided or finished.                   *)
Progress ==
  \A r \in Requests :
    /\ Known(r) => Known(r)'
    /\ pc[r] \in {"returned", "failed"} => pc'[r] = pc[r]
    /\ done[r] # NoAnswer => done'[r] = done[r]

LEMMA StepsProgress ==
  ASSUME TypeOK, [Next]_vars
  PROVE  Progress
<1> USE DEF TypeOK
<1>1. \A r \in Requests : /\ Known(r) => Known(r)'
                          /\ pc[r] \in {"returned", "failed"} => pc'[r] = pc[r]
  <2>1. CASE UNCHANGED <<pc, pending, result>>
    BY <2>1 DEF Known
  <2>2. CASE \E r \in Requests, names \in SUBSET Posters :
               Submit(r, names) \/ SubmitRejected(r) \/ Notify(r, names)
    BY <2>2 DEF Submit, SubmitRejected, Notify, Known
  <2>3. CASE \E r \in Requests : FanoutDone(r) \/ FanoutFailed(r) \/ NotifyReturns(r)
    BY <2>3 DEF FanoutDone, FanoutFailed, NotifyReturns, Known
  <2>4. CASE \E r \in Requests : TakeAnswer(r) \/ Retire(r)
                              \/ \E status \in Status : GiveUp(r, status)
    BY <2>4 DEF TakeAnswer, GiveUp, Retire, StartSettle, SettleKept, BeginSettle, Known
  <2> QED
    BY <2>1, <2>2, <2>3, <2>4, PhaseSplit
<1>2. \A r \in Requests : done[r] # NoAnswer => done'[r] = done[r]
  BY DoneSplit DEF GiveUp, Finish, Complete
<1> QED
  BY <1>1, <1>2 DEF Progress

-----------------------------------------------------------------------------
(* EntryInv, CallInv, WinnerInv, LegInv.                                   *)

LEMMA EntryStep ==
  ASSUME TypeOK, EntryInv, CallInv, [Next]_vars
  PROVE  EntryInv'
<1> USE DEF TypeOK
<1>1. CASE UNCHANGED <<pc, pending, result>>
  <2>1. CASE UNCHANGED done
    BY <1>1, <2>1 DEF EntryInv, Known
  <2>2. ASSUME NEW r \in Requests, NEW status \in Status, GiveUp(r, status)
        PROVE  EntryInv'
    BY <1>1, <2>2 DEF GiveUp, StartSettle, SettleKept, BeginSettle
  <2>3. ASSUME NEW c \in Calls, Finish(c) PROVE EntryInv'
    <3>1. call[c].req \in Requests /\ Known(call[c].req)
      BY <2>3, BrokerAssumption DEF Finish, CallInv
    <3> QED
      BY <1>1, <2>3, <3>1 DEF Finish, Complete, EntryInv, Known
  <2> QED
    BY <2>1, <2>2, <2>3, DoneSplit
<1>2. ASSUME NEW r \in Requests, NEW names \in SUBSET Posters,
             Submit(r, names) \/ SubmitRejected(r) \/ Notify(r, names)
      PROVE  EntryInv'
  BY <1>2 DEF Submit, SubmitRejected, Notify, EntryInv, Known
<1>3. ASSUME NEW r \in Requests, FanoutDone(r) \/ FanoutFailed(r) \/ NotifyReturns(r)
      PROVE  EntryInv'
  BY <1>3 DEF FanoutDone, FanoutFailed, NotifyReturns, EntryInv, Known
<1>4. ASSUME NEW r \in Requests, TakeAnswer(r) PROVE EntryInv'
  BY <1>4 DEF TakeAnswer, StartSettle, SettleKept, BeginSettle, EntryInv, Known
<1>5. ASSUME NEW r \in Requests, NEW status \in Status, GiveUp(r, status)
      PROVE  EntryInv'
  <2>1. [status |-> status, by |-> "wait"] # NoAnswer
    BY DEF NoAnswer, Status
  <2>2. /\ done'[r] # NoAnswer /\ result'[r] = done'[r]
        /\ \A q \in Requests \ {r} : done'[q] = done[q] /\ result'[q] = result[q]
    BY <1>5, <2>1 DEF GiveUp, Complete
  <2>3. /\ pc[r] = "waiting" /\ pc'[r] = "settling" /\ pending' = pending
        /\ \A q \in Requests \ {r} : pc'[q] = pc[q]
    BY <1>5 DEF GiveUp, StartSettle, SettleKept, BeginSettle
  <2> QED
    BY <2>2, <2>3 DEF EntryInv, Known
<1>6. ASSUME NEW r \in Requests, Retire(r) PROVE EntryInv'
  BY <1>6 DEF Retire, EntryInv, Known
<1> QED
  BY <1>1, <1>2, <1>3, <1>4, <1>5, <1>6, PhaseSplit

LEMMA CallStepInv ==
  ASSUME TypeOK, CallInv, [Next]_vars
  PROVE  CallInv'
<1> USE DEF TypeOK
<1>1. \A r \in Requests : Known(r) => Known(r)'
  BY StepsProgress DEF Progress
<1>2. \A c \in Calls : call[c].at # "idle" => call[c].req \in Requests
  BY DEF CallInv
<1>3. CASE UNCHANGED call
  BY <1>1, <1>2, <1>3 DEF CallInv
<1>4. ASSUME NEW c \in Calls, NEW r \in Requests, LookUp(c, r) PROVE CallInv'
  <2>1. Known(r)'
    BY <1>1, <1>4 DEF LookUp
  <2>2. r # NoRequest
    BY BrokerAssumption
  <2> QED
    BY <1>1, <1>2, <1>4, <2>1, <2>2 DEF LookUp, Missing, CallInv
<1>5. ASSUME NEW c \in Calls, RejectBlank(c) \/ Finish(c) PROVE CallInv'
  <2>1. /\ call[c].at = "holding"
        /\ call'[c].at = "over" /\ call'[c].verdict # "nothing"
        /\ call'[c].req = call[c].req
    <3>1. call[c].at = "holding"
      BY <1>5 DEF RejectBlank, Finish
    <3>2. PICK v \in {"invalid", "accepted", "already"} :
            call' = [call EXCEPT ![c] = [@ EXCEPT !.at = "over", !.verdict = v]]
      BY <1>5 DEF RejectBlank, Finish
    <3> QED
      BY <3>1, <3>2
  <2>2. \A d \in Calls \ {c} : call'[d] = call[d]
    BY <1>5 DEF RejectBlank, Finish
  <2>3. call[c].req # NoRequest /\ Known(call[c].req)'
    BY <1>1, <1>2, <2>1 DEF CallInv
  <2> QED
    BY <1>1, <1>2, <2>1, <2>2, <2>3 DEF CallInv
<1> QED
  BY <1>3, <1>4, <1>5, CallSplit

LEMMA WinnerStep ==
  ASSUME TypeOK, CallInv, WinnerInv, [Next]_vars
  PROVE  WinnerInv'
<1> USE DEF TypeOK
<1>1. ASSUME NEW r \in Requests, NEW status \in Status, GiveUp(r, status), UNCHANGED call
      PROVE  WinnerInv'
  <2>1. "wait" \notin Calls /\ "nobody" \notin Calls
    BY BrokerAssumption
  <2>2. \A q \in Requests : done'[q] = done[q] \/ (done[q].by \notin Calls /\ done'[q].by \notin Calls)
    BY <1>1, <2>1 DEF GiveUp, Complete, NoAnswer
  <2> QED
    BY <1>1, <2>2 DEF WinnerInv
<1>2. ASSUME NEW c \in Calls, Finish(c) PROVE WinnerInv'
  <2> DEFINE r == call[c].req
             own == [status |-> StatusOf(c), by |-> c]
  <2>1. r \in Requests /\ call[c].at = "holding" /\ call[c].verdict = "nothing"
    BY <1>2, BrokerAssumption DEF Finish, CallInv
  <2>2. \A d \in Calls \ {c} : call'[d] = call[d]
    BY <1>2 DEF Finish
  <2>3. \A q \in Requests \ {r} : done'[q] = done[q]
    BY <1>2 DEF Finish, Complete
  <2>4. \A q \in Requests : done[q].by # c
    BY <2>1 DEF WinnerInv
  <2>5. call'[c].req = r
    BY <1>2, <2>1 DEF Finish
  <2>6. CASE done[r] = NoAnswer
    <3>1. done'[r] = own /\ call'[c].verdict = "accepted"
      BY <1>2, <2>1, <2>6 DEF Finish, Complete
    <3>2. \A d \in Calls : done[r].by # d
      BY <2>6, BrokerAssumption DEF NoAnswer
    <3>3. /\ done'[r].by = c
          /\ \A d \in Calls \ {c} : done'[r].by # d
      BY <3>1
    <3>4. \A d \in Calls : ~(call[d].verdict = "accepted" /\ call[d].req = r)
      BY <2>1, <3>2 DEF WinnerInv
    <3> HIDE DEF r, own
    <3>5. ASSUME NEW d \in Calls, NEW q \in Requests
          PROVE  /\ done'[q].by = d <=> call'[d].verdict = "accepted" /\ call'[d].req = q
                 /\ done'[q].by = d => done'[q] = [status |-> StatusOf(d), by |-> d]
      <4>1. CASE q = r /\ d = c
        BY <2>5, <3>1, <3>3, <4>1 DEF own
      <4>2. CASE q = r /\ d # c
        BY <2>2, <3>3, <3>4, <4>2
      <4>3. CASE q # r
        BY <2>2, <2>3, <2>4, <2>5, <3>1, <4>3 DEF WinnerInv
      <4> QED
        BY <4>1, <4>2, <4>3
    <3> QED
      BY <3>5 DEF WinnerInv
  <2>7. CASE done[r] # NoAnswer
    <3>1. done' = done /\ call'[c].verdict = "already"
      BY <1>2, <2>1, <2>7 DEF Finish, Complete
    <3> QED
      BY <2>1, <2>2, <2>4, <2>5, <3>1 DEF WinnerInv
  <2> QED
    BY <2>6, <2>7
<1>3. ASSUME UNCHANGED done, NEW c \in Calls, NEW r \in Requests, LookUp(c, r)
      PROVE  WinnerInv'
  BY <1>3 DEF LookUp, Missing, WinnerInv, CallInv
<1>4. ASSUME UNCHANGED done, NEW c \in Calls, RejectBlank(c) PROVE WinnerInv'
  <2>1. /\ call[c].verdict = "nothing" /\ call'[c].verdict = "invalid"
        /\ \A d \in Calls \ {c} : call'[d] = call[d]
    BY <1>4 DEF RejectBlank, CallInv
  <2> QED
    BY <1>4, <2>1 DEF WinnerInv
<1>5. CASE UNCHANGED <<done, call>>
  BY <1>5 DEF WinnerInv
<1>6. \A c \in Calls, r \in Requests : LookUp(c, r) => UNCHANGED done
  BY DEF LookUp
<1>7. \A c \in Calls : RejectBlank(c) => UNCHANGED done
  BY DEF RejectBlank
<1>8. \A r \in Requests, status \in Status : GiveUp(r, status) => UNCHANGED call
  BY DEF GiveUp
<1> QED
  BY <1>1, <1>2, <1>3, <1>4, <1>5, <1>6, <1>7, <1>8, CallSplit, DoneSplit

LEMMA LegStep ==
  ASSUME TypeOK, LegInv, [Next]_vars
  PROVE  LegInv'
<1> USE DEF TypeOK, recentVars, submitVars
<1>1. ASSUME NEW p \in Posters, Register(p) PROVE LegInv'
  BY <1>1 DEF Register, LegInv
<1>2. ASSUME NEW r \in Requests, NEW names \in SUBSET Posters,
             Submit(r, names) \/ Notify(r, names)
      PROVE  LegInv'
  BY <1>2 DEF Submit, Notify, StartLegs, LegInv
<1>3. ASSUME NEW r \in Requests, SubmitRejected(r) PROVE LegInv'
  BY <1>3 DEF SubmitRejected, LegInv
<1>4. ASSUME NEW r \in Requests, HangUp(r) PROVE LegInv'
  BY <1>4 DEF HangUp, LegInv
<1>5. ASSUME NEW r \in Requests, NEW p \in Posters, Deliver(r, p) PROVE LegInv'
  BY <1>5 DEF Deliver, LegInv
<1>6. ASSUME NEW r \in Requests, NEW p \in Posters,
             NEW outcome \in {"posted", "failed"}, PostReturns(r, p, outcome)
      PROVE  LegInv'
  BY <1>6 DEF PostReturns, LegInv, PCs
<1>7. ASSUME NEW r \in Requests, FanoutDone(r) \/ FanoutFailed(r) \/ NotifyReturns(r)
      PROVE  LegInv'
  <2>1. /\ \A p \in Posters : leg[r][p] # "sending"
        /\ UNCHANGED <<leg, message>>
        /\ \A q \in Requests \ {r} : pc'[q] = pc[q]
    BY <1>7 DEF FanoutDone, FanoutFailed, NotifyReturns, FanoutOver
  <2>2. \/ pc[r] = "posting" /\ pc'[r] = "waiting"
        \/ pc[r] = "notifying" /\ pc'[r] = "notified"
        \/ /\ pc[r] = "posting" /\ pc'[r] = "failed"
           /\ \A p \in Posters : leg[r][p] # "posted"
    BY <1>7 DEF FanoutDone, FanoutFailed, NotifyReturns, Posted
  <2> QED
    BY <2>1, <2>2 DEF LegInv
<1>8. ASSUME NEW r \in Requests, pc[r] = "waiting", BeginSettle(r), UNCHANGED message
      PROVE  LegInv'
  BY <1>8 DEF BeginSettle, Posted, LegInv
<1>9. ASSUME NEW r \in Requests, NEW p \in Posters,
             NEW outcome \in {"settled", "unsettled"}, SettleReturns(r, p, outcome)
      PROVE  LegInv'
  <2>1. leg[r][p] = "settling" /\ pc' = pc /\ pc[r] = "settling"
    BY <1>9 DEF SettleReturns, LegInv, PCs
  <2>2. leg' = [leg EXCEPT ![r][p] = outcome]
    BY <1>9 DEF SettleReturns
  <2>3. CASE message' = [message EXCEPT ![r][p] = "dead"]
    BY <2>1, <2>2, <2>3 DEF LegInv
  <2>4. CASE outcome = "unsettled" /\ UNCHANGED message
    BY <2>1, <2>2, <2>4 DEF LegInv
  <2> QED
    BY <1>9, <2>3, <2>4 DEF SettleReturns
<1>10. ASSUME NEW r \in Requests, Retire(r) PROVE LegInv'
  BY <1>10 DEF Retire, LegInv
<1>11. ASSUME NEW c \in Calls, NEW r \in Requests, LookUp(c, r) PROVE LegInv'
  BY <1>11 DEF LookUp, LegInv
<1>12. ASSUME NEW c \in Calls, RejectBlank(c) \/ Finish(c) PROVE LegInv'
  BY <1>12 DEF RejectBlank, Finish, LegInv
<1>13. CASE UNCHANGED vars
  BY <1>13 DEF vars, LegInv
<1>14. \A r \in Requests :
         TakeAnswer(r) \/ WaitTimesOut(r) \/ WaitCanceled(r)
           => pc[r] = "waiting" /\ BeginSettle(r) /\ UNCHANGED message
  BY DEF TakeAnswer, WaitTimesOut, WaitCanceled, GiveUp, StartSettle, SettleKept
<1> QED
  BY <1>1, <1>2, <1>3, <1>4, <1>5, <1>6, <1>7, <1>8, <1>9, <1>10, <1>11, <1>12,
     <1>13, <1>14 DEF Next, SubmitStep, CallStep

-----------------------------------------------------------------------------
(* The ring of finished questions.                                         *)

(* The slots, counted back from the next one to be written. *)
LEMMA BackIsOnto ==
  ASSUME recentNext \in Slots
  PROVE  /\ \A k \in 1 .. RecentCapacity : Back(k) \in Slots
         /\ \A i \in Slots : \E k \in 1 .. RecentCapacity : i = Back(k)
         /\ \A k, l \in 1 .. RecentCapacity : Back(k) = Back(l) => k = l
         /\ Back(RecentCapacity) = recentNext
<1> USE BrokerAssumption DEF Slots, Back
<1>1. \A i \in Slots : \E k \in 1 .. RecentCapacity : i = Back(k)
  <2> SUFFICES ASSUME NEW i \in Slots PROVE \E k \in 1 .. RecentCapacity : i = Back(k)
    OBVIOUS
  <2>1. CASE i < recentNext
    <3>1. recentNext - i \in 1 .. RecentCapacity /\ i = Back(recentNext - i)
      BY <2>1
    <3> QED
      BY <3>1
  <2>2. CASE i >= recentNext
    <3>1. /\ recentNext - i + RecentCapacity \in 1 .. RecentCapacity
          /\ i = Back(recentNext - i + RecentCapacity)
      BY <2>2
    <3> QED
      BY <3>1
  <2> QED
    BY <2>1, <2>2
<1> QED
  BY <1>1

(* Writing one slot moves every other one a step further back. *)
LEMMA NextSlotShifts ==
  ASSUME recentNext \in Slots, recentNext' = NextSlot(recentNext)
  PROVE  /\ Back(1)' = recentNext
         /\ \A k \in 2 .. RecentCapacity : Back(k)' = Back(k - 1)
<1>1. NextSlot(recentNext) = IF recentNext + 1 = RecentCapacity THEN 0 ELSE recentNext + 1
  BY BrokerAssumption DEF NextSlot, Slots
<1> QED
  BY <1>1, BrokerAssumption DEF Slots, Back

(* The slots hold what LastRetired names. *)
RingIsLastRetired == LastRetired = {ring[i] : i \in Slots} \ {NoRequest}

LEMMA RingHoldsLastRetired == TypeOK /\ RingInv => RingIsLastRetired
<1> SUFFICES ASSUME TypeOK, RingInv
             PROVE  LastRetired = {ring[i] : i \in Slots} \ {NoRequest}
  BY DEF RingIsLastRetired
<1> DEFINE n == Len(retired)
<1>1. n \in Nat /\ DOMAIN retired = 1 .. n /\ \A j \in 1 .. n : retired[j] \in Requests
  BY DEF TypeOK
<1>2. ASSUME NEW x \in LastRetired PROVE x \in {ring[i] : i \in Slots} \ {NoRequest}
  <2>1. PICK j \in 1 .. n : j > n - RecentCapacity /\ x = retired[j]
    BY <1>1, <1>2 DEF LastRetired
  <2>2. n - j + 1 \in 1 .. RecentCapacity /\ n - j + 1 <= n
        /\ n - (n - j + 1) + 1 = j
    BY <1>1, <2>1, BrokerAssumption
  <2>3. ring[Back(n - j + 1)] = x
    BY <2>1, <2>2 DEF RingInv
  <2>4. Back(n - j + 1) \in Slots
    BY <2>2, BackIsOnto DEF TypeOK
  <2> QED
    BY <1>1, <2>1, <2>3, <2>4, BrokerAssumption
<1>3. ASSUME NEW i \in Slots, ring[i] # NoRequest PROVE ring[i] \in LastRetired
  <2>1. PICK k \in 1 .. RecentCapacity : i = Back(k)
    BY BackIsOnto DEF TypeOK
  <2>2. k <= n /\ ring[i] = retired[n - k + 1]
    BY <1>3, <2>1 DEF RingInv
  <2>3. n - k + 1 \in 1 .. n /\ n - k + 1 > n - RecentCapacity
    BY <1>1, <2>1, <2>2, BrokerAssumption
  <2> QED
    BY <1>1, <2>2, <2>3 DEF LastRetired
<1> QED
  BY <1>2, <1>3

LEMMA RetireStep ==
  ASSUME TypeOK, EntryInv, RingInv, RecentIsLastRetired, NEW r \in Requests, Retire(r)
  PROVE  RingInv' /\ RecentIsLastRetired'
<1> USE BrokerAssumption DEF TypeOK
<1> DEFINE n == Len(retired)
<1>1. n \in Nat /\ DOMAIN retired = 1 .. n /\ \A j \in 1 .. n : retired[j] \in Requests
  OBVIOUS
<1>2. /\ retired' = Append(retired, r) /\ Len(retired') = n + 1
      /\ DOMAIN retired' = 1 .. n + 1
      /\ retired'[n + 1] = r
      /\ \A j \in 1 .. n : retired'[j] = retired[j]
  BY DEF Retire
<1>3. /\ pc[r] = "settling" /\ pc'[r] = "returned"
      /\ \A q \in Requests \ {r} : pc'[q] = pc[q]
  BY DEF Retire
<1>4. r \notin recent
  <2> SUFFICES ASSUME r \in recent PROVE FALSE
    OBVIOUS
  <2>1. PICK j \in DOMAIN retired : retired[j] = r
    BY DEF RecentIsLastRetired, LastRetired
  <2> QED
    BY <2>1, <1>3 DEF RingInv
<1>5. /\ ring' = [ring EXCEPT ![recentNext] = r]
      /\ recentNext' = NextSlot(recentNext)
      /\ recent' = (recent \ {ring[recentNext]}) \union {r}
  BY <1>4 DEF Retire, Remember
<1>6. /\ \A k \in 1 .. RecentCapacity : Back(k) \in Slots
      /\ \A k, l \in 1 .. RecentCapacity : Back(k) = Back(l) => k = l
      /\ Back(RecentCapacity) = recentNext
  BY BackIsOnto
<1>7. /\ Back(1)' = recentNext
      /\ \A k \in 2 .. RecentCapacity : Back(k)' = Back(k - 1)
  BY <1>5, NextSlotShifts
<1>8. RingInv'
  <2>1. ASSUME NEW k \in 1 .. RecentCapacity
        PROVE  ring'[Back(k)'] = IF k <= n + 1 THEN retired'[(n + 1) - k + 1] ELSE NoRequest
    <3>1. CASE k = 1
      BY <1>1, <1>2, <1>5, <1>7, <3>1 DEF Slots
    <3>2. CASE k # 1
      <4>1. k - 1 \in 1 .. RecentCapacity /\ k \in 2 .. RecentCapacity /\ k - 1 # RecentCapacity
        BY <3>2
      <4>2. Back(k)' = Back(k - 1) /\ Back(k - 1) # recentNext /\ Back(k - 1) \in Slots
        BY <1>6, <1>7, <4>1
      <4>3. ring'[Back(k)'] = ring[Back(k - 1)]
        BY <1>5, <4>2
      <4>4. ring[Back(k - 1)] = IF k - 1 <= n THEN retired[n - (k - 1) + 1] ELSE NoRequest
        BY <4>1 DEF RingInv
      <4>5. CASE k - 1 <= n
        <5>1. n - (k - 1) + 1 \in 1 .. n /\ n - (k - 1) + 1 = (n + 1) - k + 1
          BY <1>1, <4>1, <4>5
        <5> QED
          BY <1>1, <1>2, <4>3, <4>4, <4>5, <5>1
      <4>6. CASE ~(k - 1 <= n)
        BY <1>1, <4>3, <4>4, <4>6
      <4> QED
        BY <4>5, <4>6
    <3> QED
      BY <3>1, <3>2
  <2>2. ASSUME NEW j \in 1 .. n + 1 PROVE pc'[retired'[j]] = "returned"
    <3>1. CASE j = n + 1
      BY <1>2, <1>3, <3>1
    <3>2. CASE j # n + 1
      <4>1. j \in 1 .. n
        BY <1>1, <3>2
      <4>2. pc[retired[j]] = "returned" /\ retired[j] \in Requests \ {r}
        BY <1>1, <1>3, <4>1 DEF RingInv
      <4> QED
        BY <1>2, <1>3, <4>1, <4>2
    <3> QED
      BY <3>1, <3>2
  <2> QED
    BY <1>2, <2>1, <2>2 DEF RingInv
<1>9. TypeOK'
  <2>1. retired' \in Seq(Requests)
    BY <1>2
  <2>2. ring' \in [Slots -> Requests \union {NoRequest}] /\ recent' \subseteq Requests
    BY <1>5
  <2>3. recentNext' \in Slots
    BY <1>5, SlotsAreClosed
  <2> QED
    BY <2>1, <2>2, <2>3 DEF Retire, PCs
<1>10. RingIsLastRetired'
  BY <1>8, <1>9, RingHoldsLastRetired, PTL
<1>11. /\ recent = {ring[i] : i \in Slots} \ {NoRequest}
       /\ \A i, j \in Slots : ring[i] = ring[j] /\ ring[i] # NoRequest => i = j
  BY DEF RecentIsLastRetired
<1>12. recent' = {ring'[i] : i \in Slots} \ {NoRequest}
  <2>1. \A i \in Slots \ {recentNext} : ring'[i] = ring[i]
    BY <1>5
  <2>2. ring'[recentNext] = r /\ r # NoRequest
    BY <1>5
  <2>3. ASSUME NEW x \in recent' PROVE x \in {ring'[i] : i \in Slots} \ {NoRequest}
    <3>1. CASE x = r
      BY <2>2, <3>1
    <3>2. CASE x # r
      <4>1. PICK i \in Slots : x = ring[i] /\ x # NoRequest /\ i # recentNext
        BY <1>5, <1>11, <2>3, <3>2
      <4> QED
        BY <2>1, <4>1
    <3> QED
      BY <3>1, <3>2
  <2>4. ASSUME NEW i \in Slots, ring'[i] # NoRequest PROVE ring'[i] \in recent'
    <3>1. CASE i = recentNext
      BY <1>5, <2>2, <3>1
    <3>2. CASE i # recentNext
      <4>1. ring'[i] = ring[i] /\ ring[i] \in recent /\ ring[i] # ring[recentNext]
        BY <1>11, <2>1, <2>4, <3>2
      <4> QED
        BY <1>5, <4>1
    <3> QED
      BY <3>1, <3>2
  <2> QED
    BY <2>3, <2>4
<1>13. \A i, j \in Slots : ring'[i] = ring'[j] /\ ring'[i] # NoRequest => i = j
  <2>1. \A i \in Slots : ring[i] # r
    BY <1>4, <1>11
  <2> QED
    BY <1>5, <1>11, <2>1
<1> QED
  BY <1>8, <1>10, <1>12, <1>13 DEF RecentIsLastRetired, RingIsLastRetired

LEMMA RingStep ==
  ASSUME TypeOK, EntryInv, RingInv, RecentIsLastRetired, [Next]_vars
  PROVE  RingInv' /\ RecentIsLastRetired'
<1>1. CASE UNCHANGED recentVars
  <2>1. \A q \in Requests : pc[q] = "returned" => pc'[q] = "returned"
    BY StepsProgress DEF Progress
  <2>2. \A j \in DOMAIN retired : retired[j] \in Requests
    BY DEF TypeOK
  <2>3. RingInv'
    BY <1>1, <2>1, <2>2 DEF recentVars, RingInv, Back
  <2>4. LastRetired' = LastRetired
    BY <1>1 DEF recentVars, LastRetired
  <2> QED
    BY <1>1, <2>3, <2>4 DEF recentVars, RecentIsLastRetired
<1> QED
  BY <1>1, RetireStep, RetireSplit

(* A question leaves LastRetired for good: only one that is not yet        *)
(* finished can enter it. *)
LEMMA ForgottenStays ==
  ASSUME TypeOK, EntryInv, RingInv, [Next]_vars,
         NEW r \in Requests, pc[r] = "returned", r \notin LastRetired
  PROVE  r \notin LastRetired'
<1>1. CASE UNCHANGED recentVars
  BY <1>1 DEF recentVars, LastRetired
<1>2. ASSUME NEW q \in Requests, Retire(q) PROVE r \notin LastRetired'
  <2> DEFINE n == Len(retired)
  <2>1. n \in Nat /\ DOMAIN retired = 1 .. n
    BY DEF TypeOK
  <2>2. /\ Len(retired') = n + 1 /\ DOMAIN retired' = 1 .. n + 1
        /\ retired'[n + 1] = q
        /\ \A j \in 1 .. n : retired'[j] = retired[j]
    BY <1>2 DEF Retire, TypeOK
  <2>3. r # q
    BY <1>2 DEF Retire
  <2>4. ASSUME NEW j \in 1 .. n + 1, j > n + 1 - RecentCapacity, retired'[j] = r
        PROVE  FALSE
    <3>1. j \in 1 .. n /\ j > n - RecentCapacity
      BY <2>1, <2>2, <2>3, <2>4, BrokerAssumption
    <3> QED
      BY <2>1, <2>2, <2>4, <3>1 DEF LastRetired
  <2>5. SUFFICES ASSUME r \in LastRetired' PROVE FALSE
    OBVIOUS
  <2>6. PICK j \in DOMAIN retired' : j > Len(retired') - RecentCapacity /\ retired'[j] = r
    BY <2>5 DEF LastRetired
  <2>7. j \in 1 .. n + 1 /\ j > n + 1 - RecentCapacity /\ retired'[j] = r
    <3>1. j \in 1 .. n + 1
      BY <2>2, <2>6
    <3>2. j > n + 1 - RecentCapacity
      BY <2>1, <2>2, <2>6, <3>1, BrokerAssumption
    <3> QED
      BY <2>6, <3>1, <3>2
  <2> QED
    BY <2>4, <2>6, <2>7
<1> QED
  BY <1>1, <1>2, RetireSplit

LEMMA LateStep ==
  ASSUME IInv, [Next]_vars, WinnerInv'
  PROVE  LateCallerIsTold'
<1> USE DEF TypeOK, IInv
<1>1. Progress
  BY StepsProgress
<1>2. ASSUME NEW c \in Calls, NEW r \in Requests, call[c].req = r,
             call[c].verdict = "unknown"
      PROVE  \/ pc'[r] = "failed"
             \/ pc'[r] = "returned" /\ (c \in Clicks => r \notin LastRetired')
  BY <1>1, <1>2, ForgottenStays DEF LateCallerIsTold, Progress
<1>3. ASSUME NEW c \in Calls, NEW r \in Requests, call'[c].req = r,
             call'[c].verdict = "already"
      PROVE  done'[r].by # c
  BY <1>3 DEF WinnerInv
<1>4. CASE UNCHANGED call
  BY <1>1, <1>2, <1>3, <1>4 DEF LateCallerIsTold, Progress
<1>5. ASSUME NEW c \in Calls, NEW r \in Requests, LookUp(c, r)
      PROVE  LateCallerIsTold'
  <2>1. /\ \A d \in Calls \ {c} : call'[d] = call[d]
        /\ call'[c].req = r
        /\ call'[c].verdict = IF r \in pending THEN "nothing" ELSE Missing(c, r)
        /\ UNCHANGED <<pc, done, retired>>
        /\ Known(r)
    BY <1>5 DEF LookUp, submitVars, recentVars
  <2>2. call'[c].verdict = "already" => done'[r] # NoAnswer
    <3>1. ASSUME r \in recent PROVE pc[r] = "returned"
      BY <3>1 DEF RecentIsLastRetired, LastRetired, RingInv
    <3> QED
      BY <2>1, <3>1 DEF Missing, EntryInv
  <2>3. call'[c].verdict = "unknown" =>
          \/ pc'[r] = "failed"
          \/ pc'[r] = "returned" /\ (c \in Clicks => r \notin LastRetired')
    <3>1. LastRetired' = recent
      BY <2>1 DEF LastRetired, RecentIsLastRetired
    <3>2. r \notin pending => pc[r] \in {"returned", "failed"}
      BY <2>1 DEF EntryInv, Known
    <3> QED
      BY <2>1, <3>1, <3>2 DEF Missing
  <2>4. ASSUME NEW d \in Calls, NEW q \in Requests, call'[d].req = q
        PROVE  /\ call'[d].verdict = "already" => done'[q] # NoAnswer /\ done'[q].by # d
               /\ call'[d].verdict = "unknown" =>
                    \/ pc'[q] = "failed"
                    \/ pc'[q] = "returned" /\ (d \in Clicks => q \notin LastRetired')
    <3>1. CASE d = c
      BY <1>3, <2>1, <2>2, <2>3, <2>4, <3>1
    <3>2. CASE d # c
      BY <1>1, <1>2, <1>3, <2>1, <2>4, <3>2 DEF LateCallerIsTold, Progress
    <3> QED
      BY <3>1, <3>2
  <2> QED
    BY <2>4 DEF LateCallerIsTold
<1>6. ASSUME NEW c \in Calls, RejectBlank(c) \/ Finish(c)
      PROVE  LateCallerIsTold'
  <2>1. /\ \A d \in Calls \ {c} : call'[d] = call[d]
        /\ call'[c].req = call[c].req
        /\ call'[c].verdict # "unknown"
    <3>1. PICK v \in {"invalid", "accepted", "already"} :
            call' = [call EXCEPT ![c] = [@ EXCEPT !.at = "over", !.verdict = v]]
      BY <1>6 DEF RejectBlank, Finish
    <3> QED
      BY <3>1
  <2>2. call'[c].verdict = "already" => done[call[c].req] # NoAnswer
    BY <1>6 DEF RejectBlank, Finish
  <2>3. ASSUME NEW d \in Calls, NEW q \in Requests, call'[d].req = q
        PROVE  /\ call'[d].verdict = "already" => done'[q] # NoAnswer /\ done'[q].by # d
               /\ call'[d].verdict = "unknown" =>
                    \/ pc'[q] = "failed"
                    \/ pc'[q] = "returned" /\ (d \in Clicks => q \notin LastRetired')
    <3>1. CASE d = c
      BY <1>1, <1>3, <2>1, <2>2, <2>3, <3>1 DEF Progress
    <3>2. CASE d # c
      <4>1. call'[d] = call[d] /\ call[d].req = q
        BY <2>1, <2>3, <3>2
      <4>2. call[d].verdict = "already" => done'[q] # NoAnswer
        BY <1>1, <4>1 DEF LateCallerIsTold, Progress
      <4> QED
        BY <1>2, <1>3, <2>3, <4>1, <4>2
    <3> QED
      BY <3>1, <3>2
  <2> QED
    BY <2>3 DEF LateCallerIsTold
<1> QED
  BY <1>4, <1>5, <1>6, CallSplit

-----------------------------------------------------------------------------
(* The inductive invariant and what follows from it.                       *)

LEMMA InitIInv == Init => IInv
<1> SUFFICES ASSUME Init PROVE IInv
  OBVIOUS
<1>1. TypeOK
  BY InitTypeOK
<1>2. EntryInv /\ CallInv /\ LegInv
  BY BrokerAssumption DEF Init, EntryInv, CallInv, LegInv, Known, NoCall
<1>3. WinnerInv
  BY BrokerAssumption DEF Init, WinnerInv, NoAnswer, NoCall
<1>4. RingInv
  <2>1. recentNext \in Slots
    BY <1>1 DEF TypeOK
  <2>2. \A k \in 1 .. RecentCapacity : ring[Back(k)] = NoRequest /\ ~(k <= Len(retired))
    BY <2>1, BackIsOnto DEF Init
  <2> QED
    BY <2>2 DEF Init, RingInv
<1>5. RecentIsLastRetired
  <2>1. recent = {} /\ LastRetired = {}
    BY DEF Init, LastRetired
  <2>2. \A i \in Slots : ring[i] = NoRequest
    BY DEF Init
  <2> QED
    BY <2>1, <2>2 DEF RecentIsLastRetired
<1>6. LateCallerIsTold
  BY DEF Init, LateCallerIsTold, NoCall
<1> QED
  BY <1>1, <1>2, <1>3, <1>4, <1>5, <1>6 DEF IInv

LEMMA StepIInv == IInv /\ [Next]_vars => IInv'
<1> SUFFICES ASSUME IInv, [Next]_vars PROVE IInv'
  OBVIOUS
<1>1. TypeOK' /\ EntryInv' /\ CallInv' /\ WinnerInv' /\ LegInv'
  BY TypeStep, EntryStep, CallStepInv, WinnerStep, LegStep DEF IInv
<1>2. RingInv' /\ RecentIsLastRetired'
  BY RingStep DEF IInv
<1>3. LateCallerIsTold'
  BY <1>1, LateStep
<1> QED
  BY <1>1, <1>2, <1>3 DEF IInv

(* The inductive invariant holds in every reachable state. *)
THEOREM Invariance == Spec => []IInv
BY InitIInv, StepIInv, PTL DEF Spec

(* The human whose Resolve or Cancel was accepted is the one whose answer  *)
(* Submit returns, for any number of messengers and racing callers. *)
THEOREM AcceptedIsReturnedAlways == Spec => []AcceptedIsReturned
<1>1. IInv => AcceptedIsReturned
  BY DEF IInv, EntryInv, WinnerInv, AcceptedIsReturned
<1> QED
  BY <1>1, Invariance, PTL

(* An answer that carries a human's name was accepted from that human. *)
THEOREM ReturnedWasAcceptedAlways == Spec => []ReturnedWasAccepted
<1>1. IInv => ReturnedWasAccepted
  <2> SUFFICES ASSUME IInv, NEW r \in Requests, NEW c \in Calls, result[r].by = c
               PROVE  call[c].req = r /\ call[c].verdict = "accepted"
    BY DEF ReturnedWasAccepted
  <2>1. result[r] # NoAnswer
    BY BrokerAssumption DEF NoAnswer
  <2>2. result[r] = done[r]
    BY <2>1 DEF IInv, EntryInv
  <2>3. done[r].by = c
    BY <2>2
  <2>4. done[r].by = c <=> call[c].verdict = "accepted" /\ call[c].req = r
    BY DEF IInv, WinnerInv
  <2> QED
    BY <2>3, <2>4
<1> QED
  BY <1>1, Invariance, PTL

(* Among all who answer or cancel a question at most one is told that it   *)
(* was accepted, also when the question then fails and nobody gets that    *)
(* answer (broker.go: complete, sync.Once).                                *)
THEOREM OneIsAccepted ==
  Spec => [](\A c, other \in Calls :
               /\ call[c].verdict = "accepted" /\ call[other].verdict = "accepted"
               /\ call[c].req = call[other].req
               => c = other)
<1>1. ASSUME IInv, NEW c \in Calls, call[c].verdict = "accepted" PROVE call[c].req \in Requests
  <2>1. call[c].req # NoRequest
    BY <1>1 DEF IInv, CallInv
  <2> QED BY <1>1, <2>1 DEF IInv, TypeOK
<1>2. IInv => \A c, other \in Calls :
                /\ call[c].verdict = "accepted" /\ call[other].verdict = "accepted"
                /\ call[c].req = call[other].req
                => c = other
  <2> SUFFICES ASSUME IInv, NEW c \in Calls, NEW other \in Calls,
                      call[c].verdict = "accepted", call[other].verdict = "accepted",
                      call[c].req = call[other].req
               PROVE  c = other
    OBVIOUS
  <2> DEFINE r == call[c].req
  <2>1. done[r].by = c /\ done[r].by = other
    BY <1>1 DEF IInv, WinnerInv
  <2> QED BY <2>1
<1> QED
  BY <1>2, Invariance, PTL

(* The ring of any capacity remembers exactly the questions finished last, *)
(* each in one slot. *)
THEOREM RecentIsLastRetiredAlways == Spec => []RecentIsLastRetired
BY Invariance, PTL DEF IInv

(* A late human hears "already answered" only when somebody else decided,  *)
(* and Resolve says "unknown" only of a failed or long forgotten question. *)
THEOREM LateCallerIsToldAlways == Spec => []LateCallerIsTold
BY Invariance, PTL DEF IInv

(* Submit returns only after every delivered message was settled. *)
THEOREM SettledBeforeReturnAlways == Spec => []SettledBeforeReturn
<1>1. IInv => SettledBeforeReturn
  <2> SUFFICES ASSUME IInv, NEW r \in Requests, pc[r] = "returned", NEW p \in Posters
               PROVE  /\ leg[r][p] \in {"idle", "failed", "settled", "unsettled"}
                      /\ message[r][p] = "live" => leg[r][p] \in {"failed", "unsettled"}
    BY DEF SettledBeforeReturn
  <2>1. leg[r][p] \in Legs
    BY DEF IInv, TypeOK
  <2> QED
    BY <2>1 DEF IInv, LegInv, Legs
<1> QED
  BY <1>1, Invariance, PTL

-----------------------------------------------------------------------------
(* The broker implements AnswerOnce, step by step.                         *)

LEMMA InitPromise == Init => Promise!Init
<1> SUFFICES ASSUME Init PROVE Promise!Init
  OBVIOUS
<1>1. Asked = {}
  BY DEF Init, Asked, Known
<1>2. Outcome = [r \in Requests |-> NoAnswer]
  BY DEF Init, Outcome
<1>3. Told = [c \in Calls |-> "nothing"]
  BY DEF Init, Told, NoCall
<1> QED
  BY <1>1, <1>2, <1>3 DEF Init, Promise!Init, Promise!NoDecision, NoAnswer

(* Steps that move no question between the abstract phases. *)
LEMMA PhaseStutters ==
  ASSUME TypeOK, UNCHANGED <<done, call>>,
         \A r \in Requests : Known(r)' = Known(r),
         \A r \in Requests : Outcome'[r] = Outcome[r]
  PROVE  UNCHANGED Promise!vars
<1>1. Asked' = Asked
  BY DEF Asked
<1>2. Outcome' = Outcome
  BY DEF Outcome
<1>3. Told' = Told
  BY DEF Told
<1> QED
  BY <1>1, <1>2, <1>3 DEF Promise!vars

LEMMA SubmitIsAsk ==
  ASSUME TypeOK, NEW r \in Requests, NEW names \in SUBSET Posters, Submit(r, names)
  PROVE  Promise!Ask(r)
<1>1. r \notin Asked /\ Asked' = Asked \union {r}
  BY DEF Submit, Asked, Known, TypeOK
<1>2. Outcome' = Outcome
  BY DEF Submit, Outcome, TypeOK
<1>3. Told' = Told /\ done' = done
  BY DEF Submit, Told
<1> QED
  BY <1>1, <1>2, <1>3 DEF Promise!Ask

LEMMA FanoutFailedIsFail ==
  ASSUME TypeOK, NEW r \in Requests, FanoutFailed(r)
  PROVE  Promise!Fail(r)
<1>1. r \in Asked /\ Asked' = Asked
  BY DEF FanoutFailed, Asked, Known, TypeOK
<1>2. Outcome[r] = NoAnswer
  BY DEF FanoutFailed, Outcome
<1>3. Outcome' = [Outcome EXCEPT ![r] = Promise!Failed]
  BY DEF FanoutFailed, Outcome, TypeOK, Promise!Failed
<1>4. Told' = Told /\ done' = done
  BY DEF FanoutFailed, Told
<1> QED
  BY <1>1, <1>2, <1>3, <1>4 DEF Promise!Fail, Promise!NoDecision, NoAnswer

LEMMA RetireIsReturn ==
  ASSUME TypeOK, EntryInv, NEW r \in Requests, Retire(r)
  PROVE  Promise!Return(r)
<1>1. Asked' = Asked
  BY DEF Retire, Asked, Known, TypeOK
<1>2. Outcome[r] = NoAnswer
  BY DEF Retire, Outcome
<1>3. done[r] # NoAnswer /\ result[r] = done[r]
  BY DEF Retire, EntryInv
<1>4. Outcome' = [Outcome EXCEPT ![r] = done[r]]
  BY <1>3 DEF Retire, Outcome, TypeOK
<1>5. Told' = Told /\ done' = done
  BY DEF Retire, Told
<1> QED
  BY <1>1, <1>2, <1>3, <1>4, <1>5 DEF Promise!Return, Promise!NoDecision, NoAnswer

LEMMA GiveUpIsDecideByWait ==
  ASSUME TypeOK, NEW r \in Requests, NEW status \in Status, GiveUp(r, status)
  PROVE  \/ Promise!DecideByWait(r, status)
         \/ UNCHANGED Promise!vars
<1>1. r \in Asked /\ Asked' = Asked
  BY DEF GiveUp, StartSettle, SettleKept, BeginSettle, Asked, Known, TypeOK
<1>2. Outcome[r] = NoAnswer /\ Outcome' = Outcome
  <2>1. /\ pc[r] = "waiting" /\ pc'[r] = "settling"
        /\ \A q \in Requests \ {r} : pc'[q] = pc[q] /\ result'[q] = result[q]
    BY DEF GiveUp, StartSettle, SettleKept, BeginSettle, TypeOK
  <2>2. \A q \in Requests : Outcome'[q] = Outcome[q]
    BY <2>1 DEF Outcome
  <2> QED
    BY <2>1, <2>2 DEF Outcome
<1>3. Told' = Told
  BY DEF GiveUp, Told
<1>4. CASE done[r] = NoAnswer
  BY <1>1, <1>2, <1>3, <1>4
     DEF GiveUp, Complete, Promise!DecideByWait, Promise!NoDecision, NoAnswer
<1>5. CASE done[r] # NoAnswer
  BY <1>1, <1>2, <1>3, <1>5 DEF GiveUp, Complete, Promise!vars
<1> QED
  BY <1>4, <1>5

LEMMA LookUpIsRefuse ==
  ASSUME IInv, IInv', NEW c \in Calls, NEW r \in Requests, LookUp(c, r)
  PROVE  \/ \E verdict \in Promise!Verdicts : Promise!Refuse(r, c, verdict)
         \/ UNCHANGED Promise!vars
<1> USE DEF IInv, TypeOK
<1>1. UNCHANGED <<pc, result, done>> /\ r \in Asked /\ Asked' = Asked /\ Outcome' = Outcome
  BY DEF LookUp, submitVars, Asked, Known, Outcome
<1>2. call[c].verdict = "nothing" /\ Told[c] = "nothing"
  BY DEF LookUp, CallInv, Told
<1>3. CASE r \in pending
  <2>1. Told' = Told
    BY <1>2, <1>3 DEF LookUp, Told
  <2> QED
    BY <1>1, <2>1 DEF Promise!vars
<1>4. CASE r \notin pending
  <2> DEFINE v == Missing(c, r)
  <2>1. Told' = [Told EXCEPT ![c] = v]
    BY <1>4 DEF LookUp, Told
  <2>2. v \in {"already", "unknown"}
    BY DEF Missing
  <2>3. call'[c].req = r /\ call'[c].verdict = v
    BY <1>4 DEF LookUp
  <2>4. v = "already" => done[r] # NoAnswer
    <3>1. LateCallerIsTold'
      OBVIOUS
    <3>2. call'[c].verdict = "already" => done'[r] # NoAnswer
      BY <2>3, <3>1 DEF LateCallerIsTold
    <3> QED
      BY <1>1, <2>3, <3>2
  <2>5. v = "unknown" => Outcome[r] # NoAnswer
    <3>1. pc[r] \in {"returned", "failed"}
      BY <1>4 DEF LookUp, Known, EntryInv
    <3>2. pc[r] = "returned" => result[r] # NoAnswer
      BY DEF EntryInv
    <3>3. Outcome[r] = IF pc[r] = "returned" THEN result[r]
                       ELSE [status |-> "failed", by |-> "nobody"]
      BY <3>1 DEF Outcome
    <3>4. [status |-> "failed", by |-> "nobody"] # NoAnswer
      BY DEF NoAnswer
    <3> QED
      BY <3>2, <3>3, <3>4
  <2>6. v \in Promise!Verdicts
    BY <2>2 DEF Promise!Verdicts
  <2> HIDE DEF v
  <2>7. Promise!Refuse(r, c, v)
    <3>1. Promise!NoDecision = NoAnswer
      BY DEF Promise!NoDecision, NoAnswer
    <3>2. v \in {"already", "unknown", "invalid"}
      BY <2>2
    <3> QED
      BY <1>1, <1>2, <2>1, <2>4, <2>5, <3>1, <3>2 DEF Promise!Refuse
  <2> QED
    BY <2>6, <2>7
<1> QED
  BY <1>3, <1>4

LEMMA RejectIsRefuse ==
  ASSUME IInv, NEW c \in Calls, RejectBlank(c)
  PROVE  \E r \in Requests, verdict \in Promise!Verdicts : Promise!Refuse(r, c, verdict)
<1> USE DEF IInv, TypeOK
<1> DEFINE r == call[c].req
<1>1. call[c].at = "holding" /\ call[c].verdict = "nothing" /\ r \in Requests /\ Known(r)
  BY DEF RejectBlank, CallInv
<1>2. UNCHANGED <<pc, result, done>> /\ r \in Asked /\ Asked' = Asked /\ Outcome' = Outcome
  BY <1>1 DEF RejectBlank, submitVars, Asked, Known, Outcome
<1>3. Told[c] = "nothing" /\ Told' = [Told EXCEPT ![c] = "invalid"]
  <2>1. /\ call'[c].verdict = "invalid"
        /\ \A d \in Calls \ {c} : call'[d] = call[d]
    BY DEF RejectBlank
  <2> QED
    BY <1>1, <2>1 DEF Told
<1>4. Promise!Refuse(r, c, "invalid")
  BY <1>2, <1>3 DEF Promise!Refuse
<1> QED
  BY <1>1, <1>4 DEF Promise!Verdicts

LEMMA FinishIsDecideOrRefuse ==
  ASSUME IInv, NEW c \in Calls, Finish(c)
  PROVE  \E r \in Requests :
           \/ \E status \in {"answered", "canceled"} : Promise!DecideByHuman(r, c, status)
           \/ \E verdict \in Promise!Verdicts : Promise!Refuse(r, c, verdict)
<1> USE DEF IInv, TypeOK
<1> DEFINE r == call[c].req
<1>1. call[c].at = "holding" /\ call[c].verdict = "nothing" /\ r \in Requests /\ Known(r)
  BY DEF Finish, CallInv
<1>2. UNCHANGED <<pc, result>> /\ r \in Asked /\ Asked' = Asked /\ Outcome' = Outcome
  BY <1>1 DEF Finish, submitVars, Asked, Known, Outcome
<1>3. Told[c] = "nothing"
  BY <1>1 DEF Told
<1>4. \A d \in Calls \ {c} : call'[d] = call[d]
  BY DEF Finish
<1>5. CASE done[r] = NoAnswer
  <2>1. call'[c].verdict = "accepted"
    BY <1>5 DEF Finish
  <2>2. Told' = [Told EXCEPT ![c] = "accepted"]
    BY <1>4, <2>1 DEF Told
  <2>3. done' = [done EXCEPT ![r] = [status |-> StatusOf(c), by |-> c]]
    BY <1>5 DEF Finish, Complete
  <2>4. Promise!DecideByHuman(r, c, StatusOf(c))
    BY <1>2, <1>3, <1>5, <2>2, <2>3 DEF Promise!DecideByHuman, Promise!NoDecision, NoAnswer
  <2> QED
    BY <1>1, <2>4 DEF StatusOf
<1>6. CASE done[r] # NoAnswer
  <2>1. call'[c].verdict = "already"
    BY <1>6 DEF Finish
  <2>2. Told' = [Told EXCEPT ![c] = "already"]
    BY <1>4, <2>1 DEF Told
  <2>3. done' = done
    BY <1>6 DEF Finish, Complete
  <2>4. Promise!Refuse(r, c, "already")
    BY <1>2, <1>3, <1>6, <2>2, <2>3 DEF Promise!Refuse, Promise!NoDecision, NoAnswer
  <2> QED
    BY <1>1, <2>4 DEF Promise!Verdicts
<1> QED
  BY <1>5, <1>6

(* The steps AnswerOnce does not see. *)
LEMMA OtherStepsStutter ==
  ASSUME TypeOK, NEW r \in Requests
  PROVE  /\ \A p \in Posters : Register(p) => UNCHANGED Promise!vars
         /\ \A names \in SUBSET Posters :
              SubmitRejected(r) \/ Notify(r, names) => UNCHANGED Promise!vars
         /\ HangUp(r) => UNCHANGED Promise!vars
         /\ \A p \in Posters : Deliver(r, p) => UNCHANGED Promise!vars
         /\ \A p \in Posters, outcome \in {"posted", "failed"} :
              PostReturns(r, p, outcome) => UNCHANGED Promise!vars
         /\ FanoutDone(r) \/ NotifyReturns(r) => UNCHANGED Promise!vars
         /\ TakeAnswer(r) => UNCHANGED Promise!vars
         /\ \A p \in Posters, outcome \in {"settled", "unsettled"} :
              SettleReturns(r, p, outcome) => UNCHANGED Promise!vars
<1> USE DEF TypeOK, submitVars, recentVars
<1>1. ASSUME UNCHANGED <<pc, done, result, call>> PROVE UNCHANGED Promise!vars
  <2>1. /\ \A q \in Requests : Known(q)' = Known(q)
        /\ \A q \in Requests : Outcome'[q] = Outcome[q]
    BY <1>1 DEF Known, Outcome
  <2> QED
    BY <1>1, <2>1, PhaseStutters
<1>2. ASSUME NEW names \in SUBSET Posters, SubmitRejected(r) \/ Notify(r, names)
      PROVE  UNCHANGED Promise!vars
  <2>1. UNCHANGED <<done, call>>
    BY <1>2 DEF SubmitRejected, Notify
  <2>2. /\ \A q \in Requests : Known(q)' = Known(q)
        /\ \A q \in Requests : Outcome'[q] = Outcome[q]
    BY <1>2 DEF SubmitRejected, Notify, Known, Outcome
  <2> QED
    BY <2>1, <2>2, PhaseStutters
<1>3. ASSUME FanoutDone(r) \/ NotifyReturns(r) PROVE UNCHANGED Promise!vars
  <2>1. UNCHANGED <<done, call>>
    BY <1>3 DEF FanoutDone, NotifyReturns
  <2>2. /\ \A q \in Requests : Known(q)' = Known(q)
        /\ \A q \in Requests : Outcome'[q] = Outcome[q]
    BY <1>3 DEF FanoutDone, NotifyReturns, Known, Outcome
  <2> QED
    BY <2>1, <2>2, PhaseStutters
<1>4. ASSUME TakeAnswer(r) PROVE UNCHANGED Promise!vars
  <2>1. UNCHANGED <<done, call>>
    BY <1>4 DEF TakeAnswer
  <2>2. /\ pc[r] = "waiting" /\ pc'[r] = "settling"
        /\ \A q \in Requests \ {r} : pc'[q] = pc[q] /\ result'[q] = result[q]
    BY <1>4 DEF TakeAnswer, StartSettle, SettleKept, BeginSettle
  <2>3. /\ \A q \in Requests : Known(q)' = Known(q)
        /\ \A q \in Requests : Outcome'[q] = Outcome[q]
    BY <2>2 DEF Known, Outcome
  <2> QED
    BY <2>1, <2>3, PhaseStutters
<1> QED
  BY <1>1, <1>2, <1>3, <1>4 DEF Register, HangUp, Deliver, PostReturns, SettleReturns

LEMMA StepPromise == IInv /\ IInv' /\ [Next]_vars => [Promise!Next]_Promise!vars
<1> SUFFICES ASSUME IInv, IInv', [Next]_vars PROVE [Promise!Next]_Promise!vars
  OBVIOUS
<1>1. TypeOK /\ EntryInv
  BY DEF IInv
<1>2. CASE \E p \in Posters : Register(p)
  <2>1. CASE Requests = {}
    BY <1>1, <1>2, <2>1 DEF Register, Promise!vars, Asked, Outcome, Told
  <2>2. CASE Requests # {}
    BY <1>1, <1>2, <2>2, OtherStepsStutter
  <2> QED
    BY <2>1, <2>2
<1>3. ASSUME NEW r \in Requests, NEW names \in SUBSET Posters,
             Submit(r, names) \/ SubmitRejected(r) \/ Notify(r, names)
      PROVE  [Promise!Next]_Promise!vars
  BY <1>1, <1>3, SubmitIsAsk, OtherStepsStutter DEF Promise!Next
<1>4. ASSUME NEW r \in Requests, HangUp(r) \/ SubmitStep(r)
      PROVE  [Promise!Next]_Promise!vars
  <2>1. CASE FanoutFailed(r)
    BY <1>1, <2>1, FanoutFailedIsFail DEF Promise!Next
  <2>2. CASE Retire(r)
    BY <1>1, <2>2, RetireIsReturn DEF Promise!Next
  <2>3. CASE WaitTimesOut(r) \/ WaitCanceled(r)
    <3>1. PICK status \in {"timeout", "canceled"} : GiveUp(r, status)
      BY <2>3 DEF WaitTimesOut, WaitCanceled
    <3> QED
      BY <1>1, <3>1, GiveUpIsDecideByWait DEF Promise!Next, Status
  <2> QED
    BY <1>1, <1>4, <2>1, <2>2, <2>3, OtherStepsStutter DEF SubmitStep
<1>5. ASSUME NEW r \in Requests, NEW p \in Posters, Deliver(r, p)
      PROVE  [Promise!Next]_Promise!vars
  BY <1>1, <1>5, OtherStepsStutter
<1>6. ASSUME NEW c \in Calls, NEW r \in Requests, LookUp(c, r)
      PROVE  [Promise!Next]_Promise!vars
  BY <1>6, LookUpIsRefuse DEF Promise!Next
<1>7. ASSUME NEW c \in Calls, CallStep(c) PROVE [Promise!Next]_Promise!vars
  BY <1>7, RejectIsRefuse, FinishIsDecideOrRefuse DEF CallStep, Promise!Next
<1>8. CASE UNCHANGED vars
  BY <1>8 DEF vars, Promise!vars, Asked, Outcome, Told, Known
<1> QED
  BY <1>2, <1>3, <1>4, <1>5, <1>6, <1>7, <1>8 DEF Next

-----------------------------------------------------------------------------
(* What a messenger may rely on, and its model takes for granted (Ask,     *)
(* WaitReturns and Retire of Telegram and of Discord).                     *)

(* Post is called once, for a question no human has seen, and an ask can   *)
(* be looked up before its Post begins. *)
PostedOnce(r, p) ==
  leg'[r][p] = "sending" /\ leg[r][p] # "sending" =>
    /\ leg[r][p] = "idle" /\ message[r][p] = "none" /\ done[r] = NoAnswer
    /\ r \in pending' \/ pc'[r] = "notifying"

(* Settle is called once, for a message that Post reported as delivered,   *)
(* with the answer that decided and while the question is still known. *)
SettledOnce(r, p) ==
  leg'[r][p] = "settling" /\ leg[r][p] # "settling" =>
    /\ leg[r][p] = "posted" /\ r \in pending /\ r \in pending'
    /\ done'[r] # NoAnswer /\ result'[r] = done'[r]

(* An entry is forgotten only when this messenger has nothing to show, or  *)
(* the question is decided and its Settle has returned. *)
ForgottenLast(r, p) ==
  r \in pending /\ r \notin pending' =>
    \/ leg[r][p] \in {"idle", "failed"}
    \/ done[r] # NoAnswer /\ leg[r][p] \in {"settled", "unsettled"}

(* What each messenger was asked to do changes when a question starts, when *)
(* wait returns and when one of its calls returns. *)
LEMMA LegSplit ==
  ASSUME [Next]_vars
  PROVE  \/ UNCHANGED leg
         \/ \E r \in Requests, names \in SUBSET Posters : Submit(r, names) \/ Notify(r, names)
         \/ \E r \in Requests : TakeAnswer(r) \/ \E status \in Status : GiveUp(r, status)
         \/ \E r \in Requests, p \in Posters :
              leg' = [leg EXCEPT ![r][p] = "posted"] \/ leg' = [leg EXCEPT ![r][p] = "failed"]
         \/ \E r \in Requests, p \in Posters :
              leg' = [leg EXCEPT ![r][p] = "settled"] \/ leg' = [leg EXCEPT ![r][p] = "unsettled"]
<1> USE DEF submitVars
<1>1. CASE \E p \in Posters : Register(p)
  BY <1>1 DEF Register
<1>2. CASE \E r \in Requests, names \in SUBSET Posters :
             Submit(r, names) \/ SubmitRejected(r) \/ Notify(r, names)
  BY <1>2 DEF SubmitRejected
<1>3. CASE \E r \in Requests : HangUp(r)
  BY <1>3 DEF HangUp
<1>4. ASSUME NEW r \in Requests, NEW p \in Posters, NEW outcome \in {"posted", "failed"},
             PostReturns(r, p, outcome)
      PROVE  leg' = [leg EXCEPT ![r][p] = "posted"] \/ leg' = [leg EXCEPT ![r][p] = "failed"]
  BY <1>4 DEF PostReturns
<1>5. ASSUME NEW r \in Requests, NEW p \in Posters, NEW outcome \in {"settled", "unsettled"},
             SettleReturns(r, p, outcome)
      PROVE  leg' = [leg EXCEPT ![r][p] = "settled"] \/ leg' = [leg EXCEPT ![r][p] = "unsettled"]
  BY <1>5 DEF SettleReturns
<1>6. CASE \E r \in Requests : SubmitStep(r)
  BY <1>4, <1>5, <1>6 DEF SubmitStep, FanoutDone, FanoutFailed, NotifyReturns, WaitTimesOut,
                          WaitCanceled, Retire, Status
<1>7. CASE \E r \in Requests, p \in Posters : Deliver(r, p)
  BY <1>7 DEF Deliver
<1>8. CASE \E c \in Calls, r \in Requests : LookUp(c, r)
  BY <1>8 DEF LookUp
<1>9. CASE \E c \in Calls : CallStep(c)
  BY <1>9 DEF CallStep, RejectBlank, Finish
<1>10. CASE UNCHANGED vars
  BY <1>10 DEF vars
<1> QED
  BY <1>1, <1>2, <1>3, <1>6, <1>7, <1>8, <1>9, <1>10 DEF Next

(* Every step of the broker keeps what a messenger relies on. *)
LEMMA StepKeepsTheContract ==
  ASSUME IInv, IInv', [Next]_vars, NEW r \in Requests, NEW p \in Posters
  PROVE  PostedOnce(r, p) /\ SettledOnce(r, p) /\ ForgottenLast(r, p)
<1>1. TypeOK /\ EntryInv /\ LegInv /\ EntryInv'
  BY DEF IInv
<1>2. /\ leg \in [Requests -> [Posters -> Legs]] /\ leg[r][p] \in Legs
      /\ pc \in [Requests -> PCs]
  BY <1>1 DEF TypeOK
<1>3. ASSUME UNCHANGED leg PROVE PostedOnce(r, p) /\ SettledOnce(r, p)
  BY <1>3 DEF PostedOnce, SettledOnce
<1>4. ASSUME NEW q \in Requests, NEW names \in SUBSET Posters, Submit(q, names) \/ Notify(q, names)
      PROVE  PostedOnce(r, p) /\ SettledOnce(r, p) /\ UNCHANGED done
  <2>1. pc[q] = "new" /\ leg' = [leg EXCEPT ![q] =
          [n \in Posters |-> IF n \in Selected(names) THEN "sending" ELSE "idle"]]
    BY <1>4 DEF Submit, Notify, StartLegs
  <2>2. SettledOnce(r, p)
    BY <1>2, <2>1 DEF SettledOnce
  <2>3. CASE r # q
    BY <1>2, <1>4, <2>1, <2>2, <2>3 DEF PostedOnce, Submit, Notify
  <2>4. CASE r = q
    <3>1. leg[r][p] = "idle" /\ message[r][p] = "none" /\ done[r] = NoAnswer
      BY <1>1, <2>1, <2>4 DEF LegInv, EntryInv, Known
    <3>2. r \in pending' \/ pc'[r] = "notifying"
      BY <1>2, <1>4, <2>4 DEF Submit, Notify
    <3> QED BY <1>4, <2>2, <3>1, <3>2 DEF PostedOnce, Submit, Notify
  <2> QED BY <2>3, <2>4
<1>5. ASSUME NEW q \in Requests, TakeAnswer(q) \/ \E status \in Status : GiveUp(q, status)
      PROVE  PostedOnce(r, p) /\ SettledOnce(r, p)
  <2>1. /\ pc[q] = "waiting" /\ pc'[q] = "settling" /\ UNCHANGED pending
        /\ leg' = [leg EXCEPT ![q] =
                     [n \in Posters |-> IF n \in Posted(q) THEN "settling" ELSE leg[q][n]]]
    BY <1>2, <1>5 DEF TakeAnswer, GiveUp, StartSettle, SettleKept, BeginSettle
  <2>2. CASE r # q
    BY <1>2, <2>1, <2>2 DEF PostedOnce, SettledOnce
  <2>3. CASE r = q
    <3>1. r \in pending /\ r \in pending'
      BY <1>1, <1>2, <2>1, <2>3 DEF EntryInv
    <3>2. done'[r] # NoAnswer /\ result'[r] = done'[r]
      BY <1>1, <1>2, <2>1, <2>3 DEF EntryInv
    <3>3. leg[r][p] \notin {"settling", "settled", "unsettled"}
      BY <1>1, <1>2, <2>1, <2>3 DEF LegInv
    <3>4. PostedOnce(r, p)
      BY <1>1, <1>2, <2>1, <2>3 DEF PostedOnce
    <3> QED BY <1>2, <2>1, <2>3, <3>1, <3>2, <3>3, <3>4 DEF SettledOnce, Posted
  <2> QED BY <2>2, <2>3
<1>6. ASSUME NEW q \in Requests, NEW n \in Posters,
             \/ leg' = [leg EXCEPT ![q][n] = "posted"] \/ leg' = [leg EXCEPT ![q][n] = "failed"]
             \/ leg' = [leg EXCEPT ![q][n] = "settled"] \/ leg' = [leg EXCEPT ![q][n] = "unsettled"]
      PROVE  PostedOnce(r, p) /\ SettledOnce(r, p)
  BY <1>6, <1>2 DEF PostedOnce, SettledOnce
<1>7. PostedOnce(r, p) /\ SettledOnce(r, p)
  BY <1>3, <1>4, <1>5, <1>6, LegSplit
<1>8. ASSUME r \in pending, r \notin pending' PROVE FanoutFailed(r) \/ Retire(r)
  BY <1>1, <1>8, PhaseSplit
  DEF Submit, SubmitRejected, Notify, FanoutDone, FanoutFailed, NotifyReturns, TakeAnswer,
      GiveUp, StartSettle, SettleKept, Retire
<1>9. ASSUME FanoutFailed(r) PROVE leg[r][p] \in {"idle", "failed"}
  BY <1>9, <1>2 DEF FanoutFailed, FanoutOver, Posted, Legs
<1>10. ASSUME Retire(r)
       PROVE  /\ done[r] # NoAnswer
              /\ leg[r][p] \in {"idle", "failed", "settled", "unsettled"}
  BY <1>10, <1>1, <1>2 DEF Retire, EntryInv, LegInv, Legs
<1> QED
  BY <1>7, <1>8, <1>9, <1>10 DEF ForgottenLast

(* Each messenger, of any number, is asked to post a question once and to  *)
(* settle it once, with the answer that decided, and can look it up from   *)
(* before its Post begins until its Settle has returned (broker.go: Submit,*)
(* fanout, settle, retire).                                                *)
THEOREM MessengersMayRely ==
  Spec => [][\A r \in Requests, p \in Posters :
               PostedOnce(r, p) /\ SettledOnce(r, p) /\ ForgottenLast(r, p)]_vars
<1>1. IInv /\ IInv' /\ [Next]_vars =>
        [\A r \in Requests, p \in Posters :
           PostedOnce(r, p) /\ SettledOnce(r, p) /\ ForgottenLast(r, p)]_vars
  BY StepKeepsTheContract
<1> QED
  BY <1>1, Invariance, PTL DEF Spec

(* The broker implements its abstract promise: one decision, the truth     *)
(* told to every human, and that decision or an error for the asker. *)
THEOREM Implementation == Spec => ImplementsPromise
BY InitPromise, StepPromise, Invariance, PTL DEF Spec, Promise!Spec, ImplementsPromise
=============================================================================
