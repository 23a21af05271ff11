--------------------------- MODULE TelegramProofs ---------------------------
(***************************************************************************)
(* Proofs about Telegram, for any number of questions, presses and         *)
(* messages, any timeout and grace period, and however long a question     *)
(* takes to be posted: nobody is told something that did not happen, a     *)
(* reply to an outstanding question that was posted within the grace       *)
(* period answers no other one, and the transport implements the contract  *)
(* of a messenger.                                                         *)
(***************************************************************************)
EXTENDS Telegram, TLAPS

(* What makes them inductive.                                              *)

(* A question: what its Submit, Post and Settle leave behind at each step. *)
QuestionInv(q) ==
  /\ phase[q] = "new" => message[q] = "none" /\ winner[q] = Nobody /\ post[q] = "idle"
  /\ phase[q] \in {"settling", "returned"} => winner[q] # Nobody
  /\ Open(q) \/ phase[q] = "notifying" => loop \notin {"off", "closed"}
  /\ Asking(q) => post[q] # "idle"
  /\ phase[q] \in {"waiting", "settling"} => post[q] \in {"posted", "failed"}
  /\ phase[q] = "posting" /\ post[q] = "sending" => ~Refused(q)
  /\ post[q] = "posted" => message[q] # "none"
  /\ q \in posted => /\ post[q] = "posted"
                     /\ phase[q] \in {"posting", "waiting", "settling", "notifying", "notified"}
  /\ settle[q] # "idle" => phase[q] = "settling"
  /\ phase[q] = "settling" => (settle[q] = "idle" <=> post[q] # "posted")
  /\ settle[q] \in {"forgotten", "stripped", "ok", "error"} => q \notin posted

(* Its times: the timer is started when the question is posted, and what   *)
(* is due is done before the clock moves on.  So a question that nobody    *)
(* has settled is remembered, or it is overdue.                            *)
TimeInv(q) ==
  /\ q \in Timed =>
       /\ phase[q] = "posting" => created[q] <= now
       /\ phase[q] \in {"waiting", "settling"} => created[q] <= started[q] /\ started[q] <= now
       /\ phase[q] = "waiting" \/ settle[q] = "called" => now <= started[q] + Timeout
  /\ phase[q] \in {"posting", "waiting"} /\ post[q] = "posted" => q \in posted \/ Overdue(q)
  /\ settle[q] = "called" => q \in posted \/ Overdue(q)
  /\ settle[q] = "ok" => message[q] = "dead" \/ Overdue(q)

(* A press or a message, being x: what it is bound to, and what its author *)
(* was told about which question.                                          *)
Fits(u, x) ==
  /\ x.at # "over" => x.told = "nothing"
  /\ x.at = "found" => x.bound # Nobody
  /\ x.at = "found" => phase[x.bound] \in {"posting", "waiting", "settling", "returned", "failed"}
  /\ x.target # Nobody => message[x.target] # "none"
  /\ u \in Presses /\ x.at = "sent" => x.target # Nobody
  /\ x.told = "accepted" <=> \E q \in Questions : winner[q] = u
  /\ x.told = "late" => /\ x.bound # Nobody
                        /\ \/ winner[x.bound] \notin {Nobody, u}
                           \/ phase[x.bound] \in {"failed", "lost"}
  /\ x.told = "gone" => x.target # Nobody /\ ~Open(x.target)

UpdateInv(u) == Fits(u, update[u])

IInv ==
  /\ TypeOK
  /\ Questions = Buttons \union free
  /\ byMessage = posted
  /\ \A q \in Questions : QuestionInv(q) /\ TimeInv(q)
  /\ \A u \in Updates : UpdateInv(u)

USE TelegramAssumption DEF Updates

-----------------------------------------------------------------------------
(* Preservation.                                                           *)

LEMMA InitIInv == Init => IInv
<1> SUFFICES ASSUME Init PROVE IInv
  OBVIOUS
<1>1. TypeOK
  BY DEF Init, TypeOK, NoUpdate, Attempts
<1>2. ASSUME NEW q \in Questions PROVE QuestionInv(q) /\ TimeInv(q)
  BY <1>2 DEF Init, QuestionInv, TimeInv, Asking, Open, Overdue, Fanout
<1>3. ASSUME NEW u \in Updates PROVE UpdateInv(u)
  BY <1>3 DEF Init, UpdateInv, Fits, NoUpdate
<1>4. Questions = Buttons \union free /\ byMessage = posted
  BY DEF Init
<1> QED BY <1>1, <1>2, <1>3, <1>4 DEF IInv

(* Only notices and overdue questions are pruned: any other question that  *)
(* still has to be settled is remembered longer than it can wait.          *)
LEMMA OpenIsKept ==
  ASSUME IInv, NEW q \in posted, ~Notice(q)
  PROVE  /\ Open(q) /\ settle[q] \in {"idle", "called"}
         /\ Expired(q) => Overdue(q)
<1>1. /\ q \in Questions /\ QuestionInv(q) /\ TimeInv(q)
      /\ now \in Nat /\ created[q] \in Nat /\ started[q] \in Nat
      /\ settle[q] \in {"idle", "called", "forgotten", "stripped", "ok", "error"}
  BY DEF IInv, TypeOK
<1>2. phase[q] = "posting" \/ phase[q] = "waiting" \/ (phase[q] = "settling" /\ settle[q] = "called")
  BY <1>1 DEF QuestionInv, Notice
<1>3. Open(q) /\ settle[q] \in {"idle", "called"}
  BY <1>1, <1>2 DEF Open, QuestionInv
<1>4. Expired(q) => Overdue(q)
  BY <1>1, <1>2, <1>3 DEF TimeInv, Expired, Overdue, Fanout
<1> QED BY <1>3, <1>4

Prunes ==
  /\ posted' = Kept(posted)
  /\ byMessage' = byMessage \ (posted \ Kept(posted))

LEMMA PruneKeepsQuestions ==
  ASSUME IInv, Prunes, UNCHANGED <<now, channel, free, textReplies, loop, phase, created, started, winner, post, message, settle>>
  PROVE  /\ \A q \in Questions : QuestionInv(q)' /\ TimeInv(q)'
         /\ posted' \subseteq posted /\ byMessage' = posted'
         /\ \A q \in posted : ~Notice(q) => q \in posted' \/ Overdue(q)
<1>1. posted' \subseteq posted /\ byMessage' = posted'
  BY DEF Prunes, Kept, IInv
<1>2. \A q \in posted : ~Notice(q) => q \in posted' \/ Overdue(q)
  BY OpenIsKept DEF Prunes, Kept
<1>3. ASSUME NEW q \in Questions PROVE QuestionInv(q)' /\ TimeInv(q)'
  <2>1. QuestionInv(q) /\ TimeInv(q)
    BY DEF IInv
  <2>2. q \in posted' => q \in posted
    BY <1>1
  <2>3. q \in posted /\ phase[q] \in {"posting", "waiting", "settling"} => q \in posted' \/ Overdue(q)
    BY <1>2 DEF Notice
  <2>4. settle[q] = "called" => phase[q] = "settling"
    BY <2>1 DEF QuestionInv
  <2>5. Overdue(q)' <=> Overdue(q)
    BY DEF Overdue, Fanout, Open
  <2>6. QuestionInv(q)'
    BY <2>1, <2>2 DEF QuestionInv, Open, Refused, Asking
  <2>7. TimeInv(q)'
    BY <2>1, <2>3, <2>4, <2>5 DEF TimeInv
  <2> QED BY <2>6, <2>7
<1> QED BY <1>1, <1>2, <1>3

(* What the transport and the clock do as a whole. *)
LEMMA LifeKeeps ==
  ASSUME IInv, Life
  PROVE  IInv'
<1> USE DEF IInv, brokerVars, mapVars, loopVars
<1>1. CASE Start
  <2>1. TypeOK'
    BY <1>1 DEF Start, TypeOK
  <2>2. ASSUME NEW q \in Questions PROVE QuestionInv(q)'
    BY <1>1, <2>2 DEF Start, TypeOK, QuestionInv, Open, Refused, Asking
  <2>3. ASSUME NEW q \in Questions PROVE TimeInv(q)'
    BY <1>1, <2>3 DEF Start, TypeOK, QuestionInv, TimeInv, Overdue, Fanout, Asking, Open
  <2>4. ASSUME NEW u \in Updates PROVE UpdateInv(u)'
    BY <1>1, <2>4 DEF Start, TypeOK, UpdateInv, Fits, Open
  <2> QED BY <1>1, <2>1, <2>2, <2>3, <2>4 DEF Start
<1>2. CASE Conflict
  <2>1. TypeOK'
    BY <1>2 DEF Conflict, TypeOK
  <2>2. ASSUME NEW q \in Questions PROVE QuestionInv(q)'
    BY <1>2, <2>2 DEF Conflict, TypeOK, QuestionInv, Open, Refused, Asking
  <2>3. ASSUME NEW q \in Questions PROVE TimeInv(q)'
    BY <1>2, <2>3 DEF Conflict, TypeOK, QuestionInv, TimeInv, Overdue, Fanout, Asking, Open
  <2>4. ASSUME NEW u \in Updates PROVE UpdateInv(u)'
    BY <1>2, <2>4 DEF Conflict, TypeOK, UpdateInv, Fits, Open
  <2> QED BY <1>2, <2>1, <2>2, <2>3, <2>4 DEF Conflict
<1>3. CASE Crash
  <2>1. TypeOK'
    BY <1>3 DEF Crash, TypeOK, Attempts, NoUpdate, Cleared, Idle
  <2>2. ASSUME NEW q \in Questions PROVE QuestionInv(q)'
    BY <1>3, <2>2 DEF Crash, TypeOK, QuestionInv, Open, Refused, Asking, Attempts, NoUpdate, Cleared, Idle
  <2>3. ASSUME NEW q \in Questions PROVE TimeInv(q)'
    BY <1>3, <2>3 DEF Crash, TypeOK, QuestionInv, TimeInv, Overdue, Fanout, Asking, Open, Attempts, NoUpdate, Cleared, Idle
  <2>4. ASSUME NEW u \in Updates PROVE UpdateInv(u)'
    BY <1>3, <2>4 DEF Crash, TypeOK, UpdateInv, Fits, Open, Attempts, NoUpdate, Cleared, Idle
  <2> QED BY <1>3, <2>1, <2>2, <2>3, <2>4 DEF Crash
<1>4. CASE Tick
  <2>1. TypeOK'
    BY <1>4 DEF Tick, TypeOK, Prompt, Due
  <2>2. ASSUME NEW q \in Questions PROVE QuestionInv(q)'
    BY <1>4, <2>2 DEF Tick, TypeOK, QuestionInv, Open, Refused, Asking, Prompt, Due
  <2>3. ASSUME NEW q \in Questions PROVE TimeInv(q)'
    BY <1>4, <2>3 DEF Tick, TypeOK, QuestionInv, TimeInv, Overdue, Fanout, Asking, Open, Prompt, Due
  <2>4. ASSUME NEW u \in Updates PROVE UpdateInv(u)'
    BY <1>4, <2>4 DEF Tick, TypeOK, UpdateInv, Fits, Open, Prompt, Due
  <2> QED BY <1>4, <2>1, <2>2, <2>3, <2>4 DEF Tick
<1>5. CASE Close
  <2>1. TypeOK'
    BY <1>5 DEF Close, TypeOK
  <2>2. ASSUME NEW q \in Questions PROVE QuestionInv(q)'
    BY <1>5, <2>2 DEF Close, TypeOK, QuestionInv, Open, Refused, Asking
  <2>3. ASSUME NEW q \in Questions PROVE TimeInv(q)'
    BY <1>5, <2>3 DEF Close, TypeOK, QuestionInv, TimeInv, Overdue, Fanout, Asking, Open
  <2>4. ASSUME NEW u \in Updates PROVE UpdateInv(u)'
    BY <1>5, <2>4 DEF Close, TypeOK, UpdateInv, Fits, Open
  <2> QED BY <1>5, <2>1, <2>2, <2>3, <2>4 DEF Close
<1> QED BY <1>1, <1>2, <1>3, <1>4, <1>5 DEF Life

(* A step of a Submit or a Notify leaves the other questions alone, and    *)
(* of a human's attempt only whether its question is open.                 *)
LEMMA SubmitKeeps ==
  ASSUME IInv, NEW q \in Questions, SubmitStep(q)
  PROVE  IInv'
<1> USE DEF IInv, brokerVars, mapVars, loopVars
<1>1. CASE Ask(q)
  <2>1. TypeOK'
    BY <1>1 DEF Ask, TypeOK, Stamped, Refused
  <2>2. ASSUME NEW p \in Questions PROVE QuestionInv(p)'
    BY <1>1, <2>2 DEF Ask, TypeOK, QuestionInv, Open, Asking, Refused, Stamped
  <2>3. ASSUME NEW p \in Questions PROVE TimeInv(p)'
    BY <1>1, <2>3 DEF Ask, TypeOK, QuestionInv, TimeInv, Open, Overdue, Fanout, Asking, Stamped, Refused
  <2>4. ASSUME NEW u \in Updates PROVE UpdateInv(u)'
    BY <1>1, <2>4 DEF Ask, TypeOK, QuestionInv, UpdateInv, Fits, Open, Asking, Stamped, Refused
  <2>5. byMessage' = posted' /\ free' = free
    BY <1>1 DEF Ask, Stamped, Refused
  <2> QED BY <2>1, <2>2, <2>3, <2>4, <2>5
<1>2. CASE Notify(q)
  <2>1. TypeOK'
    BY <1>2 DEF Notify, TypeOK, Stamped
  <2>2. ASSUME NEW p \in Questions PROVE QuestionInv(p)'
    BY <1>2, <2>2 DEF Notify, TypeOK, QuestionInv, Open, Asking, Refused, Stamped
  <2>3. ASSUME NEW p \in Questions PROVE TimeInv(p)'
    BY <1>2, <2>3 DEF Notify, TypeOK, QuestionInv, TimeInv, Open, Overdue, Fanout, Asking, Stamped
  <2>4. ASSUME NEW u \in Updates PROVE UpdateInv(u)'
    BY <1>2, <2>4 DEF Notify, TypeOK, QuestionInv, UpdateInv, Fits, Open, Asking, Stamped
  <2>5. byMessage' = posted' /\ free' = free
    BY <1>2 DEF Notify, Stamped
  <2> QED BY <2>1, <2>2, <2>3, <2>4, <2>5
<1>3. CASE SendMessage(q)
  <2>1. TypeOK'
    BY <1>3 DEF SendMessage, TypeOK, Notice
  <2>2. ASSUME NEW p \in Questions PROVE QuestionInv(p)'
    BY <1>3, <2>2 DEF SendMessage, TypeOK, QuestionInv, Open, Asking, Refused, Notice
  <2>3. ASSUME NEW p \in Questions PROVE TimeInv(p)'
    BY <1>3, <2>3 DEF SendMessage, TypeOK, QuestionInv, TimeInv, Open, Overdue, Fanout, Asking, Notice
  <2>4. ASSUME NEW u \in Updates PROVE UpdateInv(u)'
    BY <1>3, <2>4 DEF SendMessage, TypeOK, QuestionInv, UpdateInv, Fits, Open, Asking, Notice
  <2>5. byMessage' = posted' /\ free' = free
    BY <1>3 DEF SendMessage, Notice
  <2> QED BY <2>1, <2>2, <2>3, <2>4, <2>5
<1>4. CASE Posts(q)
  <2>1. TypeOK'
    BY <1>4 DEF Posts, TypeOK, Remember, Kept
  <2>2. ASSUME NEW p \in Questions PROVE QuestionInv(p)'
    <3>1. p \in posted' => p = q \/ p \in posted
      BY <1>4 DEF Posts, Remember, Kept
    <3>2. q \in posted'
      BY <1>4 DEF Posts, Remember
    <3> QED BY <1>4, <2>2, <3>1, <3>2
            DEF Posts, TypeOK, QuestionInv, Open, Asking, Refused
  <2>3. ASSUME NEW p \in Questions PROVE TimeInv(p)'
    <3>1. p \in posted /\ ~Notice(p) => p \in posted' \/ Overdue(p)
      BY <1>4, OpenIsKept DEF Posts, Remember, Kept
    <3>2. q \in posted'
      BY <1>4 DEF Posts, Remember
    <3>3. settle[p] = "called" => phase[p] = "settling"
      BY <2>3 DEF QuestionInv
    <3>4. Overdue(p)' <=> Overdue(p)
      BY <1>4 DEF Posts, Overdue, Fanout, Open
    <3>5. QuestionInv(p) /\ TimeInv(p)
      BY <2>3
    <3> QED BY <1>4, <2>3, <3>1, <3>2, <3>3, <3>4, <3>5 DEF Posts, TypeOK, TimeInv, Notice
  <2>4. ASSUME NEW u \in Updates PROVE UpdateInv(u)'
    BY <1>4, <2>4 DEF Posts, TypeOK, QuestionInv, UpdateInv, Fits, Open, Asking, Remember, Kept
  <2>5. byMessage' = posted' /\ free' = free
    BY <1>4 DEF Posts, Remember, Kept
  <2> QED BY <2>1, <2>2, <2>3, <2>4, <2>5
<1>5. CASE PostFails(q)
  <2>1. TypeOK'
    BY <1>5 DEF PostFails, TypeOK
  <2>2. ASSUME NEW p \in Questions PROVE QuestionInv(p)'
    BY <1>5, <2>2 DEF PostFails, TypeOK, QuestionInv, Open, Asking, Refused
  <2>3. ASSUME NEW p \in Questions PROVE TimeInv(p)'
    BY <1>5, <2>3 DEF PostFails, TypeOK, QuestionInv, TimeInv, Open, Overdue, Fanout, Asking
  <2>4. ASSUME NEW u \in Updates PROVE UpdateInv(u)'
    BY <1>5, <2>4 DEF PostFails, TypeOK, QuestionInv, UpdateInv, Fits, Open, Asking
  <2>5. byMessage' = posted' /\ free' = free
    BY <1>5 DEF PostFails
  <2> QED BY <2>1, <2>2, <2>3, <2>4, <2>5
<1>6. ASSUME NEW ok \in BOOLEAN, FanoutDone(q, ok) PROVE IInv'
  <2>1. TypeOK'
    BY <1>6 DEF FanoutDone, TypeOK, Notice, Stamped, Cleared
  <2>2. ASSUME NEW p \in Questions PROVE QuestionInv(p)'
    BY <1>6, <2>2 DEF FanoutDone, TypeOK, QuestionInv, Open, Asking, Refused, Notice, Stamped, Cleared
  <2>3. ASSUME NEW p \in Questions PROVE TimeInv(p)'
    BY <1>6, <2>3 DEF FanoutDone, TypeOK, QuestionInv, TimeInv, Open, Overdue, Fanout, Asking, Notice, Stamped, Cleared
  <2>4. ASSUME NEW u \in Updates PROVE UpdateInv(u)'
    BY <1>6, <2>4 DEF FanoutDone, TypeOK, QuestionInv, UpdateInv, Fits, Open, Asking, Notice, Stamped, Cleared
  <2>5. byMessage' = posted' /\ free' = free
    BY <1>6 DEF FanoutDone, Notice, Stamped, Cleared
  <2> QED BY <2>1, <2>2, <2>3, <2>4, <2>5
<1>7. ASSUME NEW ok \in BOOLEAN, StripKeyboard(q, ok) PROVE IInv'
  <2>1. TypeOK'
    BY <1>7 DEF StripKeyboard, TypeOK
  <2>2. ASSUME NEW p \in Questions PROVE QuestionInv(p)'
    BY <1>7, <2>2 DEF StripKeyboard, TypeOK, QuestionInv, Open, Asking, Refused
  <2>3. ASSUME NEW p \in Questions PROVE TimeInv(p)'
    BY <1>7, <2>3 DEF StripKeyboard, TypeOK, QuestionInv, TimeInv, Open, Overdue, Fanout, Asking
  <2>4. ASSUME NEW u \in Updates PROVE UpdateInv(u)'
    BY <1>7, <2>4 DEF StripKeyboard, TypeOK, QuestionInv, UpdateInv, Fits, Open, Asking
  <2>5. byMessage' = posted' /\ free' = free
    BY <1>7 DEF StripKeyboard
  <2> QED BY <2>1, <2>2, <2>3, <2>4, <2>5
<1>8. ASSUME NEW ok \in BOOLEAN, EditText(q, ok) PROVE IInv'
  <2>1. TypeOK'
    BY <1>8 DEF EditText, TypeOK
  <2>2. ASSUME NEW p \in Questions PROVE QuestionInv(p)'
    BY <1>8, <2>2 DEF EditText, TypeOK, QuestionInv, Open, Asking, Refused
  <2>3. ASSUME NEW p \in Questions PROVE TimeInv(p)'
    BY <1>8, <2>3 DEF EditText, TypeOK, QuestionInv, TimeInv, Open, Overdue, Fanout, Asking
  <2>4. ASSUME NEW u \in Updates PROVE UpdateInv(u)'
    BY <1>8, <2>4 DEF EditText, TypeOK, QuestionInv, UpdateInv, Fits, Open, Asking
  <2>5. byMessage' = posted' /\ free' = free
    BY <1>8 DEF EditText
  <2> QED BY <2>1, <2>2, <2>3, <2>4, <2>5
<1>9. CASE DecidedElsewhere(q)
  <2>1. TypeOK'
    BY <1>9 DEF DecidedElsewhere, TypeOK
  <2>2. ASSUME NEW p \in Questions PROVE QuestionInv(p)'
    BY <1>9, <2>2 DEF DecidedElsewhere, TypeOK, QuestionInv, Open, Asking, Refused
  <2>3. ASSUME NEW p \in Questions PROVE TimeInv(p)'
    BY <1>9, <2>3 DEF DecidedElsewhere, TypeOK, QuestionInv, TimeInv, Open, Overdue, Fanout, Asking
  <2>4. ASSUME NEW u \in Updates PROVE UpdateInv(u)'
    BY <1>9, <2>4 DEF DecidedElsewhere, TypeOK, QuestionInv, UpdateInv, Fits, Open, Asking
  <2>5. byMessage' = posted' /\ free' = free
    BY <1>9 DEF DecidedElsewhere
  <2> QED BY <2>1, <2>2, <2>3, <2>4, <2>5
<1>10. CASE WaitReturns(q)
  <2>1. TypeOK'
    BY <1>10 DEF WaitReturns, TypeOK, Due
  <2>2. ASSUME NEW p \in Questions PROVE QuestionInv(p)'
    BY <1>10, <2>2 DEF WaitReturns, TypeOK, QuestionInv, Open, Asking, Refused, Due
  <2>3. ASSUME NEW p \in Questions PROVE TimeInv(p)'
    BY <1>10, <2>3 DEF WaitReturns, TypeOK, QuestionInv, TimeInv, Open, Overdue, Fanout, Asking, Due
  <2>4. ASSUME NEW u \in Updates PROVE UpdateInv(u)'
    BY <1>10, <2>4 DEF WaitReturns, TypeOK, QuestionInv, UpdateInv, Fits, Open, Asking, Due
  <2>5. byMessage' = posted' /\ free' = free
    BY <1>10 DEF WaitReturns, Due
  <2> QED BY <2>1, <2>2, <2>3, <2>4, <2>5
<1>11. CASE Forget(q)
  <2>1. TypeOK'
    BY <1>11 DEF Forget, TypeOK
  <2>2. ASSUME NEW p \in Questions PROVE QuestionInv(p)'
    BY <1>11, <2>2 DEF Forget, TypeOK, QuestionInv, Open, Asking, Refused
  <2>3. ASSUME NEW p \in Questions PROVE TimeInv(p)'
    BY <1>11, <2>3 DEF Forget, TypeOK, QuestionInv, TimeInv, Open, Overdue, Fanout, Asking
  <2>4. ASSUME NEW u \in Updates PROVE UpdateInv(u)'
    BY <1>11, <2>4 DEF Forget, TypeOK, QuestionInv, UpdateInv, Fits, Open, Asking
  <2>5. byMessage' = posted' /\ free' = free
    BY <1>11 DEF Forget
  <2> QED BY <2>1, <2>2, <2>3, <2>4, <2>5
<1>12. CASE Retire(q)
  <2>1. TypeOK'
    BY <1>12 DEF Retire, TypeOK, Cleared, Idle
  <2>2. ASSUME NEW p \in Questions PROVE QuestionInv(p)'
    BY <1>12, <2>2 DEF Retire, TypeOK, QuestionInv, Open, Asking, Refused, Cleared, Idle
  <2>3. ASSUME NEW p \in Questions PROVE TimeInv(p)'
    BY <1>12, <2>3 DEF Retire, TypeOK, QuestionInv, TimeInv, Open, Overdue, Fanout, Asking, Cleared, Idle
  <2>4. ASSUME NEW u \in Updates PROVE UpdateInv(u)'
    BY <1>12, <2>4 DEF Retire, TypeOK, QuestionInv, UpdateInv, Fits, Open, Asking, Cleared, Idle
  <2>5. byMessage' = posted' /\ free' = free
    BY <1>12 DEF Retire, Cleared, Idle
  <2> QED BY <2>1, <2>2, <2>3, <2>4, <2>5
<1> QED BY <1>1, <1>2, <1>3, <1>4, <1>5, <1>6, <1>7, <1>8, <1>9, <1>10, <1>11, <1>12 DEF SubmitStep

(* One attempt becomes x; beside it, notices may be pruned. *)
LEMMA AttemptMoves ==
  ASSUME IInv, NEW u \in Updates, NEW x \in Attempts, Fits(u, x),
         update' = [update EXCEPT ![u] = x],
         Prunes \/ UNCHANGED mapVars,
         UNCHANGED <<now, channel, free, textReplies, loop, phase, created, started, winner, post, message, settle>>
  PROVE  IInv'
<1>1. \A q \in Questions : QuestionInv(q)' /\ TimeInv(q)'
  BY PruneKeepsQuestions
     DEF IInv, QuestionInv, TimeInv, Open, Refused, Asking, Overdue, Fanout, mapVars
<1>2. byMessage' = posted' /\ posted' \subseteq posted
  BY PruneKeepsQuestions DEF mapVars, IInv
<1>3. TypeOK'
  BY <1>2 DEF IInv, TypeOK
<1>4. ASSUME NEW v \in Updates PROVE UpdateInv(v)'
  <2>1. update'[v] = IF v = u THEN x ELSE update[v]
    BY <1>4 DEF IInv, TypeOK
  <2>2. Fits(v, update'[v])
    BY <1>4, <2>1 DEF IInv, UpdateInv
  <2> QED BY <2>2 DEF UpdateInv, Fits, Open
<1> QED BY <1>1, <1>2, <1>3, <1>4 DEF IInv

(* What EXCEPT makes of an attempt. *)
LEMMA NowAimed ==
  ASSUME NEW x \in Attempts, NEW at, NEW target
  PROVE  [x EXCEPT !.at = at, !.target = target] =
         [at |-> at, target |-> target, bound |-> x.bound, told |-> x.told]
<1>1. [x EXCEPT !.at = at, !.target = target] = [[x EXCEPT !.at = at] EXCEPT !.target = target]
  OBVIOUS
<1>2. [x EXCEPT !.at = at] = [at |-> at, target |-> x.target, bound |-> x.bound, told |-> x.told]
  BY DEF Attempts
<1>3. [[at |-> at, target |-> x.target, bound |-> x.bound, told |-> x.told] EXCEPT !.target = target] =
      [at |-> at, target |-> target, bound |-> x.bound, told |-> x.told]
  OBVIOUS
<1> QED BY <1>1, <1>2, <1>3

LEMMA NowBound ==
  ASSUME NEW x \in Attempts, NEW at, NEW bound
  PROVE  [x EXCEPT !.at = at, !.bound = bound] =
         [at |-> at, target |-> x.target, bound |-> bound, told |-> x.told]
<1>1. [x EXCEPT !.at = at, !.bound = bound] = [[x EXCEPT !.at = at] EXCEPT !.bound = bound]
  OBVIOUS
<1>2. [x EXCEPT !.at = at] = [at |-> at, target |-> x.target, bound |-> x.bound, told |-> x.told]
  BY DEF Attempts
<1>3. [[at |-> at, target |-> x.target, bound |-> x.bound, told |-> x.told] EXCEPT !.bound = bound] =
      [at |-> at, target |-> x.target, bound |-> bound, told |-> x.told]
  OBVIOUS
<1> QED BY <1>1, <1>2, <1>3

(* What Tell leaves of an attempt. *)
Over(a, told) ==
  [at |-> "over", told |-> told,
   target |-> IF told = "gone" THEN a.target ELSE Nobody,
   bound  |-> IF told = "late" THEN a.bound ELSE Nobody]

LEMMA TellIsOver ==
  ASSUME TypeOK, NEW u \in Updates,
         NEW told \in {"denied", "gone", "ignored", "ambiguous", "late", "accepted"}
  PROVE  /\ Over(update[u], told) \in Attempts
         /\ Tell(u, told) => update' = [update EXCEPT ![u] = Over(update[u], told)]
  BY DEF Over, Attempts, TypeOK, Tell

(* A handler that turns its author away, or finds the question. *)
LEMMA TellKeeps ==
  ASSUME IInv, NEW u \in Updates, update[u].at = "sent",
         NEW told \in {"denied", "gone", "ignored", "ambiguous"}, Tell(u, told),
         told = "gone" => update[u].target # Nobody /\ ~Open(update[u].target),
         Prunes \/ UNCHANGED mapVars,
         UNCHANGED <<now, channel, free, textReplies, loop, phase, created, started, winner, post, message, settle>>
  PROVE  IInv'
<1>1. /\ Over(update[u], told) \in Attempts
      /\ update' = [update EXCEPT ![u] = Over(update[u], told)]
  BY TellIsOver DEF IInv
<1>2. Fits(u, update[u])
  BY DEF IInv, UpdateInv
<1>3. Fits(u, Over(update[u], told))
  BY <1>2 DEF Fits, Over
<1> QED BY <1>1, <1>3, AttemptMoves

LEMMA FoundKeeps ==
  ASSUME IInv, NEW u \in Updates, update[u].at = "sent", NEW q \in Questions, Open(q), Found(u, q),
         Prunes \/ UNCHANGED mapVars,
         UNCHANGED <<now, channel, free, textReplies, loop, phase, created, started, winner, post, message, settle>>
  PROVE  IInv'
<1> DEFINE a == update[u]
           x == [at |-> "found", target |-> a.target, bound |-> q, told |-> a.told]
<1>1. a \in Attempts /\ Fits(u, a)
  BY DEF IInv, TypeOK, UpdateInv
<1>2. x \in Attempts
  BY <1>1 DEF Attempts
<1>3. update' = [update EXCEPT ![u] = x]
  <2>1. [a EXCEPT !.at = "found", !.bound = q] = x
    BY <1>1, NowBound
  <2>2. update' = [update EXCEPT ![u] = [a EXCEPT !.at = "found", !.bound = q]]
    BY DEF Found
  <2> QED BY <2>1, <2>2
<1>4. Fits(u, x)
  BY <1>1 DEF Fits, Open
<1> QED BY <1>2, <1>3, <1>4, AttemptMoves

LEMMA HumansKeep ==
  ASSUME IInv, NEW u \in Updates,
         \/ u \in Presses /\ \E q \in Questions : Press(u, q)
         \/ u \in Messages /\ \E target \in Questions \union {Nobody} : Type(u, target)
  PROVE  IInv'
<1> DEFINE a == update[u]
<1>1. a \in Attempts /\ Fits(u, a)
  BY DEF IInv, TypeOK, UpdateInv
<1>2. PICK target \in Questions \union {Nobody} :
        /\ a.at = "unsent" /\ (u \in Presses => target # Nobody)
        /\ target # Nobody => message[target] # "none"
        /\ update' = [update EXCEPT ![u] = [a EXCEPT !.at = "sent", !.target = target]]
        /\ UNCHANGED mapVars
        /\ UNCHANGED <<now, channel, free, textReplies, loop, phase, created, started, winner, post, message, settle>>
  <2>1. ASSUME u \in Presses, NEW q \in Questions, Press(u, q)
        PROVE  message[q] = "live" /\ q # Nobody
    BY <2>1 DEF Press
  <2> QED BY <2>1 DEF Press, Type, brokerVars, loopVars
<1> DEFINE x == [at |-> "sent", target |-> target, bound |-> a.bound, told |-> a.told]
<1>3. x \in Attempts
  BY <1>1 DEF Attempts
<1>4. update' = [update EXCEPT ![u] = x]
  <2>1. [a EXCEPT !.at = "sent", !.target = target] = x
    BY <1>1, NowAimed
  <2> QED BY <1>2, <2>1
<1>5. Fits(u, x)
  BY <1>1, <1>2 DEF Fits
<1> QED BY <1>2, <1>3, <1>4, <1>5, AttemptMoves

(* What can be matched to a message still waits. *)
LEMMA MatchedIsOpen ==
  ASSUME IInv, NEW target, NEW q \in Matches(target)
  PROVE  q \in Questions /\ q \in posted /\ Open(q)
<1>1. q \in posted /\ ~Notice(q)
  BY DEF Matches, Candidates, Kept, AllowFree
<1> QED BY <1>1, OpenIsKept DEF IInv, TypeOK

LEMMA HandlersKeep ==
  ASSUME IInv, NEW u \in Updates,
         \/ u \in Presses /\ \E allowed \in BOOLEAN : HandlePress(u, allowed)
         \/ \E allowed \in BOOLEAN : HandleMessage(u, allowed)
         \/ Resolve(u)
  PROVE  IInv'
<1> DEFINE a == update[u]
<1>1. a \in Attempts /\ Fits(u, a) /\ TypeOK
  BY DEF IInv, TypeOK, UpdateInv
<1>2. ASSUME u \in Presses, NEW allowed \in BOOLEAN, HandlePress(u, allowed) PROVE IInv'
  <2>1. a.at = "sent" /\ a.target \in Questions /\ a.target # Nobody
    BY <1>1, <1>2 DEF HandlePress, Fetched, Fits, Attempts
  <2>2. UNCHANGED mapVars /\ UNCHANGED <<now, channel, free, textReplies, loop, phase, created, started, winner, post, message, settle>>
    BY <1>2 DEF HandlePress, brokerVars, loopVars
  <2>3. CASE Tell(u, "denied")
    BY <2>1, <2>2, <2>3, TellKeeps
  <2>4. CASE ~Open(a.target) /\ Tell(u, "gone")
    BY <2>1, <2>2, <2>4, TellKeeps
  <2>5. CASE Open(a.target) /\ Found(u, a.target)
    BY <2>1, <2>2, <2>5, FoundKeeps
  <2> QED BY <1>2, <2>3, <2>4, <2>5 DEF HandlePress
<1>3. ASSUME NEW allowed \in BOOLEAN, HandleMessage(u, allowed) PROVE IInv'
  <2>1. a.at = "sent" /\ Prunes
    BY <1>3 DEF HandleMessage, Fetched, Prunes
  <2>2. UNCHANGED <<now, channel, free, textReplies, loop, phase, created, started, winner, post, message, settle>>
    BY <1>3 DEF HandleMessage, brokerVars, loopVars
  <2>3. ASSUME NEW told \in {"ignored", "ambiguous", "denied"}, Tell(u, told) PROVE IInv'
    BY <2>1, <2>2, <2>3, TellKeeps
  <2>4. ASSUME NEW q \in Matches(a.target), Found(u, q) PROVE IInv'
    BY <2>1, <2>2, <2>4, MatchedIsOpen, FoundKeeps
  <2> QED BY <1>3, <2>3, <2>4 DEF HandleMessage
<1>4. CASE Resolve(u)
  <2> DEFINE q == a.bound
  <2>1. /\ a.at = "found" /\ q \in Questions
        /\ phase[q] \in {"posting", "waiting", "settling", "returned", "failed"}
        /\ \A p \in Questions : winner[p] # u
        /\ UNCHANGED <<now, channel, free, textReplies, loop, phase, created, started, post,
                       message, posted, byMessage, settle>>
    BY <1>1, <1>4 DEF Resolve, Fits, Attempts, loopVars, mapVars
  <2>2. QuestionInv(q)
    BY <2>1 DEF IInv
  <2>3. PICK told \in {"accepted", "late"} :
          /\ Tell(u, told)
          /\ told = "accepted" => winner[q] = Nobody /\ winner' = [winner EXCEPT ![q] = u]
          /\ told = "late" => winner' = winner /\ (winner[q] # Nobody \/ phase[q] = "failed")
    BY <1>4, <2>1, <2>2 DEF Resolve, QuestionInv, Open
  <2>4. PICK x \in Attempts : x = Over(a, told)
    BY <1>1, TellIsOver
  <2>5. update' = [update EXCEPT ![u] = x]
    BY <1>1, <2>3, <2>4, TellIsOver
  <2>6. TypeOK'
    BY <1>1, <2>1, <2>3, <2>5 DEF TypeOK
  <2>7. ASSUME NEW p \in Questions PROVE QuestionInv(p)' /\ TimeInv(p)'
    <3>1. winner[p] # Nobody => winner'[p] # Nobody
      BY <1>1, <2>3, <2>7 DEF TypeOK
    <3>2. phase[p] = "new" => winner'[p] = winner[p]
      BY <1>1, <2>1, <2>3, <2>7 DEF TypeOK
    <3> QED BY <2>1, <2>7, <3>1, <3>2
            DEF IInv, QuestionInv, TimeInv, Open, Asking, Refused, Overdue, Fanout
  <2>8. ASSUME NEW v \in Updates PROVE UpdateInv(v)'
    <3>1. update'[v] = IF v = u THEN x ELSE update[v]
      BY <1>1, <2>5, <2>8 DEF TypeOK
    <3>2. \A p \in Questions : winner'[p] = IF p = q /\ told = "accepted" THEN u ELSE winner[p]
      BY <1>1, <2>3 DEF TypeOK
    <3>3. CASE v = u
      <4>1. x.at = "over" /\ x.told = told /\ x.target = Nobody
            /\ (told = "late" => x.bound = q)
        BY <2>4 DEF Over
      <4>2. Fits(u, x)'
        BY <2>1, <2>3, <3>2, <4>1 DEF Fits, Open
      <4> QED BY <3>1, <3>3, <4>2 DEF UpdateInv, Fits
    <3>4. CASE v # u
      <4>1. Fits(v, update[v]) /\ update[v] \in Attempts
        BY <2>8 DEF IInv, UpdateInv, TypeOK
      <4>2. \A p \in Questions : /\ winner'[p] = v <=> winner[p] = v
                                 /\ winner[p] \notin {Nobody, v} => winner'[p] \notin {Nobody, v}
        BY <2>3, <3>2, <3>4
      <4>3. Fits(v, update[v])'
        BY <2>1, <3>1, <3>4, <4>1, <4>2 DEF Fits, Open, Attempts
      <4> QED BY <3>1, <3>4, <4>3 DEF UpdateInv, Fits
    <3> QED BY <3>3, <3>4
  <2> QED BY <2>1, <2>6, <2>7, <2>8 DEF IInv
<1> QED BY <1>2, <1>3, <1>4

LEMMA NextIInv == IInv /\ [Next]_vars => IInv'
<1>1. IInv /\ UNCHANGED vars => IInv'
  BY DEF IInv, TypeOK, QuestionInv, TimeInv, UpdateInv, Fits, Open, Asking, Refused, Overdue,
         Fanout, vars
<1> QED BY <1>1, LifeKeeps, SubmitKeeps, HumansKeep, HandlersKeep DEF Next

LEMMA AlwaysIInv == Spec => []IInv
BY InitIInv, NextIInv, PTL DEF Spec

-----------------------------------------------------------------------------
(* The theorems.                                                           *)

(* The transport's state keeps its ranges in every behaviour. *)
THEOREM TypeCorrect == Spec => []TypeOK
<1>1. IInv => TypeOK
  BY DEF IInv
<1> QED BY <1>1, AlwaysIInv, PTL

(* The chat is told what happened (handlers.go: handleCallback,            *)
(* handleMessage). *)
THEOREM ToldTheTruthAlways == Spec => []ToldTheTruth
<1>1. IInv => ToldTheTruth
  BY DEF IInv, UpdateInv, Fits, ToldTheTruth
<1> QED BY <1>1, AlwaysIInv, PTL

(* A reply to an outstanding question is bound to no other one, as it is   *)
(* pruned only when posting it took as long as the grace period            *)
(* (handlers.go: matchFreeText; telegram.go: expiryOf, pruneLocked).       *)
THEOREM OpenReplyIsAuthoritativeAlways == Spec => OpenReplyIsAuthoritative
<1>1. ASSUME IInv, [Next]_vars, NEW u \in Messages, NEW q \in Questions,
             Outstanding(q), ~Overdue(q), update[u].target = q
      PROVE  update'[u].bound \in {Nobody, update[u].bound, q}
  <2>1. TypeOK /\ update[u] \in Attempts /\ u \in Updates
    BY <1>1 DEF IInv, TypeOK
  <2>2. ASSUME NEW v \in Updates, NEW x, update' = [update EXCEPT ![v] = x], v # u
        PROVE  update'[u] = update[u]
    BY <2>1, <2>2
  <2>3. ASSUME NEW told, Tell(u, told) PROVE update'[u].bound \in {Nobody, update[u].bound}
    BY <2>1, <2>3 DEF Tell, TypeOK
  <2>4. ASSUME NEW allowed \in BOOLEAN, HandleMessage(u, allowed)
        PROVE  update'[u].bound \in {Nobody, update[u].bound, q}
    <3>1. q \in posted /\ ~Notice(q)
      BY <1>1 DEF IInv, QuestionInv, TimeInv, Outstanding, Open, Notice
    <3>2. Authoritative(q)
      BY <1>1, <3>1, OpenIsKept DEF Authoritative, Kept, IInv
    <3>3. Matches(q) \subseteq {q}
      BY <3>2 DEF Matches
    <3>4. ASSUME NEW p \in Matches(q), Found(u, p) PROVE update'[u].bound = p
      BY <2>1, <3>4 DEF Found, TypeOK, Attempts
    <3> QED BY <1>1, <2>3, <2>4, <3>3, <3>4 DEF HandleMessage
  <2>5. CASE Resolve(u)
    BY <2>3, <2>5 DEF Resolve
  <2>6. CASE Crash
    BY <2>1, <2>6 DEF Crash, TypeOK, Attempts, NoUpdate
  <2>7. ASSUME NEW target \in Questions \union {Nobody}, Type(u, target)
        PROVE  update'[u].bound = update[u].bound
    BY <2>1, <2>7 DEF Type, TypeOK, Attempts
  <2>8. ASSUME NEW v \in Updates, v # u,
               \/ \E p \in Questions : Press(v, p)
               \/ \E target \in Questions \union {Nobody} : Type(v, target)
               \/ \E allowed \in BOOLEAN : HandlePress(v, allowed) \/ HandleMessage(v, allowed)
               \/ Resolve(v)
        PROVE  update'[u] = update[u]
    <3>1. \E x : update' = [update EXCEPT ![v] = x]
      BY <2>8 DEF Press, Type, HandlePress, HandleMessage, Resolve, Tell, Found
    <3> QED BY <2>2, <2>8, <3>1
  <2>9. CASE UNCHANGED update
    BY <2>9
  <2>10. ASSUME NEW p \in Questions, SubmitStep(p) PROVE UNCHANGED update
    BY <2>10 DEF SubmitStep, Ask, Notify, SendMessage, Posts, PostFails, FanoutDone, StripKeyboard,
                 EditText, DecidedElsewhere, WaitReturns, Forget, Retire
  <2>11. CASE Life
    BY <2>6, <2>9, <2>11 DEF Life, Start, Conflict, Close, Tick
  <2>12. Presses \intersect Messages = {}
    OBVIOUS
  <2> QED BY <1>1, <2>4, <2>5, <2>7, <2>8, <2>9, <2>10, <2>11, <2>12 DEF Next, vars
<1>2. IInv /\ [Next]_vars =>
        [\A u \in Messages : \A q \in Questions :
           (Outstanding(q) /\ ~Overdue(q) /\ update[u].target = q)
             => update'[u].bound \in {Nobody, update[u].bound, q}]_vars
  BY <1>1
<1> QED BY <1>2, AlwaysIInv, PTL DEF Spec, OpenReplyIsAuthoritative

-----------------------------------------------------------------------------
(* The transport implements Messenger.                                     *)

LEMMA InitChat == Init => Chat!Init
<1> SUFFICES ASSUME Init PROVE Chat!Init
  OBVIOUS
<1>1. Asked = {} /\ Delivered = {} /\ Left = {} /\ Reach = {} /\ Slow = {}
  BY DEF Init, Asked, Delivered, Left, Reach, Slow, Overdue, Open
<1>2. Bound = [u \in Updates |-> Nobody] /\ Answerable \subseteq Questions
  BY DEF Init, Bound, NoUpdate, Answerable
<1> QED BY <1>1, <1>2 DEF Init, Chat!Init

(* What the contract sees of the chat, the questions and one attempt. *)
LEMMA SameChat ==
  UNCHANGED channel => UNCHANGED Answerable
  BY DEF Answerable

LEMMA SameQuestions ==
  ASSUME UNCHANGED <<phase, post, settle>>
  PROVE  UNCHANGED <<Asked, Delivered, Left>>
  BY DEF Asked, Delivered, Left, Open

LEMMA SameSlow ==
  ASSUME UNCHANGED <<now, phase, created, started>>
  PROVE  UNCHANGED Slow
  BY DEF Slow, Overdue, Fanout, Open

LEMMA SameReach ==
  ASSUME UNCHANGED <<phase, posted, byMessage>>
  PROVE  UNCHANGED Reach
  BY DEF Reach, Notice

LEMMA SameBound == UNCHANGED update => UNCHANGED Bound
  BY DEF Bound

LEMMA BoundMoves ==
  ASSUME TypeOK, TypeOK', NEW u \in Updates, \A v \in Updates \ {u} : update'[v] = update[v]
  PROVE  Bound' = [Bound EXCEPT ![u] = IF update'[u].at = "found" THEN update'[u].bound ELSE Nobody]
  BY DEF Bound, TypeOK

(* As time goes by, questions become overdue, and stay so. *)
LEMMA TickIsDelay ==
  ASSUME IInv, Tick
  PROVE  Chat!Delay
<1>1. UNCHANGED <<channel, phase, created, started, winner, post, message, posted, byMessage, settle, update>>
  BY DEF Tick, brokerVars, mapVars, loopVars
<1>2. ASSUME NEW q \in Questions, Overdue(q) PROVE Overdue(q)'
  <2>1. now \in Nat /\ now' = now + 1 /\ created[q] \in Nat /\ started[q] \in Nat /\ Grace \in Nat
    BY DEF Tick, IInv, TypeOK
  <2> QED BY <1>1, <1>2, <2>1 DEF Overdue, Fanout, Open
<1>3. Slow \subseteq Slow' /\ Slow' \subseteq Asked
  BY <1>1, <1>2 DEF Slow, Asked, Overdue, Open
<1> QED BY <1>1, <1>3, SameChat, SameQuestions, SameReach, SameBound DEF Chat!Delay

LEMMA LifeIsChat ==
  ASSUME IInv, Life
  PROVE  [Chat!Next]_Chat!vars
<1>1. CASE Crash
  <2>1. Asked' = {} /\ Delivered' = {} /\ Left' = {} /\ Reach' = {} /\ Slow' = {}
    BY <1>1 DEF Crash, Asked, Delivered, Left, Reach, Slow, Overdue, Open, IInv, TypeOK
  <2>2. Bound' = [u \in Updates |-> Nobody]
    BY <1>1 DEF Crash, Bound, IInv, TypeOK, Attempts, NoUpdate
  <2>3. UNCHANGED <<Answerable, winner, message>>
    BY <1>1, SameChat DEF Crash
  <2> QED BY <2>1, <2>2, <2>3 DEF Chat!Next, Chat!Lose
<1>2. CASE Tick
  BY <1>2, TickIsDelay DEF Chat!Next
<1>3. CASE Start \/ Conflict \/ Close
  <2>1. UNCHANGED <<now, channel, phase, created, started, winner, post, message, posted, byMessage, settle, update>>
    BY <1>3 DEF Start, Conflict, Close, brokerVars, mapVars, loopVars
  <2> QED BY <2>1, SameChat, SameQuestions, SameSlow, SameReach, SameBound DEF Chat!vars
<1> QED BY <1>1, <1>2, <1>3 DEF Life

(* Nothing but the clock makes a question overdue: while it is posted its  *)
(* time runs from its creation, and stops when the broker's timer starts.  *)
LEMMA SlowIsKept ==
  ASSUME IInv, NEW q \in Questions,
         \/ Ask(q) \/ Notify(q) \/ SendMessage(q) \/ Posts(q) \/ PostFails(q)
         \/ \E ok \in BOOLEAN :
              \/ FanoutDone(q, ok) /\ (ok \/ phase[q] = "notifying")
              \/ StripKeyboard(q, ok) \/ EditText(q, ok)
         \/ DecidedElsewhere(q) \/ WaitReturns(q) \/ Forget(q)
  PROVE  UNCHANGED Slow
<1> USE DEF brokerVars, mapVars, loopVars
<1>1. TypeOK /\ TimeInv(q)
  BY DEF IInv
<1>2. CASE Ask(q)
  <2>1. ASSUME NEW p \in Questions PROVE Overdue(p)' <=> Overdue(p)
    BY <1>1, <1>2, <2>1 DEF Ask, Overdue, Fanout, Open, Stamped, TypeOK
  <2> QED BY <2>1 DEF Slow
<1>3. ASSUME NEW ok \in BOOLEAN, FanoutDone(q, ok), ok \/ phase[q] = "notifying"
      PROVE  UNCHANGED Slow
  <2>1. ASSUME NEW p \in Questions PROVE Overdue(p)' <=> Overdue(p)
    BY <1>1, <1>3, <2>1
       DEF FanoutDone, Asking, Notice, Overdue, Fanout, Open, Stamped, Cleared, TypeOK
  <2> QED BY <2>1 DEF Slow
<1>4. CASE Notify(q)
  <2>1. ASSUME NEW p \in Questions PROVE Overdue(p)' <=> Overdue(p)
    BY <1>1, <1>4, <2>1 DEF Notify, Overdue, Fanout, Open, Stamped, TypeOK
  <2> QED BY <2>1 DEF Slow
<1>5. CASE WaitReturns(q)
  <2>1. ASSUME NEW p \in Questions PROVE Overdue(p)' <=> Overdue(p)
    BY <1>1, <1>5, <2>1 DEF WaitReturns, Overdue, Fanout, Open, TypeOK
  <2> QED BY <2>1 DEF Slow
<1>6. UNCHANGED <<now, phase, created, started>> => UNCHANGED Slow
  BY SameSlow
<1>7. ASSUME NEW ok \in BOOLEAN, StripKeyboard(q, ok) \/ EditText(q, ok) PROVE UNCHANGED Slow
  BY <1>6, <1>7 DEF StripKeyboard, EditText
<1>8. CASE SendMessage(q) \/ Posts(q) \/ PostFails(q) \/ DecidedElsewhere(q) \/ Forget(q)
  BY <1>6, <1>8 DEF SendMessage, Posts, PostFails, DecidedElsewhere, Forget
<1> QED BY <1>2, <1>3, <1>4, <1>5, <1>7, <1>8

LEMMA SlowIsDropped ==
  ASSUME IInv, NEW q \in Questions,
         Retire(q) \/ (FanoutDone(q, FALSE) /\ phase[q] = "posting")
  PROVE  Slow' = Slow \ {q}
<1>1. TypeOK
  BY DEF IInv
<1>2. ASSUME NEW p \in Questions PROVE Overdue(p)' <=> Overdue(p) /\ p # q
  BY <1>1, <1>2 DEF Retire, FanoutDone, Asking, Notice, Overdue, Fanout, Open, Cleared, TypeOK
<1> QED BY <1>2 DEF Slow

LEMMA SubmitIsChat ==
  ASSUME IInv, IInv', NEW q \in Questions, SubmitStep(q)
  PROVE  [Chat!Next]_Chat!vars
<1> USE DEF brokerVars, mapVars, loopVars
<1>1. /\ QuestionInv(q) /\ TimeInv(q) /\ TypeOK /\ byMessage = posted /\ byMessage' = posted'
      /\ Questions = Buttons \union free
      /\ Reach = {p \in posted : ~Notice(p)} /\ Reach' = {p \in posted' : ~Notice(p)'}
  BY DEF IInv, Reach
<1>2. UNCHANGED <<Answerable, Bound>>
  BY SameChat, SameBound
     DEF SubmitStep, Ask, Notify, SendMessage, Posts, PostFails, FanoutDone, StripKeyboard,
         EditText, DecidedElsewhere, WaitReturns, Forget, Retire
<1>3. CASE Ask(q)
  <2>0. UNCHANGED Slow
    BY <1>3, SlowIsKept
  <2>1. UNCHANGED <<winner, message>>
    BY <1>3 DEF Ask
  <2>2. /\ Asked' = Asked \union {q} /\ q \notin Asked
        /\ UNCHANGED <<Delivered, Left, Reach>>
    <3>1. UNCHANGED Reach
      BY <1>1, <1>3 DEF Ask, Notice, TypeOK, QuestionInv
    <3> QED BY <1>1, <1>3, <3>1 DEF Ask, Asked, Delivered, Left, Open, TypeOK, QuestionInv
  <2>3. winner[q] = Nobody /\ message[q] = "none"
    BY <1>1, <1>3 DEF Ask, QuestionInv
  <2>4. Chat!Ask(q)
    BY <1>2, <2>0, <2>1, <2>2, <2>3 DEF Chat!Ask, Chat!Decided
  <2> QED BY <2>4 DEF Chat!Next
<1>4. CASE Notify(q)
  <2>0. UNCHANGED Slow
    BY <1>4, SlowIsKept
  <2>1. UNCHANGED <<winner, message, Reach>>
    BY <1>1, <1>4 DEF Notify, Notice, TypeOK, QuestionInv
  <2>2. UNCHANGED <<Asked, Delivered, Left>>
    BY <1>1, <1>4 DEF Notify, Asked, Delivered, Left, Open, TypeOK
  <2> QED BY <1>2, <2>0, <2>1, <2>2 DEF Chat!vars
<1>5. CASE SendMessage(q)
  <2>0. UNCHANGED Slow
    BY <1>5, SlowIsKept
  <2>1. UNCHANGED <<winner, Asked, Delivered, Left, Reach>>
    BY <1>5, SameQuestions, SameReach DEF SendMessage
  <2>2. message[q] = "none"
    BY <1>5 DEF SendMessage
  <2>3. CASE ~Notice(q)
    <3>1. phase[q] = "posting" /\ q \in Asked /\ message' = [message EXCEPT ![q] = "live"]
      BY <1>5, <2>3 DEF SendMessage, Asking, Notice, Asked, Open
    <3>2. q \in Answerable
      BY <1>1, <1>5, <2>3, <3>1 DEF SendMessage, Answerable, AllowFree, QuestionInv, Refused
    <3>3. Chat!Show(q)
      BY <1>2, <2>0, <2>1, <2>2, <3>1, <3>2 DEF Chat!Show
    <3> QED BY <3>3 DEF Chat!Next
  <2>4. CASE Notice(q)
    <3>1. q \notin Asked /\ message' = [message EXCEPT ![q] = "dead"]
      BY <1>5, <2>4 DEF SendMessage, Notice, Asked, Open
    <3>2. Chat!Tell(q)
      BY <1>2, <2>0, <2>1, <2>2, <3>1 DEF Chat!Tell
    <3> QED BY <3>2 DEF Chat!Next
  <2> QED BY <2>3, <2>4
<1>6. CASE Posts(q)
  <2>0. UNCHANGED Slow
    BY <1>6, SlowIsKept
  <2>1. UNCHANGED <<winner, message, Asked, Left>>
    BY <1>6 DEF Posts, Asked, Left, Open
  <2>2. /\ \A p \in posted : ~Notice(p) => p \in posted' \/ p \in Slow
        /\ posted' \subseteq posted \union {q} /\ q \in posted'
        /\ \A p \in Questions : Notice(p)' <=> Notice(p)
    <3>1. posted \subseteq Questions
      BY <1>1 DEF TypeOK
    <3> QED BY <1>6, <3>1, OpenIsKept DEF Posts, Remember, Kept, Notice, Slow
  <2>3. posted \subseteq Questions /\ posted' \subseteq Questions
    BY <1>1, <2>2 DEF TypeOK
  <2>4. CASE ~Notice(q)
    <3>1. Delivered' = Delivered \union {q} /\ q \in Asked \ Delivered /\ message[q] # "none"
      BY <1>1, <1>6, <2>4 DEF Posts, Asking, Notice, Asked, Delivered, Open, TypeOK
    <3>2. Chat!ReachKeeps({q})
      <4>1. Reach' \subseteq Reach \union {q} /\ q \in Reach'
        BY <1>1, <2>2, <2>3, <2>4
      <4>2. \A p \in Reach \ Reach' : p \in Slow
        BY <1>1, <2>2, <2>3
      <4> QED BY <4>1, <4>2 DEF Chat!ReachKeeps
    <3>3. Chat!Deliver(q)
      BY <1>2, <2>0, <2>1, <3>1, <3>2 DEF Chat!Deliver
    <3> QED BY <3>3 DEF Chat!Next
  <2>5. CASE Notice(q)
    <3>1. Chat!ReachKeeps({})
      BY <1>1, <2>2, <2>3, <2>5 DEF Chat!ReachKeeps
    <3>2. Delivered' = Delivered
      BY <1>1, <1>6, <2>5 DEF Posts, Notice, Delivered, Open, TypeOK
    <3>3. Chat!Forget
      BY <1>2, <2>0, <2>1, <3>1, <3>2 DEF Chat!Forget
    <3> QED BY <3>3 DEF Chat!Next
  <2> QED BY <2>4, <2>5
<1>7. CASE PostFails(q)
  <2>0. UNCHANGED Slow
    BY <1>7, SlowIsKept
  <2>1. UNCHANGED <<winner, message, Asked, Left, Reach>>
    BY <1>7, SameReach DEF PostFails, Asked, Left, Open
  <2>2. UNCHANGED Delivered
    BY <1>1, <1>7 DEF PostFails, Delivered, Open, TypeOK
  <2> QED BY <1>2, <2>0, <2>1, <2>2 DEF Chat!vars
<1>8. ASSUME NEW ok \in BOOLEAN, FanoutDone(q, ok) PROVE [Chat!Next]_Chat!vars
  <2>1. UNCHANGED <<winner, message>>
    BY <1>8 DEF FanoutDone
  <2>2. UNCHANGED Reach
    BY <1>1, <1>8 DEF FanoutDone, Asking, Notice, TypeOK, QuestionInv
  <2>3. CASE ok \/ phase[q] = "notifying"
    <3>1. UNCHANGED <<Asked, Delivered, Left>>
      BY <1>1, <1>8, <2>3 DEF FanoutDone, Asking, Notice, Asked, Delivered, Left, Open, TypeOK
    <3>2. UNCHANGED Slow
      BY <1>8, <2>3, SlowIsKept
    <3> QED BY <1>2, <2>1, <2>2, <3>1, <3>2 DEF Chat!vars
  <2>4. CASE ~ok /\ phase[q] = "posting"
    <3>1. /\ Asked' = Asked \ {q} /\ Delivered' = Delivered \ {q} /\ Left' = Left \ {q}
          /\ q \in Asked \ Reach /\ q \notin Delivered
      BY <1>1, <1>8, <2>4
         DEF FanoutDone, Asking, Asked, Delivered, Left, Open, TypeOK, QuestionInv
    <3>2. Slow' = Slow \ {q}
      BY <1>8, <2>4, SlowIsDropped
    <3>3. Chat!Close(q)
      BY <1>2, <2>1, <2>2, <3>1, <3>2 DEF Chat!Close
    <3> QED BY <3>3 DEF Chat!Next
  <2> QED BY <1>8, <2>3, <2>4 DEF FanoutDone, Asking
<1>9. ASSUME NEW ok \in BOOLEAN, StripKeyboard(q, ok) \/ EditText(q, ok)
      PROVE  [Chat!Next]_Chat!vars
  <2>0. UNCHANGED Slow
    BY <1>9, SlowIsKept
  <2>1. /\ phase[q] = "settling" /\ post[q] = "posted" /\ settle[q] \in {"forgotten", "stripped"}
        /\ winner[q] # Nobody /\ message[q] \in {"live", "dead"}
    BY <1>1, <1>9 DEF StripKeyboard, EditText, QuestionInv, TypeOK
  <2>2. UNCHANGED <<winner, Asked, Delivered, Reach>>
    BY <1>9, SameReach DEF StripKeyboard, EditText, Asked, Delivered, Open
  <2>3. CASE message' = [message EXCEPT ![q] = "dead"] /\ UNCHANGED Left
    <3>1. CASE message[q] = "live"
      <4>1. Chat!TakeDown(q)
        BY <1>2, <2>0, <2>1, <2>2, <2>3, <3>1 DEF Chat!TakeDown, Chat!Decided
      <4> QED BY <4>1 DEF Chat!Next
    <3>2. CASE message[q] = "dead"
      BY <1>1, <1>2, <2>0, <2>2, <2>3, <3>2 DEF Chat!vars, TypeOK
    <3> QED BY <2>1, <3>1, <3>2
  <2>4. CASE message' = message /\ UNCHANGED Left
    BY <1>2, <2>0, <2>2, <2>4 DEF Chat!vars
  <2>5. CASE message' = message /\ Left' = Left \union {q}
    <3>1. q \in Delivered
      BY <2>1 DEF Delivered, Open
    <3>2. Chat!Leave(q)
      BY <1>2, <2>0, <2>1, <2>2, <2>5, <3>1 DEF Chat!Leave, Chat!Decided
    <3> QED BY <3>2 DEF Chat!Next
  <2>6. StripKeyboard(q, ok) => UNCHANGED Left
    BY <1>1, <2>1 DEF StripKeyboard, Left, Open, TypeOK
  <2>7. EditText(q, ok) /\ ok => UNCHANGED Left
    BY <1>1, <2>1 DEF EditText, Left, Open, TypeOK
  <2>8. EditText(q, ok) /\ ~ok => Left' = Left \union {q}
    BY <1>1, <2>1 DEF EditText, Left, Open, TypeOK
  <2> QED BY <1>9, <2>3, <2>4, <2>5, <2>6, <2>7, <2>8 DEF StripKeyboard, EditText
<1>10. CASE DecidedElsewhere(q)
  <2>0. UNCHANGED Slow
    BY <1>10, SlowIsKept
  <2>1. UNCHANGED <<message, Asked, Delivered, Left, Reach>>
    BY <1>10, SameQuestions, SameReach DEF DecidedElsewhere
  <2>2. Chat!Decide(q, "other")
    BY <1>2, <2>0, <1>10, <2>1 DEF DecidedElsewhere, Chat!Decide, Chat!Decided, Asked
  <2> QED BY <2>2 DEF Chat!Next
<1>11. CASE WaitReturns(q)
  <2>0. UNCHANGED Slow
    BY <1>11, SlowIsKept
  <2>1. UNCHANGED <<message, Asked, Delivered, Left, Reach>>
    <3>1. UNCHANGED <<Asked, Delivered>>
      BY <1>1, <1>11 DEF WaitReturns, Asked, Delivered, Open, TypeOK
    <3>2. UNCHANGED Left
      BY <1>1, <1>11 DEF WaitReturns, Left, Open, TypeOK, QuestionInv
    <3>3. UNCHANGED Reach
      BY <1>1, <1>11 DEF WaitReturns, Notice, TypeOK
    <3> QED BY <1>11, <3>1, <3>2, <3>3 DEF WaitReturns
  <2>2. CASE winner[q] = Nobody
    <3>1. Chat!Decide(q, "wait")
      BY <1>2, <2>0, <1>11, <2>1, <2>2 DEF WaitReturns, Chat!Decide, Chat!Decided, Asked, Open
    <3> QED BY <3>1 DEF Chat!Next
  <2>3. CASE winner[q] # Nobody
    BY <1>2, <2>0, <1>11, <2>1, <2>3 DEF WaitReturns, Chat!vars
  <2> QED BY <2>2, <2>3
<1>12. CASE Forget(q)
  <2>0. UNCHANGED Slow
    BY <1>12, SlowIsKept
  <2>1. UNCHANGED <<winner, message, Asked, Delivered>>
    BY <1>12 DEF Forget, Asked, Delivered, Open
  <2>2. UNCHANGED Left
    BY <1>1, <1>12 DEF Forget, Left, Open, TypeOK
  <2>3. Reach' = Reach \ {q} /\ winner[q] # Nobody
    BY <1>1, <1>12 DEF Forget, Notice, QuestionInv
  <2>4. Chat!ReachKeeps({})
    BY <2>3 DEF Chat!ReachKeeps, Chat!Decided
  <2>5. Chat!Forget
    BY <1>2, <2>0, <2>1, <2>2, <2>4 DEF Chat!Forget
  <2> QED BY <2>5 DEF Chat!Next
<1>13. CASE Retire(q)
  <2>1. UNCHANGED <<winner, message>>
    BY <1>13 DEF Retire
  <2>2. /\ Asked' = Asked \ {q} /\ Delivered' = Delivered \ {q} /\ Left' = Left \ {q}
        /\ q \in Asked
    BY <1>1, <1>13 DEF Retire, Asked, Delivered, Left, Open, TypeOK, Idle
  <2>3. q \notin posted /\ posted' = posted
    BY <1>1, <1>13 DEF Retire, QuestionInv
  <2>4. UNCHANGED Reach
    BY <1>1, <1>13, <2>3 DEF Retire, Notice, TypeOK
  <2>5. q \in Delivered => winner[q] # Nobody /\ (message[q] = "dead" \/ q \in Left \union Slow)
    BY <1>1, <1>13 DEF Retire, Delivered, Left, Slow, Open, QuestionInv, TimeInv
  <2>6. q \notin Reach
    BY <1>1, <2>3
  <2>7. Slow' = Slow \ {q}
    BY <1>13, SlowIsDropped
  <2>8. Chat!Close(q)
    BY <1>2, <2>1, <2>2, <2>4, <2>5, <2>6, <2>7 DEF Chat!Close, Chat!Decided
  <2> QED BY <2>8 DEF Chat!Next
<1> QED BY <1>3, <1>4, <1>5, <1>6, <1>7, <1>8, <1>9, <1>10, <1>11, <1>12, <1>13 DEF SubmitStep

(* What is pruned beside the notices is overdue. *)
LEMMA PruneIsForget ==
  ASSUME IInv, Prunes \/ UNCHANGED mapVars,
         UNCHANGED <<now, channel, free, textReplies, loop, phase, created, started, winner, post, message, settle>>
  PROVE  Chat!ReachKeeps({})
<1>1. posted \subseteq Questions /\ byMessage = posted
  BY DEF IInv, TypeOK
<1>2. \A q \in Questions : Notice(q)' <=> Notice(q)
  BY DEF Notice
<1>3. CASE Prunes
  <2>1. /\ posted' \subseteq posted /\ byMessage' = posted'
        /\ \A q \in posted : ~Notice(q) => q \in posted' \/ Overdue(q)
    BY <1>3, PruneKeepsQuestions
  <2> QED BY <1>1, <1>2, <2>1 DEF Reach, Slow, Chat!ReachKeeps
<1>4. CASE UNCHANGED mapVars
  BY <1>4, SameReach DEF mapVars, Chat!ReachKeeps
<1> QED BY <1>3, <1>4

(* An attempt that is matched to no question before and after a step. *)
LEMMA UnboundIsChat ==
  ASSUME TypeOK, TypeOK', NEW u \in Updates, \A v \in Updates \ {u} : update'[v] = update[v],
         update[u].at # "found", update'[u].at # "found", Chat!ReachKeeps({}),
         UNCHANGED <<now, channel, phase, created, started, winner, post, message, settle>>
  PROVE  Chat!Forget
<1>1. Bound' = [Bound EXCEPT ![u] = Nobody]
  BY BoundMoves
<1>2. Bound[u] = Nobody /\ Bound \in [Updates -> Questions \union {Nobody}]
  BY DEF Bound, TypeOK, Attempts
<1>3. Bound' = Bound
  BY <1>1, <1>2
<1> QED BY <1>3, SameChat, SameQuestions, SameSlow DEF Chat!Forget

(* A handler that has found its question. *)
LEMMA FoundIsMatch ==
  ASSUME IInv, IInv', NEW u \in Updates, NEW q \in Questions, Open(q), Found(u, q),
         update[u].at = "sent", Chat!ReachKeeps({}),
         UNCHANGED <<now, channel, phase, created, started, winner, post, message, settle>>
  PROVE  Chat!Match(u, q)
<1>1. TypeOK /\ TypeOK'
  BY DEF IInv
<1>2. /\ update'[u].at = "found" /\ update'[u].bound = q
      /\ \A v \in Updates \ {u} : update'[v] = update[v]
  BY <1>1 DEF Found, TypeOK, Attempts
<1>3. Bound' = [Bound EXCEPT ![u] = q]
  BY <1>1, <1>2, BoundMoves
<1>4. Bound[u] = Nobody /\ q \in Asked
  BY DEF Bound, Asked
<1> QED BY <1>3, <1>4, SameChat, SameQuestions, SameSlow DEF Chat!Match

LEMMA UpdatesAreChat ==
  ASSUME IInv, IInv', NEW u \in Updates,
         \/ u \in Presses /\ \E q \in Questions : Press(u, q)
         \/ \E target \in Questions \union {Nobody} : Type(u, target)
         \/ u \in Presses /\ \E allowed \in BOOLEAN : HandlePress(u, allowed)
         \/ \E allowed \in BOOLEAN : HandleMessage(u, allowed)
         \/ Resolve(u)
  PROVE  [Chat!Next]_Chat!vars
<1> DEFINE a == update[u]
<1> USE DEF brokerVars, mapVars, loopVars
<1>1. TypeOK /\ TypeOK' /\ UpdateInv(u) /\ a \in Attempts
  BY DEF IInv, TypeOK
<1>2. ASSUME NEW target \in Questions \union {Nobody},
             (u \in Presses /\ Press(u, target)) \/ Type(u, target)
      PROVE  [Chat!Next]_Chat!vars
  <2>1. /\ a.at = "unsent" /\ UNCHANGED mapVars
        /\ update' = [update EXCEPT ![u] = [a EXCEPT !.at = "sent", !.target = target]]
        /\ UNCHANGED <<now, channel, free, textReplies, loop, phase, created, started, winner, post, message, settle>>
    BY <1>2 DEF Press, Type
  <2>2. update'[u].at = "sent" /\ \A v \in Updates \ {u} : update'[v] = update[v]
    BY <1>1, <2>1 DEF TypeOK, Attempts
  <2>3. Chat!ReachKeeps({})
    BY <2>1, PruneIsForget
  <2>4. Chat!Forget
    BY <1>1, <2>1, <2>2, <2>3, UnboundIsChat
  <2> QED BY <2>4 DEF Chat!Next
<1>3. ASSUME a.at = "sent", NEW told \in {"denied", "gone", "ignored", "ambiguous"}, Tell(u, told),
             Chat!ReachKeeps({}),
             UNCHANGED <<now, channel, phase, created, started, winner, post, message, settle>>
      PROVE  [Chat!Next]_Chat!vars
  <2>1. update'[u].at = "over" /\ \A v \in Updates \ {u} : update'[v] = update[v]
    BY <1>1, <1>3 DEF Tell, TypeOK
  <2>2. Chat!Forget
    BY <1>1, <1>3, <2>1, UnboundIsChat
  <2> QED BY <2>2 DEF Chat!Next
<1>4. ASSUME u \in Presses, NEW allowed \in BOOLEAN, HandlePress(u, allowed)
      PROVE  [Chat!Next]_Chat!vars
  <2>1. a.at = "sent" /\ a.target \in Questions
    BY <1>1, <1>4 DEF HandlePress, Fetched, UpdateInv, Fits, Attempts
  <2>2. /\ UNCHANGED <<now, channel, free, textReplies, loop, phase, created, started, winner, post, message, settle>>
        /\ UNCHANGED mapVars
    BY <1>4 DEF HandlePress
  <2>3. Chat!ReachKeeps({})
    BY <2>2, PruneIsForget
  <2>4. CASE Tell(u, "denied") \/ Tell(u, "gone")
    BY <1>3, <2>1, <2>2, <2>3, <2>4
  <2>5. CASE Open(a.target) /\ Found(u, a.target)
    <3>1. Chat!Match(u, a.target)
      BY <2>1, <2>2, <2>3, <2>5, FoundIsMatch
    <3> QED BY <2>1, <3>1 DEF Chat!Next
  <2> QED BY <1>4, <2>4, <2>5 DEF HandlePress
<1>5. ASSUME NEW allowed \in BOOLEAN, HandleMessage(u, allowed) PROVE [Chat!Next]_Chat!vars
  <2>1. /\ a.at = "sent" /\ Prunes
        /\ UNCHANGED <<now, channel, free, textReplies, loop, phase, created, started, winner, post, message, settle>>
    BY <1>5 DEF HandleMessage, Fetched, Prunes
  <2>2. Chat!ReachKeeps({})
    BY <2>1, PruneIsForget
  <2>3. ASSUME NEW told \in {"ignored", "ambiguous", "denied"}, Tell(u, told)
        PROVE  [Chat!Next]_Chat!vars
    BY <1>3, <2>1, <2>2, <2>3
  <2>4. ASSUME NEW q \in Matches(a.target), Found(u, q) PROVE [Chat!Next]_Chat!vars
    <3>1. q \in Questions /\ Open(q)
      BY <2>4, MatchedIsOpen
    <3>2. Chat!Match(u, q)
      BY <2>1, <2>2, <2>4, <3>1, FoundIsMatch
    <3> QED BY <3>1, <3>2 DEF Chat!Next
  <2> QED BY <1>5, <2>3, <2>4 DEF HandleMessage
<1>6. CASE Resolve(u)
  <2> DEFINE q == a.bound
  <2>1. a.at = "found" /\ q \in Questions
    BY <1>1, <1>6 DEF Resolve, UpdateInv, Fits, Attempts
  <2>2. Bound[u] = q /\ q # Nobody
    BY <2>1 DEF Bound
  <2>3. Bound' = [Bound EXCEPT ![u] = Nobody]
    <3>1. update'[u].at = "over" /\ \A v \in Updates \ {u} : update'[v] = update[v]
      BY <1>1, <1>6 DEF Resolve, Tell, TypeOK
    <3> QED BY <1>1, <3>1, BoundMoves
  <2>4. UNCHANGED <<Answerable, message, Asked, Delivered, Left, Reach, Slow>>
    BY <1>6, SameChat, SameQuestions, SameReach, SameSlow DEF Resolve
  <2>5. (q \in Asked) <=> Open(q)
    BY <2>1 DEF Asked
  <2>6. Chat!Answer(u)
    BY <1>6, <2>2, <2>3, <2>4, <2>5 DEF Resolve, Chat!Answer, Chat!Decided
  <2> QED BY <2>6 DEF Chat!Next
<1> QED BY <1>2, <1>4, <1>5, <1>6

LEMMA StepIsChat == IInv /\ IInv' /\ [Next]_vars => [Chat!Next]_Chat!vars
<1>1. IInv /\ IInv' /\ UNCHANGED vars => [Chat!Next]_Chat!vars
  BY SameChat, SameQuestions, SameSlow, SameReach, SameBound DEF vars, Chat!vars
<1> QED BY <1>1, LifeIsChat, SubmitIsChat, UpdatesAreChat DEF Next

(* Telegram is a messenger, whatever the timeouts, prunes, failing calls   *)
(* and crashes: a question that waits can be found by a typed answer, a    *)
(* finished one cannot, and nothing with buttons is left that Settle has   *)
(* not reported, but for the questions that took as long as the grace      *)
(* period to be posted, which the contract lets go (telegram.go: Post,     *)
(* expiryOf, remember, pruneLocked, Settle; handlers.go).                  *)
THEOREM Implementation == Spec => ImplementsMessenger
BY InitChat, StepIsChat, AlwaysIInv, PTL DEF Spec, Chat!Spec, ImplementsMessenger
=============================================================================
