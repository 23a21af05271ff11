--------------------------- MODULE DiscordProofs ----------------------------
(***************************************************************************)
(* Proofs about Discord, for any number of questions, clicks and messages: *)
(* a reply answers the question it replies to, nobody decides after being  *)
(* turned away, and the transport implements the contract of a messenger.  *)
(***************************************************************************)
EXTENDS Discord, TLAPS

(* What makes them inductive.                                              *)

(* A question: what its Submit, Post and Settle leave behind at each step. *)
QuestionInv(q) ==
  /\ phase[q] = "new" => content[q] = "none" /\ winner[q] = Nobody
  /\ phase[q] = "new" => post[q] = "idle"
  /\ phase[q] \in {"new", "posting", "waiting", "notifying"} => settle[q] = "idle"
  /\ phase[q] \in {"waiting", "settling"} => post[q] # "sending"
  /\ q \in controls => content[q] # "none"
  /\ post[q] = "posted" => content[q] # "none"
  /\ q \in posted => Open(q) /\ post[q] = "posted"
  /\ phase[q] \in {"posting", "waiting"} /\ post[q] = "posted" => q \in posted
  /\ phase[q] = "settling" => winner[q] # Nobody
  /\ settle[q] \in {"called", "forgotten"} => phase[q] = "settling"
  /\ settle[q] = "called" => q \in posted
  /\ settle[q] \in {"forgotten", "ok", "error"} => q \notin posted
  /\ phase[q] = "settling" => (settle[q] = "idle" <=> post[q] # "posted")
  /\ phase[q] = "settling" /\ settle[q] = "ok" => q \notin controls

(* A click or a message, being x: what it is bound to, whose decision and whose     *)
(* text in the channel it may be, and what its author was told by then.    *)
Fits(u, x) ==
  /\ u \in Messages => x.how = "typed" /\ x.at \in {"unsent", "sent", "found", "over"}
  /\ u \in Messages /\ x.bound # Nobody => x.target \in {Nobody, x.bound}
  /\ x.how # "typed" => x.target # Nobody
  /\ x.at \in {"modal", "submitted"} => x.how = "write"
  /\ x.at \in {"found", "shown"} => x.bound # Nobody
  /\ x.at = "unsent" => x.bound = Nobody
  /\ x.bound # Nobody => content[x.bound] # "none"
  /\ x.target # Nobody => content[x.target] # "none"
  /\ x.at # "over" => x.told \in {"nothing", "recorded"}
  /\ x.told = "gone" => x.target # Nobody /\ ~Open(x.target)
  /\ \A q \in Questions :
       /\ winner[q] = u => x.at = "over" /\ x.told \in {"nothing", "recorded"} /\ x.bound = q
       /\ content[q] = u => x.at \in {"shown", "over"} /\ x.told \in {"nothing", "recorded"}

UpdateInv(u) == Fits(u, update[u])

IInv ==
  /\ TypeOK
  /\ \A q \in Questions : QuestionInv(q)
  /\ \A u \in Updates : UpdateInv(u)

USE DiscordAssumption DEF Updates

-----------------------------------------------------------------------------
(* Preservation.                                                           *)

LEMMA InitIInv == Init => IInv
<1> SUFFICES ASSUME Init PROVE IInv
  OBVIOUS
<1>1. TypeOK
  BY DEF Init, TypeOK, NoUpdate, Attempts
<1>2. ASSUME NEW q \in Questions PROVE QuestionInv(q)
  BY <1>2 DEF Init, QuestionInv
<1>3. ASSUME NEW u \in Updates PROVE UpdateInv(u)
  BY <1>3 DEF Init, UpdateInv, Fits, NoUpdate
<1> QED BY <1>1, <1>2, <1>3 DEF IInv

(* A step of the gateway, and the death of the daemon. *)
LEMMA LifeKeeps ==
  ASSUME IInv, Life
  PROVE  IInv'
<1> USE DEF IInv, brokerVars, chatVars
<1>1. CASE Connect
  BY <1>1 DEF Connect, TypeOK, QuestionInv, UpdateInv, Fits, Open
<1>2. ASSUME NEW ok \in BOOLEAN, Ready(ok) PROVE IInv'
  BY <1>2 DEF Ready, TypeOK, QuestionInv, UpdateInv, Fits, Open
<1>3. ASSUME NEW ok \in BOOLEAN, Channel(ok) PROVE IInv'
  BY <1>3 DEF Channel, TypeOK, QuestionInv, UpdateInv, Fits, Open
<1>4. CASE Close
  BY <1>4 DEF Close, TypeOK, QuestionInv, UpdateInv, Fits, Open
<1>5. CASE Crash
  <2>1. TypeOK'
    BY <1>5 DEF Crash, TypeOK, Attempts
  <2>2. ASSUME NEW q \in Questions PROVE QuestionInv(q)'
    BY <1>5, <2>2 DEF Crash, TypeOK, QuestionInv, Open
  <2>3. ASSUME NEW u \in Updates PROVE UpdateInv(u)'
    BY <1>5, <2>3 DEF Crash, TypeOK, UpdateInv, Fits, Open, Attempts
  <2> QED BY <2>1, <2>2, <2>3
<1> QED BY <1>1, <1>2, <1>3, <1>4, <1>5 DEF Life

(* A step of a Submit or a Notify leaves the other questions alone, and    *)
(* of a human's attempt only whether its question is open.                 *)
LEMMA SubmitKeeps ==
  ASSUME IInv, NEW q \in Questions, SubmitStep(q)
  PROVE  IInv'
<1> USE DEF IInv, brokerVars, chatVars
<1>1. ASSUME NEW kind \in {"posting", "notifying"}, Ask(q, kind) PROVE IInv'
  <2>1. TypeOK'
    BY <1>1 DEF Ask, TypeOK
  <2>2. ASSUME NEW p \in Questions PROVE QuestionInv(p)'
    BY <1>1, <2>2 DEF Ask, TypeOK, QuestionInv, Open
  <2>3. ASSUME NEW u \in Updates PROVE UpdateInv(u)'
    BY <1>1, <2>3 DEF Ask, TypeOK, QuestionInv, UpdateInv, Fits, Open
  <2> QED BY <2>1, <2>2, <2>3
<1>2. CASE SendMessage(q)
  <2>1. TypeOK'
    BY <1>2 DEF SendMessage, TypeOK, Asking, Awaits
  <2>2. ASSUME NEW p \in Questions PROVE QuestionInv(p)'
    BY <1>2, <2>2 DEF SendMessage, TypeOK, QuestionInv, Open, Asking, Awaits
  <2>3. ASSUME NEW u \in Updates PROVE UpdateInv(u)'
    BY <1>2, <2>3 DEF SendMessage, TypeOK, QuestionInv, UpdateInv, Fits, Open, Asking, Awaits
  <2> QED BY <2>1, <2>2, <2>3
<1>3. CASE Posts(q)
  <2>1. TypeOK'
    BY <1>3 DEF Posts, TypeOK, Asking, Awaits
  <2>2. ASSUME NEW p \in Questions PROVE QuestionInv(p)'
    BY <1>3, <2>2 DEF Posts, TypeOK, QuestionInv, Open, Asking, Awaits
  <2>3. ASSUME NEW u \in Updates PROVE UpdateInv(u)'
    BY <1>3, <2>3 DEF Posts, TypeOK, QuestionInv, UpdateInv, Fits, Open, Asking, Awaits
  <2> QED BY <2>1, <2>2, <2>3
<1>4. CASE PostFails(q)
  <2>1. TypeOK'
    BY <1>4 DEF PostFails, TypeOK, Asking
  <2>2. ASSUME NEW p \in Questions PROVE QuestionInv(p)'
    BY <1>4, <2>2 DEF PostFails, TypeOK, QuestionInv, Open, Asking
  <2>3. ASSUME NEW u \in Updates PROVE UpdateInv(u)'
    BY <1>4, <2>3 DEF PostFails, TypeOK, QuestionInv, UpdateInv, Fits, Open, Asking
  <2> QED BY <2>1, <2>2, <2>3
<1>5. ASSUME NEW ok \in BOOLEAN, FanoutDone(q, ok) PROVE IInv'
  <2>1. TypeOK'
    BY <1>5 DEF FanoutDone, TypeOK, Asking, Notice
  <2>2. ASSUME NEW p \in Questions PROVE QuestionInv(p)'
    BY <1>5, <2>2 DEF FanoutDone, TypeOK, QuestionInv, Open, Asking, Notice
  <2>3. ASSUME NEW u \in Updates PROVE UpdateInv(u)'
    BY <1>5, <2>3 DEF FanoutDone, TypeOK, QuestionInv, UpdateInv, Fits, Open, Asking, Notice
  <2> QED BY <2>1, <2>2, <2>3
<1>6. ASSUME NEW ok \in BOOLEAN, EditMessage(q, ok) PROVE IInv'
  <2>1. TypeOK'
    <3>1. winner[q] \in Updates \union {"wait", "other"}
      BY <1>6 DEF EditMessage, TypeOK, QuestionInv
    <3> QED BY <1>6, <3>1 DEF EditMessage, TypeOK
  <2>2. ASSUME NEW p \in Questions PROVE QuestionInv(p)'
    BY <1>6, <2>2 DEF EditMessage, TypeOK, QuestionInv, Open
  <2>3. ASSUME NEW u \in Updates PROVE UpdateInv(u)'
    BY <1>6, <2>3 DEF EditMessage, TypeOK, QuestionInv, UpdateInv, Fits, Open
  <2> QED BY <2>1, <2>2, <2>3
<1>7. CASE DecidedElsewhere(q)
  <2>1. TypeOK'
    BY <1>7 DEF DecidedElsewhere, TypeOK
  <2>2. ASSUME NEW p \in Questions PROVE QuestionInv(p)'
    BY <1>7, <2>2 DEF DecidedElsewhere, TypeOK, QuestionInv, Open
  <2>3. ASSUME NEW u \in Updates PROVE UpdateInv(u)'
    BY <1>7, <2>3 DEF DecidedElsewhere, TypeOK, QuestionInv, UpdateInv, Fits, Open
  <2> QED BY <2>1, <2>2, <2>3
<1>8. CASE WaitReturns(q)
  <2>1. TypeOK'
    BY <1>8 DEF WaitReturns, TypeOK
  <2>2. ASSUME NEW p \in Questions PROVE QuestionInv(p)'
    BY <1>8, <2>2 DEF WaitReturns, TypeOK, QuestionInv, Open
  <2>3. ASSUME NEW u \in Updates PROVE UpdateInv(u)'
    BY <1>8, <2>3 DEF WaitReturns, TypeOK, QuestionInv, UpdateInv, Fits, Open
  <2> QED BY <2>1, <2>2, <2>3
<1>9. CASE Forget(q)
  <2>1. TypeOK'
    BY <1>9 DEF Forget, TypeOK
  <2>2. ASSUME NEW p \in Questions PROVE QuestionInv(p)'
    BY <1>9, <2>2 DEF Forget, TypeOK, QuestionInv, Open
  <2>3. ASSUME NEW u \in Updates PROVE UpdateInv(u)'
    BY <1>9, <2>3 DEF Forget, TypeOK, QuestionInv, UpdateInv, Fits, Open
  <2> QED BY <2>1, <2>2, <2>3
<1>10. CASE Retire(q)
  <2>1. TypeOK'
    BY <1>10 DEF Retire, TypeOK
  <2>2. ASSUME NEW p \in Questions PROVE QuestionInv(p)'
    BY <1>10, <2>2 DEF Retire, TypeOK, QuestionInv, Open
  <2>3. ASSUME NEW u \in Updates PROVE UpdateInv(u)'
    BY <1>10, <2>3 DEF Retire, TypeOK, QuestionInv, UpdateInv, Fits, Open
  <2> QED BY <2>1, <2>2, <2>3
<1> QED BY <1>1, <1>2, <1>3, <1>4, <1>5, <1>6, <1>7, <1>8, <1>9, <1>10 DEF SubmitStep

(* What a human or a handler does to one attempt.  The questions change in *)
(* their text, controls and winner only, and not on the way there.         *)
LEMMA QuestionsKept ==
  ASSUME IInv, UNCHANGED <<phase, winner, post, content, controls, posted, settle>>
  PROVE  \A q \in Questions : QuestionInv(q)'
  BY DEF IInv, QuestionInv, Open

(* One attempt becomes x, and nothing else changes. *)
LEMMA AttemptMoves ==
  ASSUME IInv, NEW u \in Updates, NEW x \in Attempts, Fits(u, x),
         update' = [update EXCEPT ![u] = x],
         UNCHANGED <<gateway, free, phase, winner, post, content, controls, posted, settle>>
  PROVE  IInv'
<1>1. TypeOK'
  BY DEF IInv, TypeOK
<1>2. ASSUME NEW v \in Updates PROVE UpdateInv(v)'
  <2>1. update'[v] = IF v = u THEN x ELSE update[v]
    BY <1>2 DEF IInv, TypeOK
  <2>2. Fits(v, update'[v])
    BY <1>2, <2>1 DEF IInv, UpdateInv
  <2> QED BY <2>2 DEF UpdateInv, Fits, Open
<1> QED BY <1>1, <1>2, QuestionsKept DEF IInv

(* What EXCEPT makes of an attempt. *)
LEMMA NowAt ==
  ASSUME NEW x \in Attempts, NEW at
  PROVE  [x EXCEPT !.at = at] =
         [at |-> at, how |-> x.how, target |-> x.target, bound |-> x.bound, told |-> x.told]
  BY DEF Attempts

LEMMA NowTold ==
  ASSUME NEW x \in Attempts, NEW at, NEW told
  PROVE  [x EXCEPT !.at = at, !.told = told] =
         [at |-> at, how |-> x.how, target |-> x.target, bound |-> x.bound, told |-> told]
<1>1. [x EXCEPT !.at = at, !.told = told] =
      [[x EXCEPT !.at = at] EXCEPT !.told = told]
  OBVIOUS
<1>2. [x EXCEPT !.at = at] =
      [at |-> at, how |-> x.how, target |-> x.target, bound |-> x.bound, told |-> x.told]
  BY DEF Attempts
<1>3. [[at |-> at, how |-> x.how, target |-> x.target, bound |-> x.bound, told |-> x.told] EXCEPT !.told = told] =
      [at |-> at, how |-> x.how, target |-> x.target, bound |-> x.bound, told |-> told]
  OBVIOUS
<1> QED BY <1>1, <1>2, <1>3

LEMMA NowBound ==
  ASSUME NEW x \in Attempts, NEW at, NEW bound
  PROVE  [x EXCEPT !.at = at, !.bound = bound] =
         [at |-> at, how |-> x.how, target |-> x.target, bound |-> bound, told |-> x.told]
<1>1. [x EXCEPT !.at = at, !.bound = bound] =
      [[x EXCEPT !.at = at] EXCEPT !.bound = bound]
  OBVIOUS
<1>2. [x EXCEPT !.at = at] =
      [at |-> at, how |-> x.how, target |-> x.target, bound |-> x.bound, told |-> x.told]
  BY DEF Attempts
<1>3. [[at |-> at, how |-> x.how, target |-> x.target, bound |-> x.bound, told |-> x.told] EXCEPT !.bound = bound] =
      [at |-> at, how |-> x.how, target |-> x.target, bound |-> bound, told |-> x.told]
  OBVIOUS
<1> QED BY <1>1, <1>2, <1>3

LEMMA NowAimed ==
  ASSUME NEW x \in Attempts, NEW at, NEW target
  PROVE  [x EXCEPT !.at = at, !.target = target] =
         [at |-> at, how |-> x.how, target |-> target, bound |-> x.bound, told |-> x.told]
<1>1. [x EXCEPT !.at = at, !.target = target] =
      [[x EXCEPT !.at = at] EXCEPT !.target = target]
  OBVIOUS
<1>2. [x EXCEPT !.at = at] =
      [at |-> at, how |-> x.how, target |-> x.target, bound |-> x.bound, told |-> x.told]
  BY DEF Attempts
<1>3. [[at |-> at, how |-> x.how, target |-> x.target, bound |-> x.bound, told |-> x.told] EXCEPT !.target = target] =
      [at |-> at, how |-> x.how, target |-> target, bound |-> x.bound, told |-> x.told]
  OBVIOUS
<1> QED BY <1>1, <1>2, <1>3

LEMMA NowClicked ==
  ASSUME NEW x \in Attempts, NEW at, NEW how, NEW target
  PROVE  [x EXCEPT !.at = at, !.how = how, !.target = target] =
         [at |-> at, how |-> how, target |-> target, bound |-> x.bound, told |-> x.told]
<1>1. [x EXCEPT !.at = at, !.how = how, !.target = target] =
      [[[x EXCEPT !.at = at] EXCEPT !.how = how] EXCEPT !.target = target]
  OBVIOUS
<1>2. [x EXCEPT !.at = at] =
      [at |-> at, how |-> x.how, target |-> x.target, bound |-> x.bound, told |-> x.told]
  BY DEF Attempts
<1>3. [[at |-> at, how |-> x.how, target |-> x.target, bound |-> x.bound, told |-> x.told] EXCEPT !.how = how] =
      [at |-> at, how |-> how, target |-> x.target, bound |-> x.bound, told |-> x.told]
  OBVIOUS
<1>4. [[at |-> at, how |-> how, target |-> x.target, bound |-> x.bound, told |-> x.told] EXCEPT !.target = target] =
      [at |-> at, how |-> how, target |-> target, bound |-> x.bound, told |-> x.told]
  OBVIOUS
<1> QED BY <1>1, <1>2, <1>3, <1>4

(* Its author is turned away, its question is found, or it is as it was.   *)
LEMMA TellKeeps ==
  ASSUME IInv, NEW u \in Updates, update[u].at \in {"sent", "submitted"},
         NEW told \in {"denied", "gone", "empty", "ignored", "ambiguous"}, Tell(u, told),
         told = "gone" => update[u].target # Nobody /\ ~Open(update[u].target),
         UNCHANGED <<gateway, free, phase, winner, post, content, controls, posted, settle>>
  PROVE  IInv'
<1> DEFINE a == update[u]
           x == [at |-> "over", how |-> a.how, target |-> a.target, bound |-> a.bound,
                 told |-> told]
<1>1. a \in Attempts
  BY DEF IInv, TypeOK
<1>2. x \in Attempts
  BY <1>1 DEF Attempts
<1>3. update' = [update EXCEPT ![u] = x]
  BY <1>1, NowTold DEF Tell, IInv, TypeOK
<1>4. Fits(u, a) /\ \A q \in Questions : winner[q] # u /\ content[q] # u
  BY DEF IInv, UpdateInv, Fits
<1>5. Fits(u, x)
  BY <1>4 DEF Fits
<1> QED BY <1>2, <1>3, <1>5, AttemptMoves

LEMMA FoundKeeps ==
  ASSUME IInv, NEW u \in Updates, update[u].at \in {"sent", "submitted"},
         NEW q \in Questions, Found(u, q), content[q] # "none",
         u \in Messages => update[u].target \in {Nobody, q},
         UNCHANGED <<gateway, free, phase, winner, post, content, controls, posted, settle>>
  PROVE  IInv'
<1> DEFINE a == update[u]
           x == [at |-> "found", how |-> a.how, target |-> a.target, bound |-> q, told |-> a.told]
<1>1. a \in Attempts
  BY DEF IInv, TypeOK
<1>2. x \in Attempts
  BY <1>1 DEF Attempts
<1>3. update' = [update EXCEPT ![u] = x]
  BY <1>1, NowBound DEF Found, IInv, TypeOK
<1>4. Fits(u, a) /\ \A p \in Questions : winner[p] # u /\ content[p] # u
  BY DEF IInv, UpdateInv, Fits
<1>5. Fits(u, x)
  BY <1>1, <1>4 DEF Fits, Attempts
<1> QED BY <1>2, <1>3, <1>5, AttemptMoves

(* Its control is opened, submitted, or gives up. *)
LEMMA AtKeeps ==
  ASSUME IInv, NEW u \in Updates, u \in Presses, update[u].how = "write",
         NEW at \in {"modal", "submitted", "over"}, update[u].at \in {"sent", "modal"},
         update' = [update EXCEPT ![u] = [@ EXCEPT !.at = at]],
         UNCHANGED <<gateway, free, phase, winner, post, content, controls, posted, settle>>
  PROVE  IInv'
<1> DEFINE a == update[u]
           x == [at |-> at, how |-> a.how, target |-> a.target, bound |-> a.bound,
                 told |-> a.told]
<1>1. a \in Attempts
  BY DEF IInv, TypeOK
<1>2. x \in Attempts
  BY <1>1 DEF Attempts
<1>3. update' = [update EXCEPT ![u] = x]
  BY <1>1, NowAt DEF IInv, TypeOK
<1>4. Fits(u, a) /\ \A q \in Questions : winner[q] # u /\ content[q] # u
  BY DEF IInv, UpdateInv, Fits
<1>5. Fits(u, x)
  BY <1>4 DEF Fits
<1> QED BY <1>2, <1>3, <1>5, AttemptMoves

LEMMA HumansKeep ==
  ASSUME IInv, NEW u \in Updates,
         \/ u \in Presses /\ \E q \in Questions, how \in {"choice", "write"} : Click(u, q, how)
         \/ u \in Presses /\ SubmitModal(u)
         \/ u \in Messages /\ \E target \in Questions \union {Nobody} : Type(u, target)
  PROVE  IInv'
<1> DEFINE a == update[u]
<1>1. a \in Attempts /\ Fits(u, a)
  BY DEF IInv, TypeOK, UpdateInv
<1>2. a.at = "unsent" => \A q \in Questions : winner[q] # u /\ content[q] # u
  BY <1>1 DEF Fits
<1>3. ASSUME u \in Presses, NEW q \in Questions, NEW how \in {"choice", "write"}, Click(u, q, how)
      PROVE  IInv'
  <2> DEFINE x == [at |-> "sent", how |-> how, target |-> q, bound |-> a.bound, told |-> a.told]
  <2>1. x \in Attempts
    BY <1>1 DEF Attempts
  <2>2. update' = [update EXCEPT ![u] = x]
    BY <1>1, <1>3, NowClicked DEF Click, IInv, TypeOK
  <2>3. a.at = "unsent" /\ content[q] # "none"
    BY <1>3 DEF Click, IInv, QuestionInv
  <2>4. a.told # "gone"
    BY <1>1, <2>3 DEF Fits
  <2>5. Fits(u, x)
    BY <1>1, <1>2, <1>3, <2>3, <2>4 DEF Fits
  <2> QED BY <1>3, <2>1, <2>2, <2>5, AttemptMoves DEF Click, brokerVars, chatVars
<1>4. ASSUME u \in Presses, SubmitModal(u) PROVE IInv'
  <2>1. a.how = "write"
    BY <1>1, <1>4 DEF SubmitModal, Fits
  <2> QED BY <1>4, <2>1, AtKeeps DEF SubmitModal, brokerVars, chatVars
<1>5. ASSUME u \in Messages, NEW target \in Questions \union {Nobody}, Type(u, target)
      PROVE  IInv'
  <2> DEFINE x == [at |-> "sent", how |-> a.how, target |-> target, bound |-> a.bound,
                   told |-> a.told]
  <2>1. x \in Attempts
    BY <1>1 DEF Attempts
  <2>2. update' = [update EXCEPT ![u] = x]
    <3>1. [a EXCEPT !.at = "sent", !.target = target] = x
      BY <1>1, NowAimed
    <3>2. update' = [update EXCEPT ![u] = [a EXCEPT !.at = "sent", !.target = target]]
      BY <1>5 DEF Type
    <3> QED BY <3>1, <3>2
  <2>3. a.at = "unsent" /\ a.told # "gone" /\ a.bound = Nobody
    BY <1>1, <1>5 DEF Type, Fits
  <2>4. Fits(u, x)
    BY <1>1, <1>2, <1>5, <2>3 DEF Fits, Type
  <2> QED BY <1>5, <2>1, <2>2, <2>4, AttemptMoves DEF Type, brokerVars, chatVars
<1> QED BY <1>3, <1>4, <1>5

LEMMA HandlersKeep ==
  ASSUME IInv, NEW u \in Updates, Handle(u)
  PROVE  IInv'
<1> DEFINE a == update[u]
<1>1. a \in Attempts /\ Fits(u, a)
  BY DEF IInv, TypeOK, UpdateInv
<1>2. Presses \intersect Messages = {} /\ (a.how # "typed" => u \in Presses)
  BY <1>1 DEF Fits
<1>3. \A q \in Questions : Open(q) /\ (q \in posted \/ a.target = q) => content[q] # "none"
  BY <1>1 DEF IInv, QuestionInv, Fits
<1>4. ASSUME NEW allowed \in BOOLEAN, HandleChoice(u, allowed) PROVE IInv'
  <2>1. a.at = "sent" /\ a.target # Nobody /\ a.target \in Questions
    BY <1>1, <1>4 DEF HandleChoice, Fits, Attempts
  <2>2. CASE Refuse(u, allowed)
    BY <1>4, <2>1, <2>2, TellKeeps DEF HandleChoice, Refuse, brokerVars, chatVars
  <2>3. CASE Gone(u, allowed)
    BY <1>4, <2>1, <2>3, TellKeeps DEF HandleChoice, Gone, brokerVars, chatVars
  <2>4. CASE Open(a.target) /\ Found(u, a.target)
    BY <1>2, <1>3, <1>4, <2>1, <2>4, FoundKeeps DEF HandleChoice, brokerVars, chatVars
  <2> QED BY <1>4, <2>2, <2>3, <2>4 DEF HandleChoice
<1>5. ASSUME NEW allowed \in BOOLEAN, HandleMessage(u, allowed) PROVE IInv'
  <2>1. a.at = "sent"
    BY <1>5 DEF HandleMessage
  <2>2. ASSUME NEW told \in {"ignored", "ambiguous", "denied"}, Tell(u, told) PROVE IInv'
    BY <1>5, <2>1, <2>2, TellKeeps DEF HandleMessage, brokerVars, chatVars
  <2>3. ASSUME NEW q \in Correlate(a.target), Found(u, q) PROVE IInv'
    <3>1. q \in posted /\ q \in Questions /\ a.target \in {Nobody, q}
      BY <2>3 DEF Correlate, IInv, TypeOK
    <3>2. content[q] # "none"
      BY <3>1 DEF IInv, QuestionInv
    <3> QED BY <1>5, <2>1, <2>3, <3>1, <3>2, FoundKeeps DEF HandleMessage, brokerVars, chatVars
  <2> QED BY <1>5, <2>2, <2>3 DEF HandleMessage
<1>6. ASSUME NEW allowed \in BOOLEAN, NEW ok \in BOOLEAN, OpenModal(u, allowed, ok) PROVE IInv'
  <2>1. a.at = "sent" /\ a.how = "write" /\ a.target # Nobody
    BY <1>1, <1>6 DEF OpenModal, Fits
  <2>2. CASE Refuse(u, allowed)
    BY <1>6, <2>1, <2>2, TellKeeps DEF OpenModal, Refuse, brokerVars, chatVars
  <2>3. CASE Gone(u, allowed)
    BY <1>6, <2>1, <2>3, TellKeeps DEF OpenModal, Gone, brokerVars, chatVars
  <2>4. ASSUME NEW at \in {"modal", "over"}, update' = [update EXCEPT ![u] = [@ EXCEPT !.at = at]]
        PROVE  IInv'
    BY <1>2, <1>6, <2>1, <2>4, AtKeeps DEF OpenModal, brokerVars, chatVars
  <2> QED BY <1>6, <2>2, <2>3, <2>4 DEF OpenModal
<1>7. ASSUME NEW allowed \in BOOLEAN, NEW blank \in BOOLEAN, HandleModal(u, allowed, blank)
      PROVE  IInv'
  <2>1. a.at = "submitted" /\ a.how = "write" /\ a.target # Nobody /\ a.target \in Questions
    BY <1>1, <1>7 DEF HandleModal, Fits, Attempts
  <2>2. CASE Refuse(u, allowed)
    BY <1>7, <2>1, <2>2, TellKeeps DEF HandleModal, Refuse, brokerVars, chatVars
  <2>3. CASE Gone(u, allowed)
    BY <1>7, <2>1, <2>3, TellKeeps DEF HandleModal, Gone, brokerVars, chatVars
  <2>4. CASE Tell(u, "empty")
    BY <1>7, <2>1, <2>4, TellKeeps DEF HandleModal, brokerVars, chatVars
  <2>5. CASE Open(a.target) /\ Found(u, a.target)
    BY <1>2, <1>3, <1>7, <2>1, <2>5, FoundKeeps DEF HandleModal, brokerVars, chatVars
  <2> QED BY <1>7, <2>2, <2>3, <2>4, <2>5 DEF HandleModal
<1>8. ASSUME NEW ok \in BOOLEAN, NEW inPlace \in BOOLEAN, Rewrite(u, ok, inPlace) PROVE IInv'
  <2> DEFINE q == a.bound
             told == IF ok THEN "recorded" ELSE a.told
             x == [at |-> "shown", how |-> a.how, target |-> a.target, bound |-> q, told |-> told]
  <2>1. /\ u \in Presses /\ a.at = "found" /\ q \in Questions /\ content[q] # "none"
        /\ a.told \in {"nothing", "recorded"}
        /\ content' \in {content, [content EXCEPT ![q] = u]}
        /\ controls' \subseteq controls
        /\ UNCHANGED <<gateway, free, phase, winner, post, posted, settle>>
    BY <1>1, <1>8 DEF Rewrite, Fits, Attempts, brokerVars
  <2>2. x \in Attempts
    BY <1>1, <2>1 DEF Attempts
  <2>3. update' = [update EXCEPT ![u] = x]
    <3>1. [a EXCEPT !.at = "shown", !.told = told] = x
      <4> HIDE DEF told
      <4> QED BY <1>1, NowTold
    <3>2. update' = [update EXCEPT ![u] = [a EXCEPT !.at = "shown", !.told = told]]
      BY <1>8 DEF Rewrite
    <3> QED BY <3>1, <3>2
  <2>4. TypeOK'
    BY <2>1, <2>2, <2>3 DEF IInv, TypeOK
  <2>5. ASSUME NEW p \in Questions PROVE QuestionInv(p)'
    BY <2>1, <2>5 DEF IInv, TypeOK, QuestionInv, Open
  <2>6. ASSUME NEW v \in Updates PROVE UpdateInv(v)'
    <3>1. \A p \in Questions : /\ content'[p] = "none" => content[p] = "none"
                               /\ content'[p] = v => content[p] = v \/ v = u
      BY <2>1, <2>6 DEF IInv, TypeOK
    <3>2. update'[v] = IF v = u THEN x ELSE update[v]
      BY <2>3, <2>6 DEF IInv, TypeOK
    <3>3. CASE v = u
      <4> PICK y \in Attempts : y = x
        BY <2>2
      <4>1. Fits(u, y)'
        BY <1>1, <1>2, <2>1, <3>1, <3>3 DEF Fits, Open, Attempts
      <4> QED BY <3>2, <3>3, <4>1 DEF UpdateInv, Fits
    <3>4. CASE v # u
      <4>1. Fits(v, update[v]) /\ update[v] \in Attempts
        BY <2>6 DEF IInv, UpdateInv, TypeOK
      <4>2. Fits(v, update[v])'
        BY <2>1, <3>1, <3>2, <3>4, <4>1 DEF Fits, Open, Attempts
      <4> QED BY <3>2, <3>4, <4>2 DEF UpdateInv, Fits
    <3> QED BY <3>3, <3>4
  <2> QED BY <2>4, <2>5, <2>6 DEF IInv
<1>9. CASE Resolve(u)
  <2> DEFINE q == a.bound
             x == [at |-> "over", how |-> a.how, target |-> a.target, bound |-> q, told |-> a.told]
  <2>1. /\ a.at \in {"found", "shown"} /\ q \in Questions
        /\ a.told \in {"nothing", "recorded"}
        /\ \/ winner' = winner
           \/ Open(q) /\ winner[q] = Nobody /\ winner' = [winner EXCEPT ![q] = u]
        /\ UNCHANGED <<gateway, free, phase, post, content, controls, posted, settle>>
    BY <1>1, <1>9 DEF Resolve, Fits, Attempts, chatVars
  <2>2. x \in Attempts
    BY <1>1 DEF Attempts
  <2>3. update' = [update EXCEPT ![u] = x]
    BY <1>1, <1>9, NowAt DEF Resolve, IInv, TypeOK
  <2>4. TypeOK'
    BY <2>1, <2>2, <2>3 DEF IInv, TypeOK
  <2>5. ASSUME NEW p \in Questions PROVE QuestionInv(p)'
    BY <2>1, <2>5 DEF IInv, TypeOK, QuestionInv, Open
  <2>6. ASSUME NEW v \in Updates PROVE UpdateInv(v)'
    <3>1. \A p \in Questions : winner'[p] = v => winner[p] = v \/ (v = u /\ p = q)
      BY <2>1, <2>6 DEF IInv, TypeOK
    <3>2. update'[v] = IF v = u THEN x ELSE update[v]
      BY <2>3, <2>6 DEF IInv, TypeOK
    <3>3. Fits(v, update[v])
      BY <2>6 DEF IInv, UpdateInv
    <3>4. CASE v = u
      <4> PICK y \in Attempts : y = x
        BY <2>2
      <4>1. Fits(u, y)'
        BY <2>1, <3>1, <3>3, <3>4 DEF Fits, Open
      <4> QED BY <3>2, <3>4, <4>1 DEF UpdateInv, Fits
    <3>5. CASE v # u
      <4>1. Fits(v, update[v])'
        BY <2>1, <3>1, <3>2, <3>3, <3>5 DEF Fits, Open
      <4> QED BY <3>2, <3>5, <4>1 DEF UpdateInv, Fits
    <3> QED BY <3>4, <3>5
  <2> QED BY <2>4, <2>5, <2>6 DEF IInv
<1> QED BY <1>4, <1>5, <1>6, <1>7, <1>8, <1>9 DEF Handle

LEMMA AlwaysIInv == Spec => []IInv
<1>1. IInv /\ [Next]_vars => IInv'
  <2>1. IInv /\ UNCHANGED vars => IInv'
    BY DEF IInv, TypeOK, QuestionInv, UpdateInv, Fits, Open, vars
  <2> QED BY <2>1, LifeKeeps, SubmitKeeps, HumansKeep, HandlersKeep DEF Next
<1> QED BY <1>1, InitIInv, PTL DEF Spec

-----------------------------------------------------------------------------
(* The theorems.                                                           *)

(* The transport's state keeps its ranges in every behaviour. *)
THEOREM TypeCorrect == Spec => []TypeOK
<1>1. IInv => TypeOK
  BY DEF IInv
<1> QED BY <1>1, AlwaysIInv, PTL

(* A reply answers the question it replies to or none (message.go:         *)
(* correlate), whatever became of that question.                           *)
THEOREM ReplyIsAuthoritativeAlways == Spec => []ReplyIsAuthoritative
<1>1. IInv => ReplyIsAuthoritative
  BY DEF IInv, UpdateInv, Fits, ReplyIsAuthoritative
<1> QED BY <1>1, AlwaysIInv, PTL

(* Nobody decides after being turned away, and "gone" is the truth         *)
(* (discord.go: onComponent, answerChoice, onModalSubmit, onMessage).      *)
THEOREM TurnedAwayIsOutAlways == Spec => []TurnedAwayIsOut
<1>1. IInv => TurnedAwayIsOut
  BY DEF IInv, UpdateInv, Fits, TurnedAwayIsOut
<1> QED BY <1>1, AlwaysIInv, PTL

-----------------------------------------------------------------------------
(* The transport implements Messenger.                                     *)

LEMMA InitChat == Init => Chat!Init
<1> SUFFICES ASSUME Init PROVE Chat!Init
  OBVIOUS
<1>1. Asked = {} /\ Delivered = {} /\ Left = {}
  BY DEF Init, Asked, Delivered, Left, Open
<1>2. Message = [q \in Questions |-> "none"] /\ Bound = [u \in Updates |-> Nobody]
  BY DEF Init, Message, Bound, NoUpdate
<1> QED BY <1>1, <1>2 DEF Init, Chat!Init

(* What the contract sees of the questions, and of one attempt. *)
LEMMA SameQuestions ==
  ASSUME UNCHANGED <<phase, post, content, controls, settle>>
  PROVE  UNCHANGED <<Asked, Delivered, Left, Message>>
  BY DEF Asked, Delivered, Left, Message, Open

LEMMA SameBound ==
  ASSUME UNCHANGED update
  PROVE  UNCHANGED Bound
  BY DEF Bound

LEMMA SameMessage ==
  ASSUME UNCHANGED chatVars
  PROVE  UNCHANGED Message
  BY DEF chatVars, Message

LEMMA BoundMoves ==
  ASSUME TypeOK, TypeOK', NEW u \in Updates, \A v \in Updates \ {u} : update'[v] = update[v]
  PROVE  Bound' = [Bound EXCEPT ![u] = IF update'[u].at \in {"found", "shown"}
                                       THEN update'[u].bound ELSE Nobody]
  BY DEF Bound, TypeOK

LEMMA LifeIsChat ==
  ASSUME IInv, Life
  PROVE  [Chat!Next]_Chat!vars
<1>1. CASE Crash
  <2>1. Asked' = {} /\ Delivered' = {} /\ Left' = {} /\ posted' = {}
    BY <1>1 DEF Crash, Asked, Delivered, Left, Open, IInv, TypeOK
  <2>2. Bound' = [u \in Updates |-> Nobody]
    BY <1>1 DEF Crash, Bound, IInv, TypeOK, Attempts
  <2>3. UNCHANGED <<winner, Message>>
    BY <1>1, SameMessage DEF Crash
  <2> QED BY <2>1, <2>2, <2>3 DEF Chat!Next, Chat!Lose
<1>2. CASE ~Crash
  <2>1. UNCHANGED <<phase, winner, post, content, controls, posted, settle, update>>
    BY <1>2 DEF Life, Connect, Ready, Channel, Close, brokerVars, chatVars
  <2> QED BY <2>1, SameQuestions, SameBound DEF Chat!vars
<1> QED BY <1>1, <1>2

LEMMA SubmitIsChat ==
  ASSUME IInv, IInv', NEW q \in Questions, SubmitStep(q)
  PROVE  [Chat!Next]_Chat!vars
<1> USE DEF brokerVars, chatVars
<1>1. QuestionInv(q) /\ TypeOK
  BY DEF IInv
<1>2. Bound' = Bound
  BY SameBound DEF SubmitStep, Ask, SendMessage, Posts, PostFails, FanoutDone, EditMessage,
                   DecidedElsewhere, WaitReturns, Forget, Retire
<1>3. ASSUME NEW kind \in {"posting", "notifying"}, Ask(q, kind) PROVE [Chat!Next]_Chat!vars
  <2>1. UNCHANGED <<winner, posted, Message>>
    BY <1>3, SameMessage DEF Ask
  <2>2. CASE kind = "notifying"
    <3>1. UNCHANGED <<Asked, Delivered, Left>>
      BY <1>1, <1>3, <2>2 DEF Ask, Asked, Delivered, Left, Open, TypeOK
    <3> QED BY <1>2, <2>1, <3>1 DEF Chat!vars
  <2>3. CASE kind = "posting"
    <3>1. /\ Asked' = Asked \union {q} /\ q \notin Asked
          /\ UNCHANGED <<Delivered, Left>>
      BY <1>1, <1>3, <2>3 DEF Ask, Asked, Delivered, Left, Open, TypeOK, QuestionInv
    <3>2. winner[q] = Nobody /\ Message[q] = "none"
      BY <1>1, <1>3 DEF Ask, QuestionInv, Message
    <3>3. Chat!Ask(q)
      BY <1>2, <2>1, <3>1, <3>2 DEF Chat!Ask, Chat!Decided
    <3> QED BY <3>3 DEF Chat!Next
  <2> QED BY <2>2, <2>3
<1>4. CASE SendMessage(q)
  <2>1. UNCHANGED <<winner, posted, Asked, Delivered, Left>>
    BY <1>4 DEF SendMessage, Asked, Delivered, Left, Open
  <2>2. Message[q] = "none"
    BY <1>1, <1>4 DEF SendMessage, QuestionInv, Message
  <2>3. CASE Open(q)
    <3>1. Message' = [Message EXCEPT ![q] = "live"] /\ q \in Asked
      BY <1>1, <1>4, <2>3 DEF SendMessage, Message, TypeOK, Awaits, Asked
    <3>2. Chat!Show(q)
      BY <1>2, <2>1, <2>2, <3>1 DEF Chat!Show
    <3> QED BY <3>2 DEF Chat!Next
  <2>4. CASE ~Open(q)
    <3>1. Message' = [Message EXCEPT ![q] = "dead"] /\ q \notin Asked
      BY <1>1, <1>4, <2>4 DEF SendMessage, Message, TypeOK, Awaits, Asked, QuestionInv
    <3>2. Chat!Tell(q)
      BY <1>2, <2>1, <2>2, <3>1 DEF Chat!Tell
    <3> QED BY <3>2 DEF Chat!Next
  <2> QED BY <2>3, <2>4
<1>5. CASE Posts(q)
  <2>1. UNCHANGED <<winner, Asked, Left, Message>>
    BY <1>5, SameMessage DEF Posts, Asked, Left, Open
  <2>2. CASE Open(q)
    <3>1. /\ Delivered' = Delivered \union {q} /\ q \in Asked \ Delivered
          /\ posted' = posted \union {q}
      BY <1>1, <1>5, <2>2 DEF Posts, Asked, Delivered, Open, TypeOK, Awaits
    <3>2. Message[q] # "none"
      BY <1>5 DEF Posts, Message
    <3>3. Chat!ReachKeeps({q})
      BY <3>1 DEF Chat!ReachKeeps
    <3>4. Chat!Deliver(q)
      BY <1>2, <2>1, <3>1, <3>2, <3>3 DEF Chat!Deliver
    <3> QED BY <3>4 DEF Chat!Next
  <2>3. CASE ~Open(q)
    <3>1. UNCHANGED <<Delivered, posted>>
      BY <1>1, <1>5, <2>3 DEF Posts, Delivered, Open, TypeOK, Awaits
    <3> QED BY <1>2, <2>1, <3>1 DEF Chat!vars
  <2> QED BY <2>2, <2>3
<1>6. CASE PostFails(q)
  <2>1. UNCHANGED <<winner, posted, Asked, Left, Message>>
    BY <1>6, SameMessage DEF PostFails, Asked, Left, Open
  <2>2. UNCHANGED Delivered
    BY <1>1, <1>6 DEF PostFails, Delivered, Open, TypeOK
  <2> QED BY <1>2, <2>1, <2>2 DEF Chat!vars
<1>7. ASSUME NEW ok \in BOOLEAN, FanoutDone(q, ok) PROVE [Chat!Next]_Chat!vars
  <2>1. UNCHANGED <<winner, posted, Message>>
    BY <1>7, SameMessage DEF FanoutDone
  <2>2. CASE ok \/ phase[q] = "notifying"
    <3>1. UNCHANGED <<Asked, Delivered, Left>>
      BY <1>1, <1>7, <2>2 DEF FanoutDone, Asking, Notice, Asked, Delivered, Left, Open, TypeOK
    <3> QED BY <1>2, <2>1, <3>1 DEF Chat!vars
  <2>3. CASE ~ok /\ phase[q] = "posting"
    <3>1. /\ Asked' = Asked \ {q} /\ Delivered' = Delivered \ {q} /\ Left' = Left \ {q}
          /\ q \in Asked \ posted /\ q \notin Delivered
      BY <1>1, <1>7, <2>3
         DEF FanoutDone, Asking, Asked, Delivered, Left, Open, TypeOK, QuestionInv
    <3>2. Chat!Close(q)
      BY <1>2, <2>1, <3>1 DEF Chat!Close
    <3> QED BY <3>2 DEF Chat!Next
  <2> QED BY <1>7, <2>2, <2>3 DEF FanoutDone, Asking
<1>8. ASSUME NEW ok \in BOOLEAN, EditMessage(q, ok) PROVE [Chat!Next]_Chat!vars
  <2>1. phase[q] = "settling" /\ settle[q] = "forgotten" /\ post[q] = "posted"
    BY <1>1, <1>8 DEF EditMessage, QuestionInv
  <2>2. winner[q] # Nobody /\ winner[q] # "none" /\ content[q] # "none"
    BY <1>1, <2>1 DEF QuestionInv, TypeOK
  <2>3. UNCHANGED <<winner, posted, Asked, Delivered>>
    BY <1>8 DEF EditMessage, Asked, Delivered, Open
  <2>4. CASE ok
    <3>1. UNCHANGED Left
      BY <1>1, <1>8, <2>1, <2>4 DEF EditMessage, Left, Open, TypeOK
    <3>2. CASE q \in controls
      <4>1. Message' = [Message EXCEPT ![q] = "dead"] /\ Message[q] = "live"
        BY <1>1, <1>8, <2>2, <2>4, <3>2 DEF EditMessage, Message, TypeOK
      <4>2. Chat!TakeDown(q)
        BY <1>2, <2>2, <2>3, <3>1, <4>1 DEF Chat!TakeDown, Chat!Decided
      <4> QED BY <4>2 DEF Chat!Next
    <3>3. CASE q \notin controls
      <4>1. Message' = Message
        BY <1>1, <1>8, <2>2, <2>4, <3>3 DEF EditMessage, Message, TypeOK
      <4> QED BY <1>2, <2>3, <3>1, <4>1 DEF Chat!vars
    <3> QED BY <3>2, <3>3
  <2>5. CASE ~ok
    <3>1. Left' = Left \union {q} /\ q \in Delivered
      BY <1>1, <1>8, <2>1, <2>5 DEF EditMessage, Left, Open, Delivered, TypeOK
    <3>2. Message' = Message
      BY <1>8, <2>5 DEF EditMessage, Message
    <3>3. Chat!Leave(q)
      BY <1>2, <2>2, <2>3, <3>1, <3>2 DEF Chat!Leave, Chat!Decided
    <3> QED BY <3>3 DEF Chat!Next
  <2> QED BY <2>4, <2>5
<1>9. CASE DecidedElsewhere(q)
  <2>1. UNCHANGED <<posted, Asked, Delivered, Left, Message>>
    BY <1>9, SameQuestions DEF DecidedElsewhere
  <2>2. Chat!Decide(q, "other")
    BY <1>2, <1>9, <2>1 DEF DecidedElsewhere, Chat!Decide, Chat!Decided, Asked
  <2> QED BY <2>2 DEF Chat!Next
<1>10. CASE WaitReturns(q)
  <2>1. UNCHANGED <<posted, Asked, Delivered, Left, Message>>
    <3>1. UNCHANGED <<Asked, Delivered>>
      BY <1>1, <1>10 DEF WaitReturns, Asked, Delivered, Open, TypeOK
    <3>2. UNCHANGED Left
      BY <1>1, <1>10 DEF WaitReturns, Left, Open, TypeOK, QuestionInv
    <3> QED BY <1>10, <3>1, <3>2, SameMessage DEF WaitReturns
  <2>2. CASE winner[q] = Nobody
    <3>1. Chat!Decide(q, "wait")
      BY <1>2, <1>10, <2>1, <2>2 DEF WaitReturns, Chat!Decide, Chat!Decided, Asked, Open
    <3> QED BY <3>1 DEF Chat!Next
  <2>3. CASE winner[q] # Nobody
    BY <1>2, <1>10, <2>1, <2>3 DEF WaitReturns, Chat!vars
  <2> QED BY <2>2, <2>3
<1>11. CASE Forget(q)
  <2>1. UNCHANGED <<winner, Asked, Delivered, Message>>
    BY <1>11, SameMessage DEF Forget, Asked, Delivered, Open
  <2>2. UNCHANGED Left
    BY <1>1, <1>11 DEF Forget, Left, Open, TypeOK
  <2>3. Chat!ReachKeeps({})
    BY <1>1, <1>11 DEF Forget, Chat!ReachKeeps, Chat!Decided, QuestionInv
  <2>4. Chat!Forget
    BY <1>2, <2>1, <2>2, <2>3 DEF Chat!Forget
  <2> QED BY <2>4 DEF Chat!Next
<1>12. CASE Retire(q)
  <2>1. UNCHANGED <<winner, posted, Message>>
    BY <1>12, SameMessage DEF Retire
  <2>2. /\ Asked' = Asked \ {q} /\ Delivered' = Delivered \ {q} /\ Left' = Left \ {q}
        /\ q \in Asked \ posted
    BY <1>1, <1>12 DEF Retire, Asked, Delivered, Left, Open, TypeOK, QuestionInv
  <2>3. q \in Delivered => winner[q] # Nobody /\ (Message[q] = "dead" \/ q \in Left)
    BY <1>1, <1>12 DEF Retire, Delivered, Left, Open, Message, QuestionInv
  <2>4. Chat!Close(q)
    BY <1>2, <2>1, <2>2, <2>3 DEF Chat!Close, Chat!Decided
  <2> QED BY <2>4 DEF Chat!Next
<1> QED BY <1>3, <1>4, <1>5, <1>6, <1>7, <1>8, <1>9, <1>10, <1>11, <1>12 DEF SubmitStep

(* An attempt that is matched to no question before and after a step. *)
LEMMA UnboundIsChat ==
  ASSUME TypeOK, TypeOK', NEW u \in Updates, \A v \in Updates \ {u} : update'[v] = update[v],
         update[u].at \notin {"found", "shown"}, update'[u].at \notin {"found", "shown"},
         UNCHANGED <<phase, winner, post, content, controls, posted, settle>>
  PROVE  UNCHANGED Chat!vars
<1>1. Bound' = [Bound EXCEPT ![u] = Nobody]
  BY BoundMoves
<1>2. Bound[u] = Nobody /\ Bound \in [Updates -> Questions \union {Nobody}]
  BY DEF Bound, TypeOK, Attempts
<1>3. Bound' = Bound
  BY <1>1, <1>2
<1> QED BY <1>3, SameQuestions DEF Chat!vars

LEMMA HumansAreChat ==
  ASSUME IInv, IInv', NEW u \in Updates,
         \/ \E q \in Questions, how \in {"choice", "write"} : Click(u, q, how)
         \/ SubmitModal(u)
         \/ \E target \in Questions \union {Nobody} : Type(u, target)
  PROVE  UNCHANGED Chat!vars
<1>1. /\ update[u].at \in {"unsent", "modal"} /\ update'[u].at \in {"sent", "submitted"}
      /\ \A v \in Updates \ {u} : update'[v] = update[v]
      /\ UNCHANGED <<phase, winner, post, content, controls, posted, settle>>
  <2>1. update[u] \in Attempts /\ update' \in [Updates -> Attempts]
    BY DEF IInv, TypeOK
  <2>2. ASSUME NEW q \in Questions, NEW how \in {"choice", "write"}, Click(u, q, how)
        PROVE  update'[u].at = "sent"
    BY <2>1, <2>2 DEF Click, Attempts, IInv, TypeOK
  <2>3. SubmitModal(u) => update'[u].at = "submitted"
    BY <2>1 DEF SubmitModal, Attempts, IInv, TypeOK
  <2>4. ASSUME NEW target \in Questions \union {Nobody}, Type(u, target)
        PROVE  update'[u].at = "sent"
    BY <2>1, <2>4 DEF Type, Attempts, IInv, TypeOK
  <2>5. \E x : update' = [update EXCEPT ![u] = x]
    BY DEF Click, SubmitModal, Type
  <2>6. \A v \in Updates \ {u} : update'[v] = update[v]
    BY <2>5 DEF IInv, TypeOK
  <2> QED BY <2>2, <2>3, <2>4, <2>6 DEF Click, SubmitModal, Type, brokerVars, chatVars
<1> QED BY <1>1, UnboundIsChat DEF IInv

(* A handler that has found its question. *)
LEMMA FoundIsMatch ==
  ASSUME IInv, IInv', NEW u \in Updates, NEW q \in Questions, Open(q), Found(u, q),
         update[u].at \notin {"found", "shown"},
         UNCHANGED <<phase, winner, post, content, controls, posted, settle>>
  PROVE  Chat!Next
<1>1. TypeOK /\ TypeOK'
  BY DEF IInv
<1>2. /\ update'[u].at = "found" /\ update'[u].bound = q
      /\ \A v \in Updates \ {u} : update'[v] = update[v]
  BY <1>1 DEF Found, TypeOK, Attempts
<1>3. Bound' = [Bound EXCEPT ![u] = q] /\ Bound[u] = Nobody
  <2>1. Bound' = [Bound EXCEPT ![u] = q]
    BY <1>1, <1>2, BoundMoves
  <2> QED BY <2>1 DEF Bound
<1>4. Chat!ReachKeeps({})
  BY DEF Chat!ReachKeeps
<1>5. q \in Asked
  BY DEF Asked
<1>6. Chat!Match(u, q)
  BY <1>3, <1>4, <1>5, SameQuestions DEF Chat!Match
<1> QED BY <1>6 DEF Chat!Next

LEMMA HandlersAreChat ==
  ASSUME IInv, IInv', NEW u \in Updates, Handle(u)
  PROVE  [Chat!Next]_Chat!vars
<1> DEFINE a == update[u]
<1> USE DEF brokerVars, chatVars
<1>1. /\ TypeOK /\ TypeOK' /\ UpdateInv(u) /\ a \in Attempts
      /\ \A q \in posted : q \in Questions /\ Open(q)
  BY DEF IInv, TypeOK, QuestionInv
<1>2. ASSUME a.at \in {"sent", "submitted"},
             \/ \E told \in {"denied", "gone", "empty", "ignored", "ambiguous"} : Tell(u, told)
             \/ \E at \in {"modal", "over"} : update' = [update EXCEPT ![u] = [@ EXCEPT !.at = at]],
             UNCHANGED <<phase, winner, post, content, controls, posted, settle>>
      PROVE  [Chat!Next]_Chat!vars
  <2>1. /\ update'[u].at \in {"modal", "over"}
        /\ \A v \in Updates \ {u} : update'[v] = update[v]
    <3>1. ASSUME NEW told \in {"denied", "gone", "empty", "ignored", "ambiguous"}, Tell(u, told)
          PROVE  update'[u].at = "over" /\ \A v \in Updates \ {u} : update'[v] = update[v]
      BY <1>1, <3>1 DEF Tell, TypeOK, Attempts
    <3>2. ASSUME NEW at \in {"modal", "over"}, update' = [update EXCEPT ![u] = [@ EXCEPT !.at = at]]
          PROVE  update'[u].at = at /\ \A v \in Updates \ {u} : update'[v] = update[v]
      BY <1>1, <3>2 DEF TypeOK, Attempts
    <3> QED BY <1>2, <3>1, <3>2
  <2> QED BY <1>1, <1>2, <2>1, UnboundIsChat
<1>3. ASSUME NEW allowed \in BOOLEAN, HandleChoice(u, allowed) PROVE [Chat!Next]_Chat!vars
  <2>1. CASE Refuse(u, allowed) \/ Gone(u, allowed)
    BY <1>2, <1>3, <2>1 DEF HandleChoice, Refuse, Gone
  <2>2. CASE Open(a.target) /\ Found(u, a.target)
    <3>1. a.target \in Questions
      BY <1>1, <1>3 DEF HandleChoice, UpdateInv, Fits, Attempts
    <3> QED BY <1>3, <2>2, <3>1, FoundIsMatch DEF HandleChoice
  <2> QED BY <1>3, <2>1, <2>2 DEF HandleChoice
<1>4. ASSUME NEW allowed \in BOOLEAN, HandleMessage(u, allowed) PROVE [Chat!Next]_Chat!vars
  <2>1. ASSUME NEW told \in {"ignored", "ambiguous", "denied"}, Tell(u, told)
        PROVE  [Chat!Next]_Chat!vars
    BY <1>2, <1>4, <2>1 DEF HandleMessage
  <2>2. ASSUME NEW q \in Correlate(a.target), Found(u, q) PROVE [Chat!Next]_Chat!vars
    <3>1. q \in Questions /\ Open(q)
      BY <1>1, <2>2 DEF Correlate
    <3> QED BY <1>4, <2>2, <3>1, FoundIsMatch DEF HandleMessage
  <2> QED BY <1>4, <2>1, <2>2 DEF HandleMessage
<1>5. ASSUME NEW allowed \in BOOLEAN, NEW ok \in BOOLEAN, OpenModal(u, allowed, ok)
      PROVE  [Chat!Next]_Chat!vars
  BY <1>2, <1>5 DEF OpenModal, Refuse, Gone
<1>6. ASSUME NEW allowed \in BOOLEAN, NEW blank \in BOOLEAN, HandleModal(u, allowed, blank)
      PROVE  [Chat!Next]_Chat!vars
  <2>1. CASE Refuse(u, allowed) \/ Gone(u, allowed) \/ Tell(u, "empty")
    BY <1>2, <1>6, <2>1 DEF HandleModal, Refuse, Gone
  <2>2. CASE Open(a.target) /\ Found(u, a.target)
    <3>1. a.target \in Questions
      BY <1>1, <1>6 DEF HandleModal, UpdateInv, Fits, Attempts
    <3> QED BY <1>6, <2>2, <3>1, FoundIsMatch DEF HandleModal
  <2> QED BY <1>6, <2>1, <2>2 DEF HandleModal
<1>7. ASSUME NEW ok \in BOOLEAN, NEW inPlace \in BOOLEAN, Rewrite(u, ok, inPlace)
      PROVE  [Chat!Next]_Chat!vars
  <2> DEFINE q == a.bound
  <2>1. a.at = "found" /\ q \in Questions /\ content[q] # "none" /\ u # "none"
    BY <1>1, <1>7 DEF Rewrite, UpdateInv, Fits, Attempts
  <2>2. /\ update'[u].at = "shown" /\ update'[u].bound = q
        /\ \A v \in Updates \ {u} : update'[v] = update[v]
    BY <1>1, <1>7 DEF Rewrite, TypeOK, Attempts
  <2>3. Bound' = Bound /\ Bound[u] = q
    <3>1. Bound' = [Bound EXCEPT ![u] = q]
      BY <1>1, <2>2, BoundMoves
    <3>2. Bound[u] = q
      BY <2>1 DEF Bound
    <3>3. Bound \in [Updates -> Questions \union {Nobody}]
      BY <1>1 DEF Bound, TypeOK, Attempts
    <3> QED BY <3>1, <3>2, <3>3
  <2>4. UNCHANGED <<winner, posted, Asked, Delivered, Left>>
    BY <1>7 DEF Rewrite, Asked, Delivered, Left, Open
  <2>5. CASE ok /\ inPlace /\ q \in controls
    <3>1. Message' = [Message EXCEPT ![q] = "dead"] /\ Message[q] = "live"
      BY <1>1, <1>7, <2>1, <2>5 DEF Rewrite, Message, TypeOK
    <3>2. Chat!TakeDown(q)
      BY <2>3, <2>4, <3>1 DEF Chat!TakeDown
    <3> QED BY <2>1, <3>2 DEF Chat!Next
  <2>6. CASE ~(ok /\ inPlace /\ q \in controls)
    <3>1. Message' = Message
      BY <1>1, <1>7, <2>1, <2>6 DEF Rewrite, Message, TypeOK
    <3> QED BY <2>3, <2>4, <3>1 DEF Chat!vars
  <2> QED BY <2>5, <2>6
<1>8. CASE Resolve(u)
  <2> DEFINE q == a.bound
  <2>1. a.at \in {"found", "shown"} /\ q \in Questions
    BY <1>1, <1>8 DEF Resolve, UpdateInv, Fits, Attempts
  <2>2. Bound[u] = q /\ q # Nobody
    BY <2>1 DEF Bound
  <2>3. Bound' = [Bound EXCEPT ![u] = Nobody]
    <3>1. update'[u].at = "over" /\ \A v \in Updates \ {u} : update'[v] = update[v]
      BY <1>1, <1>8 DEF Resolve, TypeOK, Attempts
    <3> QED BY <1>1, <3>1, BoundMoves
  <2>4. UNCHANGED <<posted, Asked, Delivered, Left, Message>>
    BY <1>8, SameQuestions DEF Resolve
  <2>5. (q \in Asked) <=> Open(q)
    BY <2>1 DEF Asked
  <2>6. Chat!Answer(u)
    BY <1>8, <2>2, <2>3, <2>4, <2>5 DEF Resolve, Chat!Answer, Chat!Decided
  <2> QED BY <2>6 DEF Chat!Next
<1> QED BY <1>3, <1>4, <1>5, <1>6, <1>7, <1>8 DEF Handle

LEMMA StepIsChat == IInv /\ IInv' /\ [Next]_vars => [Chat!Next]_Chat!vars
<1>1. IInv /\ IInv' /\ UNCHANGED vars => [Chat!Next]_Chat!vars
  BY SameQuestions, SameBound DEF vars, Chat!vars
<1> QED BY <1>1, LifeIsChat, SubmitIsChat, HumansAreChat, HandlersAreChat DEF Next

(* Discord is a messenger: a question is shown with controls only while it *)
(* is asked, a typed answer can find it until it is decided, and nothing   *)
(* of it is left that Settle has not reported (discord.go: Post, Settle).  *)
THEOREM Implementation == Spec => ImplementsMessenger
BY InitChat, StepIsChat, AlwaysIInv, PTL DEF Spec, Chat!Spec, ImplementsMessenger
=============================================================================
