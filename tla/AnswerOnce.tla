----------------------------- MODULE AnswerOnce -----------------------------
(***************************************************************************)
(* What the broker promises an agent and the humans that answer it, with   *)
(* no threads, locks, messengers or memory of finished questions:          *)
(*   - a question is decided at most once, by a human, by its deadline or  *)
(*     by its asker going away;                                            *)
(*   - a human is told "accepted" exactly when that human decided it, and  *)
(*     "already answered" only when somebody else did;                     *)
(*   - what the asker gets back is that decision, or an error because no   *)
(*     messenger delivered the question.                                   *)
(* Broker.tla implements it.                                               *)
(***************************************************************************)
CONSTANTS
  Requests,   \* the questions
  Humans      \* the attempts to answer or to cancel one, each made once

VARIABLES
  asked,      \* the questions the broker has taken on
  decision,   \* the decision on each question, or NoDecision
  outcome,    \* what the asker of each question has got back
  told        \* what the author of each attempt was told

vars == <<asked, decision, outcome, told>>

Status     == {"answered", "timeout", "canceled"}
NoDecision == [status |-> "none", by |-> "nobody"]
Failed     == [status |-> "failed", by |-> "nobody"]
(* A decision is made by a human or by the wait itself ("wait"). *)
Decisions  == [status : Status, by : Humans \union {"wait"}]
Verdicts   == {"nothing", "accepted", "already", "unknown", "invalid"}

Init ==
  /\ asked = {}
  /\ decision = [q \in Requests |-> NoDecision]
  /\ outcome = [q \in Requests |-> NoDecision]
  /\ told = [h \in Humans |-> "nothing"]

Ask(q) ==
  /\ q \notin asked
  /\ asked' = asked \union {q}
  /\ UNCHANGED <<decision, outcome, told>>

(* The wait decides: its deadline passed, or its asker is gone.  It may    *)
(* hand that decision over in the same step or later.                      *)
DecideByWait(q, status) ==
  /\ q \in asked
  /\ outcome[q] = NoDecision
  /\ decision[q] = NoDecision
  /\ decision' = [decision EXCEPT ![q] = [status |-> status, by |-> "wait"]]
  /\ UNCHANGED <<asked, outcome, told>>

(* A human decides.  Nothing asks for the question to be still open: a     *)
(* human can be told "accepted" for a question that failed meanwhile.      *)
DecideByHuman(q, h, status) ==
  /\ q \in asked
  /\ decision[q] = NoDecision
  /\ told[h] = "nothing"
  /\ decision' = [decision EXCEPT ![q] = [status |-> status, by |-> h]]
  /\ told' = [told EXCEPT ![h] = "accepted"]
  /\ UNCHANGED <<asked, outcome>>

(* A human comes too late, or writes nothing. *)
Refuse(q, h, verdict) ==
  /\ q \in asked
  /\ told[h] = "nothing"
  /\ verdict \in {"already", "unknown", "invalid"}
  /\ verdict = "already" => decision[q] # NoDecision
  /\ verdict = "unknown" => outcome[q] # NoDecision
  /\ told' = [told EXCEPT ![h] = verdict]
  /\ UNCHANGED <<asked, decision, outcome>>

Return(q) ==
  /\ outcome[q] = NoDecision
  /\ decision[q] # NoDecision
  /\ outcome' = [outcome EXCEPT ![q] = decision[q]]
  /\ UNCHANGED <<asked, decision, told>>

(* No messenger delivered the question. *)
Fail(q) ==
  /\ q \in asked
  /\ outcome[q] = NoDecision
  /\ outcome' = [outcome EXCEPT ![q] = Failed]
  /\ UNCHANGED <<asked, decision, told>>

Next ==
  \E q \in Requests :
    \/ Ask(q) \/ Return(q) \/ Fail(q)
    \/ \E status \in {"timeout", "canceled"} : DecideByWait(q, status)
    \/ \E h \in Humans :
         \/ \E status \in {"answered", "canceled"} : DecideByHuman(q, h, status)
         \/ \E verdict \in Verdicts : Refuse(q, h, verdict)

Spec == Init /\ [][Next]_vars
=============================================================================
