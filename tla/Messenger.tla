----------------------------- MODULE Messenger ------------------------------
(***************************************************************************)
(* What the broker and the humans may expect of a messenger, whichever it  *)
(* is: the contract of hitl.Poster and of the answers that come back       *)
(* through hitl.Resolver (internal/hitl/broker.go), without API calls,     *)
(* timers, handlers or the maps a transport keeps.                         *)
(*                                                                         *)
(* A question is shown with its controls only while it is asked, and only  *)
(* where somebody can answer it.  Once Post has returned, a typed answer   *)
(* can reach it until it is decided.  Its controls go when it is decided,  *)
(* or somebody is about to, and are gone, or reported as left, when Settle *)
(* has returned.  Its first answer counts, and only from somebody whose    *)
(* answer was matched to it while it was asked.  A messenger may give up a *)
(* question that is slow to reach all the messengers: a typed answer does  *)
(* not find it any more, and its controls may be left without a report.    *)
(***************************************************************************)
CONSTANTS
  Questions,   \* the questions
  Humans,      \* the attempts of humans to answer one
  Elsewhere,   \* what else decides: the wait, and the other messengers
  Nobody       \* no question, or nobody

VARIABLES
  answerable,  \* the questions that somebody in this chat can answer
  asked,       \* the questions that the broker has pending
  decider,     \* who decided each question
  message,     \* the message of each: none, live (with its controls) or dead
  delivered,   \* the pending questions that Post has delivered
  reach,       \* those that a typed answer can be matched to
  left,        \* those whose Settle reported an error
  slow,        \* those that took too long to be delivered everywhere
  bound        \* the question that each attempt is matched to

vars == <<answerable, asked, decider, message, delivered, reach, left, slow, bound>>

Init ==
  /\ answerable \subseteq Questions
  /\ asked = {} /\ delivered = {} /\ reach = {} /\ left = {} /\ slow = {}
  /\ decider = [q \in Questions |-> Nobody]
  /\ message = [q \in Questions |-> "none"]
  /\ bound = [h \in Humans |-> Nobody]

Decided(q) == decider[q] # Nobody

(* Questions that are decided, or slow, may be forgotten at any time. *)
ReachKeeps(more) ==
  /\ reach' \subseteq reach \union more
  /\ more \subseteq reach'
  /\ \A q \in reach \ reach' : Decided(q) \/ q \in slow

Ask(q) ==
  /\ q \notin asked
  /\ ~Decided(q) /\ message[q] = "none"
  /\ asked' = asked \union {q}
  /\ UNCHANGED <<answerable, decider, message, delivered, reach, left, slow, bound>>

Show(q) ==
  /\ q \in asked \intersect answerable
  /\ message[q] = "none"
  /\ message' = [message EXCEPT ![q] = "live"]
  /\ UNCHANGED <<answerable, asked, decider, delivered, reach, left, slow, bound>>

(* A notice has no controls, and nothing is matched to it. *)
Tell(q) ==
  /\ q \notin asked
  /\ message[q] = "none"
  /\ message' = [message EXCEPT ![q] = "dead"]
  /\ UNCHANGED <<answerable, asked, decider, delivered, reach, left, slow, bound>>

Deliver(q) ==
  /\ q \in asked \ delivered
  /\ message[q] # "none"
  /\ delivered' = delivered \union {q}
  /\ ReachKeeps({q})
  /\ UNCHANGED <<answerable, asked, decider, message, left, slow, bound>>

Match(h, q) ==
  /\ q \in asked
  /\ bound[h] = Nobody
  /\ bound' = [bound EXCEPT ![h] = q]
  /\ ReachKeeps({})
  /\ UNCHANGED <<answerable, asked, decider, message, delivered, left, slow>>

(* The first answer wins. *)
Answer(h) ==
  LET q == bound[h] IN
  /\ q # Nobody
  /\ bound' = [bound EXCEPT ![h] = Nobody]
  /\ decider' = IF q \in asked /\ ~Decided(q) THEN [decider EXCEPT ![q] = h] ELSE decider
  /\ UNCHANGED <<answerable, asked, message, delivered, reach, left, slow>>

Decide(q, other) ==
  /\ q \in asked
  /\ ~Decided(q)
  /\ decider' = [decider EXCEPT ![q] = other]
  /\ UNCHANGED <<answerable, asked, message, delivered, reach, left, slow, bound>>

Forget ==
  /\ ReachKeeps({})
  /\ UNCHANGED <<answerable, asked, decider, message, delivered, left, slow, bound>>

TakeDown(q) ==
  /\ message[q] = "live"
  /\ Decided(q) \/ \E h \in Humans : bound[h] = q
  /\ message' = [message EXCEPT ![q] = "dead"]
  /\ UNCHANGED <<answerable, asked, decider, delivered, reach, left, slow, bound>>

(* Settle reports that it could not take the message down. *)
Leave(q) ==
  /\ q \in delivered
  /\ Decided(q)
  /\ left' = left \union {q}
  /\ UNCHANGED <<answerable, asked, decider, message, delivered, reach, slow, bound>>

(* The broker is done with a question: it was settled, or never delivered. *)
Close(q) ==
  /\ q \in asked \ reach
  /\ q \in delivered => Decided(q) /\ (message[q] = "dead" \/ q \in left \union slow)
  /\ asked' = asked \ {q}
  /\ delivered' = delivered \ {q}
  /\ left' = left \ {q}
  /\ slow' = slow \ {q}
  /\ UNCHANGED <<answerable, decider, message, reach, bound>>

(* Delivering some of the questions takes too long. *)
Delay ==
  /\ slow \subseteq slow' /\ slow' \subseteq asked
  /\ UNCHANGED <<answerable, asked, decider, message, delivered, reach, left, bound>>

(* The daemon dies: everything is forgotten but the messages in the chat.  *)
Lose ==
  /\ asked' = {} /\ delivered' = {} /\ reach' = {} /\ left' = {} /\ slow' = {}
  /\ bound' = [h \in Humans |-> Nobody]
  /\ UNCHANGED <<answerable, decider, message>>

Next ==
  \/ Forget \/ Delay \/ Lose
  \/ \E q \in Questions :
       \/ Ask(q) \/ Show(q) \/ Tell(q) \/ Deliver(q) \/ TakeDown(q) \/ Leave(q) \/ Close(q)
       \/ \E other \in Elsewhere : Decide(q, other)
       \/ \E h \in Humans : Match(h, q)
  \/ \E h \in Humans : Answer(h)

Spec == Init /\ [][Next]_vars
=============================================================================
