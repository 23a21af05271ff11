------------------------------ MODULE Discord -------------------------------
(***************************************************************************)
(* The Discord transport, internal/transport/discord: one gateway          *)
(* connection, the questions it has posted in its channel, and the         *)
(* handlers that turn a click, a modal or a typed message into an answer.  *)
(*                                                                         *)
(* The broker is seen through hitl.Poster and hitl.Resolver (Broker.tla    *)
(* has the whole of it): a question can be looked up from Submit to        *)
(* retire, and its first answer wins.  discordgo runs each handler in a    *)
(* goroutine of its own; a step is a call of the API or of the resolver,   *)
(* or the code between two of them.                                        *)
(***************************************************************************)
EXTENDS Naturals, FiniteSets

CONSTANTS
  Questions,   \* the questions posted in the channel
  Buttons,     \* those of them that have choices
  Presses,     \* the clicks of the humans in the channel
  Messages,    \* the messages they type
  Nobody       \* no question and no person

Updates == Presses \union Messages

ASSUME DiscordAssumption ==
  /\ Buttons \subseteq Questions
  /\ Presses \intersect Messages = {}
  /\ {Nobody, "none", "question", "wait", "other"} \intersect Updates = {}
  /\ Nobody \notin Questions \union {"none", "wait", "other"}

VARIABLES
  gateway,   \* the gateway connection, as Start and Close leave it
  free,      \* the questions that accept a typed answer, as they are asked
  phase,     \* the Submit or Notify of each question
  winner,    \* who decided the question
  post,      \* Post of each question
  content,   \* what its message says: the question, or an outcome
  controls,  \* the questions whose message has controls
  posted,    \* Transport.posted
  settle,    \* Settle of each question
  update     \* each click or message: where it is, the control that was
             \* clicked, the question it was aimed at, the one it is bound
             \* to, and what its author was told

brokerVars == <<free, phase, winner>>
chatVars   == <<content, controls>>
vars == <<gateway, free, phase, winner, post, content, controls, posted, settle, update>>

NoUpdate == [at |-> "unsent", how |-> "typed", target |-> Nobody, bound |-> Nobody,
             told |-> "nothing"]

Init ==
  /\ gateway = "off"
  /\ free \in {f \in SUBSET Questions : Questions = Buttons \union f}
  /\ phase = [q \in Questions |-> "new"]
  /\ winner = [q \in Questions |-> Nobody]
  /\ post = [q \in Questions |-> "idle"]
  /\ content = [q \in Questions |-> "none"]
  /\ controls = {}
  /\ posted = {}
  /\ settle = [q \in Questions |-> "idle"]
  /\ update = [u \in Updates |-> NoUpdate]

-----------------------------------------------------------------------------
(* The gateway.                                                            *)

Open(q)   == phase[q] \in {"posting", "waiting", "settling"}
Notice(q) == phase[q] \in {"notifying", "notified"}

(* session.Open *)
Connect ==
  /\ gateway = "off"
  /\ gateway' = "opening"
  /\ UNCHANGED <<post, posted, settle, update>>
  /\ UNCHANGED brokerVars
  /\ UNCHANGED chatVars

(* READY, or a rejected IDENTIFY, a canceled Start or 30 seconds without.  *)
Ready(ok) ==
  /\ gateway = "opening"
  /\ gateway' = IF ok THEN "identified" ELSE "closed"
  /\ UNCHANGED <<post, posted, settle, update>>
  /\ UNCHANGED brokerVars
  /\ UNCHANGED chatVars

(* Start resolves the destination, after which the daemon registers it. *)
Channel(ok) ==
  /\ gateway = "identified"
  /\ gateway' = IF ok THEN "up" ELSE "closed"
  /\ UNCHANGED <<post, posted, settle, update>>
  /\ UNCHANGED brokerVars
  /\ UNCHANGED chatVars

(* The daemon closes its transports when no ask is left. *)
Close ==
  /\ gateway = "up"
  /\ \A q \in Questions : ~Open(q) /\ phase[q] # "notifying"
  /\ gateway' = "closed"
  /\ UNCHANGED <<post, posted, settle, update>>
  /\ UNCHANGED brokerVars
  /\ UNCHANGED chatVars

(* The daemon dies and another one starts.  Nothing is persisted: what it  *)
(* was asked and the handlers that ran are lost, the messages stay.        *)
Crash ==
  LET lost == {q \in Questions : Open(q) \/ phase[q] = "notifying"} IN
  /\ gateway = "up"
  /\ lost # {}
  /\ gateway' = "off"
  /\ phase' = [q \in Questions |-> IF q \in lost THEN "lost" ELSE phase[q]]
  /\ post' = [q \in Questions |-> IF q \in lost THEN "idle" ELSE post[q]]
  /\ settle' = [q \in Questions |-> IF q \in lost THEN "idle" ELSE settle[q]]
  /\ posted' = {}
  /\ update' = [u \in Updates |->
                  IF update[u].at \in {"unsent", "modal"} THEN update[u]
                  ELSE [update[u] EXCEPT !.at = "over"]]
  /\ UNCHANGED <<free, winner>>
  /\ UNCHANGED chatVars

-----------------------------------------------------------------------------
(* Submit and Notify as far as Discord is concerned.                       *)

Ask(q, kind) ==
  /\ gateway = "up"
  /\ phase[q] = "new"
  /\ kind \in {"posting", "notifying"}
  /\ phase' = [phase EXCEPT ![q] = kind]
  /\ post' = [post EXCEPT ![q] = "sending"]
  /\ UNCHANGED <<gateway, free, winner, posted, settle, update>>
  /\ UNCHANGED chatVars

Asking(q) == phase[q] \in {"posting", "notifying"}

(* A Post that takes every request for a question. *)
AwaitsAlways(q) == TRUE

(* Lookup: only a question is registered with the broker. *)
Awaits(q) == Open(q)

SendMessage(q) ==
  /\ Asking(q)
  /\ post[q] = "sending"
  /\ content[q] = "none"
  /\ content' = [content EXCEPT ![q] = "question"]
  /\ controls' = IF Awaits(q) THEN controls \union {q} ELSE controls
  /\ UNCHANGED <<gateway, post, posted, settle, update>>
  /\ UNCHANGED brokerVars

(* Post returns with the question in the channel and remembered. *)
Posts(q) ==
  /\ Asking(q)
  /\ post[q] = "sending"
  /\ content[q] # "none"
  /\ post' = [post EXCEPT ![q] = "posted"]
  /\ posted' = IF Awaits(q) THEN posted \union {q} ELSE posted
  /\ UNCHANGED <<gateway, settle, update>>
  /\ UNCHANGED brokerVars
  /\ UNCHANGED chatVars

(* An attachment or a layout Discord would refuse, a send that fails, or   *)
(* one whose reply is lost.                                                *)
PostFails(q) ==
  /\ Asking(q)
  /\ post[q] = "sending"
  /\ post' = [post EXCEPT ![q] = "failed"]
  /\ UNCHANGED <<gateway, posted, settle, update>>
  /\ UNCHANGED brokerVars
  /\ UNCHANGED chatVars

(* Every messenger has returned from Post.  When this one failed, another  *)
(* one may have shown the question.                                        *)
FanoutDone(q, ok) ==
  /\ Asking(q)
  /\ post[q] # "sending"
  /\ ok \/ post[q] = "failed"
  /\ phase' = [phase EXCEPT ![q] =
                 IF ~ok THEN "failed" ELSE IF Notice(q) THEN "notified" ELSE "waiting"]
  /\ UNCHANGED <<gateway, free, winner, post, posted, settle, update>>
  /\ UNCHANGED chatVars

(* The command line, the other messenger or the caller's hang-up decides.  *)
DecidedElsewhere(q) ==
  /\ Open(q)
  /\ winner[q] = Nobody
  /\ winner' = [winner EXCEPT ![q] = "other"]
  /\ UNCHANGED <<gateway, free, phase, post, posted, settle, update>>
  /\ UNCHANGED chatVars

(* wait returns: there is an answer, or the timer fires. *)
WaitReturns(q) ==
  /\ phase[q] = "waiting"
  /\ phase' = [phase EXCEPT ![q] = "settling"]
  /\ winner' = IF winner[q] = Nobody THEN [winner EXCEPT ![q] = "wait"] ELSE winner
  /\ settle' = [settle EXCEPT ![q] = IF post[q] = "posted" THEN "called" ELSE "idle"]
  /\ UNCHANGED <<gateway, free, post, posted, update>>
  /\ UNCHANGED chatVars

(* Settle drops the record first; a question without one is settled.       *)
Forget(q) ==
  /\ settle[q] = "called"
  /\ settle' = [settle EXCEPT ![q] = IF q \in posted THEN "forgotten" ELSE "ok"]
  /\ posted' = posted \ {q}
  /\ UNCHANGED <<gateway, post, update>>
  /\ UNCHANGED brokerVars
  /\ UNCHANGED chatVars

(* Components that are nil instead of empty: the edit leaves the controls. *)
EditTextOnly(q, ok) ==
  /\ settle[q] = "forgotten"
  /\ settle' = [settle EXCEPT ![q] = IF ok THEN "ok" ELSE "error"]
  /\ content' = IF ok THEN [content EXCEPT ![q] = winner[q]] ELSE content
  /\ UNCHANGED <<gateway, controls, post, posted, update>>
  /\ UNCHANGED brokerVars

(* One edit writes the outcome and takes the controls down. *)
EditMessage(q, ok) ==
  /\ settle[q] = "forgotten"
  /\ settle' = [settle EXCEPT ![q] = IF ok THEN "ok" ELSE "error"]
  /\ content' = IF ok THEN [content EXCEPT ![q] = winner[q]] ELSE content
  /\ controls' = IF ok THEN controls \ {q} ELSE controls
  /\ UNCHANGED <<gateway, post, posted, update>>
  /\ UNCHANGED brokerVars

(* Every Settle has returned: the broker retires the question. *)
Retire(q) ==
  /\ phase[q] = "settling"
  /\ settle[q] \in {"idle", "ok", "error"}
  /\ phase' = [phase EXCEPT ![q] = "returned"]
  /\ UNCHANGED <<gateway, free, winner, post, posted, settle, update>>
  /\ UNCHANGED chatVars

-----------------------------------------------------------------------------
(* The humans.  What happens while nobody listens is lost.                 *)

Receiving == gateway \in {"identified", "up"}

Click(u, q, how) ==
  /\ Receiving
  /\ update[u].at = "unsent"
  /\ q \in controls
  /\ \/ how = "choice" /\ q \in Buttons
     \/ how = "write" /\ q \in free
  /\ update' = [update EXCEPT ![u] = [@ EXCEPT !.at = "sent", !.how = how, !.target = q]]
  /\ UNCHANGED <<gateway, post, posted, settle>>
  /\ UNCHANGED brokerVars
  /\ UNCHANGED chatVars

(* The modal stays on the human's screen, whatever becomes of the question.*)
SubmitModal(u) ==
  /\ Receiving
  /\ update[u].at = "modal"
  /\ update' = [update EXCEPT ![u] = [@ EXCEPT !.at = "submitted"]]
  /\ UNCHANGED <<gateway, post, posted, settle>>
  /\ UNCHANGED brokerVars
  /\ UNCHANGED chatVars

(* A message of its own (target = Nobody), or a reply to one of the bot's. *)
Type(u, target) ==
  /\ Receiving
  /\ update[u].at = "unsent"
  /\ target # Nobody => content[target] # "none"
  /\ update' = [update EXCEPT ![u] = [@ EXCEPT !.at = "sent", !.target = target]]
  /\ UNCHANGED <<gateway, post, posted, settle>>
  /\ UNCHANGED brokerVars
  /\ UNCHANGED chatVars

-----------------------------------------------------------------------------
(* The handlers.                                                           *)

Tell(u, told) == update' = [update EXCEPT ![u] = [@ EXCEPT !.at = "over", !.told = told]]

Found(u, q) == update' = [update EXCEPT ![u] = [@ EXCEPT !.at = "found", !.bound = q]]

(* A refusal that does not end the handler. *)
RefuseAndGoOn(u, allowed) ==
  /\ ~allowed
  /\ update' = [update EXCEPT ![u] = [@ EXCEPT !.at = "found", !.bound = update[u].target,
                                               !.told = "denied"]]

(* onComponent and onModalSubmit tell a person who is not permitted so. *)
Refuse(u, allowed) == ~allowed /\ Tell(u, "denied")

Gone(u, allowed) == allowed /\ ~Open(update[u].target) /\ Tell(u, "gone")

(* answerChoice up to Lookup. *)
HandleChoice(u, allowed) ==
  /\ Receiving
  /\ update[u].at = "sent" /\ update[u].how = "choice"
  /\ \/ Refuse(u, allowed) \/ Gone(u, allowed)
     \/ allowed /\ Open(update[u].target) /\ Found(u, update[u].target)
  /\ UNCHANGED <<gateway, post, posted, settle>>
  /\ UNCHANGED brokerVars
  /\ UNCHANGED chatVars

(* openModal; an expired interaction opens none. *)
OpenModal(u, allowed, ok) ==
  /\ Receiving
  /\ update[u].at = "sent" /\ update[u].how = "write"
  /\ \/ Refuse(u, allowed) \/ Gone(u, allowed)
     \/ /\ allowed /\ Open(update[u].target)
        /\ update' = [update EXCEPT ![u] = [@ EXCEPT !.at = IF ok THEN "modal" ELSE "over"]]
  /\ UNCHANGED <<gateway, post, posted, settle>>
  /\ UNCHANGED brokerVars
  /\ UNCHANGED chatVars

(* onModalSubmit up to Lookup. *)
HandleModal(u, allowed, blank) ==
  /\ Receiving
  /\ update[u].at = "submitted"
  /\ \/ Refuse(u, allowed)
     \/ allowed /\ blank /\ Tell(u, "empty")
     \/ ~blank /\ Gone(u, allowed)
     \/ allowed /\ ~blank /\ Open(update[u].target) /\ Found(u, update[u].target)
  /\ UNCHANGED <<gateway, post, posted, settle>>
  /\ UNCHANGED brokerVars
  /\ UNCHANGED chatVars

(* updateMessage rewrites the question with this answer before the broker  *)
(* is asked.  A modal that Discord does not tie to a message gets a reply  *)
(* instead, and an expired interaction changes nothing.                    *)
Rewrite(u, ok, inPlace) ==
  LET q == update[u].bound IN
  /\ u \in Presses
  /\ update[u].at = "found"
  /\ update[u].how = "choice" => inPlace
  /\ update' = [update EXCEPT ![u] = [@ EXCEPT !.at = "shown",
                                               !.told = IF ok THEN "recorded"
                                                            ELSE update[u].told]]
  /\ content' = IF ok /\ inPlace THEN [content EXCEPT ![q] = u] ELSE content
  /\ controls' = IF ok /\ inPlace THEN controls \ {q} ELSE controls
  /\ UNCHANGED <<gateway, post, posted, settle>>
  /\ UNCHANGED brokerVars

(* A reply that counts as any other message. *)
CorrelateAny(target) == posted

(* correlate: the questions a message of this channel may answer.  Whether *)
(* a question accepts a typed answer is not remembered.                    *)
Correlate(target) == IF target = Nobody THEN posted ELSE posted \intersect {target}

(* onMessage up to Resolve. *)
HandleMessage(u, allowed) ==
  LET matches == Correlate(update[u].target) IN
  /\ Receiving
  /\ update[u].at = "sent" /\ update[u].how = "typed"
  /\ \/ matches = {} /\ Tell(u, "ignored")
     \/ Cardinality(matches) > 1 /\ Tell(u, IF allowed THEN "ambiguous" ELSE "ignored")
     \/ Cardinality(matches) = 1 /\ ~allowed /\ Tell(u, "denied")
     \/ Cardinality(matches) = 1 /\ allowed /\ \E q \in matches : Found(u, q)
  /\ UNCHANGED <<gateway, post, posted, settle>>
  /\ UNCHANGED brokerVars
  /\ UNCHANGED chatVars

(* The question's id where the responder belongs. *)
ResolveSwapped(u) ==
  LET q == update[u].bound IN
  /\ update[u].at = IF u \in Presses THEN "shown" ELSE "found"
  /\ update' = [update EXCEPT ![u] = [@ EXCEPT !.at = "over"]]
  /\ winner' = IF Open(q) /\ winner[q] = Nobody THEN [winner EXCEPT ![q] = q] ELSE winner
  /\ UNCHANGED <<gateway, free, phase, post, posted, settle>>
  /\ UNCHANGED chatVars

(* Resolve: the first answer wins; the error of a loser is only logged. *)
Resolve(u) ==
  LET q == update[u].bound IN
  /\ update[u].at = IF u \in Presses THEN "shown" ELSE "found"
  /\ update' = [update EXCEPT ![u] = [@ EXCEPT !.at = "over"]]
  /\ winner' = IF Open(q) /\ winner[q] = Nobody THEN [winner EXCEPT ![q] = u] ELSE winner
  /\ UNCHANGED <<gateway, free, phase, post, posted, settle>>
  /\ UNCHANGED chatVars

-----------------------------------------------------------------------------
Life == Connect \/ Close \/ Crash \/ \E ok \in BOOLEAN : Ready(ok) \/ Channel(ok)

SubmitStep(q) ==
  \/ \E kind \in {"posting", "notifying"} : Ask(q, kind)
  \/ SendMessage(q) \/ Posts(q) \/ PostFails(q)
  \/ \E ok \in BOOLEAN : FanoutDone(q, ok) \/ EditMessage(q, ok)
  \/ DecidedElsewhere(q) \/ WaitReturns(q) \/ Forget(q) \/ Retire(q)

Handle(u) ==
  \/ \E allowed \in BOOLEAN :
       \/ HandleChoice(u, allowed) \/ HandleMessage(u, allowed)
       \/ \E b \in BOOLEAN : OpenModal(u, allowed, b) \/ HandleModal(u, allowed, b)
  \/ \E ok, inPlace \in BOOLEAN : Rewrite(u, ok, inPlace)
  \/ Resolve(u)

Next ==
  \/ Life
  \/ \E q \in Questions : SubmitStep(q)
  \/ \E u \in Presses, q \in Questions, how \in {"choice", "write"} : Click(u, q, how)
  \/ \E u \in Presses : SubmitModal(u)
  \/ \E u \in Messages, target \in Questions \union {Nobody} : Type(u, target)
  \/ \E u \in Updates : Handle(u)

Spec == Init /\ [][Next]_vars

-----------------------------------------------------------------------------
Attempts ==
  [at : {"unsent", "sent", "modal", "submitted", "found", "shown", "over"},
   how : {"typed", "choice", "write"},
   target : Questions \union {Nobody}, bound : Questions \union {Nobody},
   told : {"nothing", "denied", "gone", "empty", "ignored", "ambiguous", "recorded"}]

(* The type invariant: the ranges of the transport's state. *)
TypeOK ==
  /\ gateway \in {"off", "opening", "identified", "up", "closed"}
  /\ free \subseteq Questions
  /\ phase \in [Questions -> {"new", "posting", "waiting", "settling", "returned",
                              "failed", "notifying", "notified", "lost"}]
  /\ winner \in [Questions -> Updates \union {Nobody, "wait", "other"}]
  /\ post \in [Questions -> {"idle", "sending", "posted", "failed"}]
  /\ content \in [Questions -> Presses \union Messages \union
                               {"none", "question", "wait", "other"}]
  /\ controls \subseteq Questions
  /\ posted \subseteq Questions
  /\ settle \in [Questions -> {"idle", "called", "forgotten", "ok", "error"}]
  /\ update \in [Updates -> Attempts]

(* The transport as a messenger: what it has asked and delivered, how the  *)
(* message of each question stands, whose Settle failed, and the question  *)
(* each human's attempt is matched to.                                     *)
Asked     == {q \in Questions : Open(q)}
Delivered == {q \in Questions : Open(q) /\ post[q] = "posted"}
Left      == {q \in Questions : Open(q) /\ settle[q] = "error"}
Message   == [q \in Questions |-> IF q \in controls THEN "live"
                                  ELSE IF content[q] = "none" THEN "none" ELSE "dead"]
Bound     == [u \in Updates |-> IF update[u].at \in {"found", "shown"}
                                THEN update[u].bound ELSE Nobody]

(* The transport keeps the contract of a messenger: a waiting question can *)
(* be found by a typed answer, no notice, failed or finished one can, and  *)
(* a settled one has no controls left (discord.go: Post, Settle, onMessage,*)
(* updateMessage).                                                         *)
Chat == INSTANCE Messenger WITH
  Humans <- Updates, Elsewhere <- {"wait", "other"}, answerable <- Questions,
  asked <- Asked, decider <- winner, delivered <- Delivered, reach <- posted,
  message <- Message, left <- Left, slow <- {}, bound <- Bound

ImplementsMessenger == Chat!Spec

(* A reply answers the question it replies to or none, whatever became of  *)
(* that question in the meantime (message.go: correlate).                  *)
ReplyIsAuthoritative ==
  \A u \in Messages : \A q \in Questions :
    winner[q] = u => update[u].target \in {Nobody, q}

(* Nobody decides a question after being turned away, by a refusal, an     *)
(* empty answer or an ambiguity, and nobody is told that a question is     *)
(* gone while it waits (discord.go: onComponent, answerChoice,             *)
(* onModalSubmit, onMessage).                                              *)
TurnedAwayIsOut ==
  \A u \in Updates :
    /\ update[u].told \in {"denied", "gone", "empty", "ignored", "ambiguous"} =>
         /\ update[u].at = "over"
         /\ \A q \in Questions : winner[q] # u /\ content[q] # u
    /\ update[u].told = "gone" => ~Open(update[u].target)

(* What CONTEXT.md says of Settle: the message that is left in the channel *)
(* shows the outcome.  A click that loses the race rewrites the message    *)
(* before it asks the broker, and nothing writes the outcome back.         *)
OutcomeIsShown ==
  \A q \in Questions :
    phase[q] = "returned" /\ post[q] = "posted" /\ settle[q] = "ok"
      /\ (\A u \in Updates : update[u].at \in {"unsent", "over"})
        => content[q] = winner[q]
=============================================================================
