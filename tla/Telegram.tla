------------------------------ MODULE Telegram ------------------------------
(***************************************************************************)
(* The Telegram transport, internal/transport/telegram: what it remembers  *)
(* of the questions in the chat, how it routes a button press or a typed   *)
(* message to a question, and how it takes a question down again.          *)
(*                                                                         *)
(* The broker is seen through hitl.Poster and hitl.Resolver (Broker.tla    *)
(* has the whole of it): a question is pending from Submit to retire, its  *)
(* first answer wins.  A message of the chat is named by its question, and *)
(* time advances in units of the grace period, one minute.                 *)
(***************************************************************************)
EXTENDS Naturals, FiniteSets

CONSTANTS
  Questions,   \* the questions posted in the chat
  Buttons,     \* those of them that have choices
  Timed,       \* those of them that have a timeout
  Presses,     \* the button presses of the humans in the chat
  Messages,    \* the messages they type
  Nobody,      \* no question, no message or no person
  Timeout,     \* the timeout of a timed question
  Grace,       \* how long a question is remembered after its deadline
  MaxTime      \* bound: when the clock stops

Updates == Presses \union Messages

ASSUME TelegramAssumption ==
  /\ Buttons \subseteq Questions
  /\ Timed \subseteq Questions
  /\ Presses \intersect Messages = {}
  /\ {Nobody, "wait", "other"} \intersect Updates = {}
  /\ Nobody \notin Questions \union {"wait", "other"}
  /\ {Timeout, Grace, MaxTime} \subseteq Nat
  /\ Grace > 0

VARIABLES
  now,          \* Transport.now
  channel,      \* what the chat really is: a channel, or a chat with replies
  free,         \* the questions that accept a typed answer, as they are asked
  textReplies,  \* acceptsTextReplies: what Start found out about it
  loop,         \* the receive loop
  phase,        \* the Submit of each question
  created,      \* Request.CreatedAt
  started,      \* when the broker's timer was started
  winner,       \* who decided the question
  post,         \* Post of each question
  message,      \* the question in the chat: absent, with buttons, or dead
  posted,       \* Transport.posted
  byMessage,    \* Transport.byMessage
  settle,       \* Settle of each question
  update        \* each press or message: where it is, what it was aimed at,
                \* the question it is bound to, what its author was told

brokerVars == <<phase, created, started, winner>>
mapVars    == <<posted, byMessage>>
loopVars   == <<channel, free, textReplies, loop>>
vars == <<now, channel, free, textReplies, loop, phase, created, started, winner,
          post, message, posted, byMessage, settle, update>>

NoUpdate == [at |-> "unsent", target |-> Nobody, bound |-> Nobody, told |-> "nothing"]

Init ==
  /\ now = 0
  /\ channel \in BOOLEAN
  /\ free \in {f \in SUBSET Questions : Questions = Buttons \union f}
  /\ textReplies = TRUE
  /\ loop = "off"
  /\ phase = [q \in Questions |-> "new"]
  /\ created = [q \in Questions |-> 0]
  /\ started = [q \in Questions |-> 0]
  /\ winner = [q \in Questions |-> Nobody]
  /\ post = [q \in Questions |-> "idle"]
  /\ message = [q \in Questions |-> "none"]
  /\ posted = {}
  /\ byMessage = {}
  /\ settle = [q \in Questions |-> "idle"]
  /\ update = [u \in Updates |-> NoUpdate]

-----------------------------------------------------------------------------
(* The transport's lifecycle.                                              *)

(* Start fixes what kind of chat it is.  When Telegram does not say, the   *)
(* chat is taken to accept replies.                                        *)
Start ==
  /\ loop = "off"
  /\ loop' = "running"
  /\ textReplies' \in {TRUE, ~channel}
  /\ UNCHANGED <<now, channel, free, post, message, settle, update>>
  /\ UNCHANGED brokerVars
  /\ UNCHANGED mapVars

(* handleAPIError: another process polls the same token (HTTP 409).  The   *)
(* loop is stopped and nothing starts it again.                            *)
Conflict ==
  /\ loop = "running"
  /\ loop' = "stopped"
  /\ UNCHANGED <<now, channel, free, textReplies, post, message, settle, update>>
  /\ UNCHANGED brokerVars
  /\ UNCHANGED mapVars

Open(q) == phase[q] \in {"posting", "waiting", "settling"}

(* Close: the daemon has drained the asks and stops the receive loop for   *)
(* good; handlers that are under way go on.                                *)
Close ==
  /\ loop \in {"running", "stopped"}
  /\ \A q \in Questions : ~Open(q) /\ phase[q] # "notifying"
  /\ loop' = "closed"
  /\ UNCHANGED <<now, channel, free, textReplies, post, message, settle, update>>
  /\ UNCHANGED brokerVars
  /\ UNCHANGED mapVars

(* The times of a question are only read when it has a timeout, and go     *)
(* back to 0 when nobody can read them any more.                           *)
Stamped(f, q)  == [f EXCEPT ![q] = IF q \in Timed THEN now ELSE 0]
Cleared(f, qs) == [q \in Questions |-> IF q \in qs THEN 0 ELSE f[q]]
Idle(f, qs)    == [q \in Questions |-> IF q \in qs THEN "idle" ELSE f[q]]

(* The daemon dies, or exits after Close.  Nothing is persisted: questions *)
(* are lost and their messages stay in the chat.  Updates that nobody      *)
(* fetched wait on Telegram's servers for the next daemon.                 *)
Crash ==
  LET lost == {q \in Questions : Open(q) \/ phase[q] \in {"notifying", "notified"}} IN
  /\ loop = "closed" \/ \E q \in Questions : Open(q)
  /\ loop' = "off"
  /\ phase' = [q \in Questions |-> IF q \in lost THEN "lost" ELSE phase[q]]
  /\ created' = Cleared(created, lost)
  /\ started' = Cleared(started, lost)
  /\ post' = Idle(post, lost)
  /\ settle' = Idle(settle, lost)
  /\ posted' = {}
  /\ byMessage' = {}
  /\ update' = [u \in Updates |->
                  IF update[u].at = "found" THEN [NoUpdate EXCEPT !.at = "over"] ELSE update[u]]
  /\ UNCHANGED <<now, channel, free, textReplies, winner, message>>

-----------------------------------------------------------------------------
(* What is remembered of the chat.                                         *)

(* Without the grace period. *)
ExpiredAtDeadline(q) == q \in Timed /\ now >= created[q] + Timeout

(* expiryOf; a question without a timeout is never pruned. *)
Expired(q) == q \in Timed /\ now >= created[q] + Timeout + Grace

(* pruneLocked *)
Kept(qs) == {q \in qs : ~Expired(q)}

(* remember prunes what the broker never settles, then stores the question.*)
Remember(q) ==
  /\ posted' = Kept(posted) \union {q}
  /\ byMessage' = (byMessage \ (posted \ Kept(posted))) \union {q}

(* A question in a channel must have buttons: nobody can type there. *)
Refused(q) == ~textReplies /\ q \notin Buttons

-----------------------------------------------------------------------------
(* Submit and Notify as far as Telegram is concerned.                      *)

Ask(q) ==
  /\ loop \in {"running", "stopped"}
  /\ phase[q] = "new"
  /\ phase' = [phase EXCEPT ![q] = "posting"]
  /\ created' = Stamped(created, q)
  /\ post' = [post EXCEPT ![q] = IF Refused(q) THEN "failed" ELSE "sending"]
  /\ UNCHANGED <<now, started, winner, message, settle, update>>
  /\ UNCHANGED loopVars
  /\ UNCHANGED mapVars

(* A message that expects no answer: Broker.Notify takes its choices and   *)
(* its reply prompt away. *)
Notify(q) ==
  /\ loop \in {"running", "stopped"}
  /\ phase[q] = "new"
  /\ phase' = [phase EXCEPT ![q] = "notifying"]
  /\ created' = Stamped(created, q)
  /\ post' = [post EXCEPT ![q] = "sending"]
  /\ UNCHANGED <<now, started, winner, message, settle, update>>
  /\ UNCHANGED loopVars
  /\ UNCHANGED mapVars

Asking(q)   == phase[q] \in {"posting", "notifying"}
Notice(q)   == phase[q] \in {"notifying", "notified"}
AllowFree(q) == q \in free /\ ~Notice(q)

(* sendMessage puts the question in the chat; a reply prompt is refused by *)
(* a channel.                                                              *)
SendMessage(q) ==
  /\ Asking(q)
  /\ post[q] = "sending"
  /\ ~(channel /\ textReplies /\ AllowFree(q) /\ q \notin Buttons)
  /\ message[q] = "none"
  /\ message' = [message EXCEPT ![q] = IF Notice(q) THEN "dead" ELSE "live"]
  /\ UNCHANGED <<now, post, settle, update>>
  /\ UNCHANGED loopVars
  /\ UNCHANGED brokerVars
  /\ UNCHANGED mapVars

(* Post returns with the question in the chat and remembered. *)
Posts(q) ==
  /\ Asking(q)
  /\ post[q] = "sending"
  /\ message[q] # "none"
  /\ post' = [post EXCEPT ![q] = "posted"]
  /\ Remember(q)
  /\ UNCHANGED <<now, message, settle, update>>
  /\ UNCHANGED loopVars
  /\ UNCHANGED brokerVars

(* sendMessage fails, or its reply is lost. *)
PostFails(q) ==
  /\ Asking(q)
  /\ post[q] = "sending"
  /\ post' = [post EXCEPT ![q] = "failed"]
  /\ UNCHANGED <<now, message, settle, update>>
  /\ UNCHANGED loopVars
  /\ UNCHANGED brokerVars
  /\ UNCHANGED mapVars

(* Every messenger has returned from Post.  When this one failed, another  *)
(* one may have shown the question.                                        *)
FanoutDone(q, ok) ==
  /\ Asking(q)
  /\ post[q] # "sending"
  /\ ok \/ post[q] = "failed"
  /\ phase' = [phase EXCEPT ![q] =
                 IF ~ok THEN "failed" ELSE IF Notice(q) THEN "notified" ELSE "waiting"]
  /\ started' = IF phase'[q] = "waiting" THEN Stamped(started, q) ELSE started
  /\ created' = IF phase'[q] = "failed" THEN Cleared(created, {q}) ELSE created
  /\ UNCHANGED <<now, winner, post, message, settle, update>>
  /\ UNCHANGED loopVars
  /\ UNCHANGED mapVars

(* The command line, the other messenger or the caller's hang-up decides.  *)
DecidedElsewhere(q) ==
  /\ Open(q)
  /\ winner[q] = Nobody
  /\ winner' = [winner EXCEPT ![q] = "other"]
  /\ UNCHANGED <<now, phase, created, started, post, message, settle, update>>
  /\ UNCHANGED loopVars
  /\ UNCHANGED mapVars

Due(q) == phase[q] = "waiting" /\ q \in Timed /\ now >= started[q] + Timeout

(* wait returns: there is an answer, or the timer fires. *)
WaitReturns(q) ==
  /\ phase[q] = "waiting"
  /\ winner[q] # Nobody \/ Due(q)
  /\ phase' = [phase EXCEPT ![q] = "settling"]
  /\ winner' = IF winner[q] = Nobody THEN [winner EXCEPT ![q] = "wait"] ELSE winner
  /\ settle' = [settle EXCEPT ![q] = IF post[q] = "posted" THEN "called" ELSE "idle"]
  /\ UNCHANGED <<now, created, started, post, message, update>>
  /\ UNCHANGED loopVars
  /\ UNCHANGED mapVars

(* Settle.forget: a question that is not remembered is taken for settled.  *)
Forget(q) ==
  /\ settle[q] = "called"
  /\ phase[q] = "settling"
  /\ settle' = [settle EXCEPT ![q] = IF q \in posted THEN "forgotten" ELSE "ok"]
  /\ posted' = posted \ {q}
  /\ byMessage' = byMessage \ {q}
  /\ UNCHANGED <<now, post, message, update>>
  /\ UNCHANGED loopVars
  /\ UNCHANGED brokerVars

(* A keyboard that cannot be stripped is logged and the text is edited     *)
(* all the same.                                                           *)
StripKeyboard(q, ok) ==
  /\ settle[q] = "forgotten"
  /\ settle' = [settle EXCEPT ![q] = "stripped"]
  /\ message' = IF ok THEN [message EXCEPT ![q] = "dead"] ELSE message
  /\ UNCHANGED <<now, post, update>>
  /\ UNCHANGED loopVars
  /\ UNCHANGED brokerVars
  /\ UNCHANGED mapVars

(* A failed edit that is not reported. *)
EditTextQuietly(q, ok) ==
  /\ settle[q] = "stripped"
  /\ settle' = [settle EXCEPT ![q] = "ok"]
  /\ message' = IF ok THEN [message EXCEPT ![q] = "dead"] ELSE message
  /\ UNCHANGED <<now, post, update>>
  /\ UNCHANGED loopVars
  /\ UNCHANGED brokerVars
  /\ UNCHANGED mapVars

(* The outcome is written under the question, without a keyboard.          *)
EditText(q, ok) ==
  /\ settle[q] = "stripped"
  /\ settle' = [settle EXCEPT ![q] = IF ok THEN "ok" ELSE "error"]
  /\ message' = IF ok THEN [message EXCEPT ![q] = "dead"] ELSE message
  /\ UNCHANGED <<now, post, update>>
  /\ UNCHANGED loopVars
  /\ UNCHANGED brokerVars
  /\ UNCHANGED mapVars

(* Every Settle has returned: the broker retires the question. *)
Retire(q) ==
  /\ phase[q] = "settling"
  /\ settle[q] \in {"idle", "ok", "error"}
  /\ phase' = [phase EXCEPT ![q] = "returned"]
  /\ created' = Cleared(created, {q})
  /\ started' = Cleared(started, {q})
  /\ post' = Idle(post, {q})
  /\ settle' = Idle(settle, {q})
  /\ UNCHANGED <<now, winner, message, update>>
  /\ UNCHANGED loopVars
  /\ UNCHANGED mapVars

(* A step the daemon takes at once: it is not outrun by the clock. *)
Prompt(q) ==
  \/ phase[q] = "waiting" /\ winner[q] # Nobody
  \/ Due(q)
  \/ settle[q] = "called" /\ phase[q] = "settling"

Tick ==
  /\ now < MaxTime
  /\ \A q \in Questions : ~Prompt(q)
  /\ now' = now + 1
  /\ UNCHANGED <<post, message, settle, update>>
  /\ UNCHANGED loopVars
  /\ UNCHANGED brokerVars
  /\ UNCHANGED mapVars

-----------------------------------------------------------------------------
(* The humans.                                                             *)

Press(u, q) ==
  /\ update[u].at = "unsent"
  /\ message[q] = "live"
  /\ q \in Buttons
  /\ update' = [update EXCEPT ![u] = [@ EXCEPT !.at = "sent", !.target = q]]
  /\ UNCHANGED <<now, post, message, settle>>
  /\ UNCHANGED loopVars
  /\ UNCHANGED brokerVars
  /\ UNCHANGED mapVars

(* A message of its own (target = Nobody), or a reply to any message of    *)
(* the bot, whatever became of its question.                               *)
Type(u, target) ==
  /\ update[u].at = "unsent"
  /\ ~channel
  /\ target # Nobody => message[target] # "none"
  /\ update' = [update EXCEPT ![u] = [@ EXCEPT !.at = "sent", !.target = target]]
  /\ UNCHANGED <<now, post, message, settle>>
  /\ UNCHANGED loopVars
  /\ UNCHANGED brokerVars
  /\ UNCHANGED mapVars

-----------------------------------------------------------------------------
(* The handlers, each in a goroutine of its own.                           *)

Fetched(u) == loop = "running" /\ update[u].at = "sent"

(* The handler ends with this word; of what the update was about, only what*)
(* the word speaks of is kept.                                             *)
Tell(u, told) ==
  update' = [update EXCEPT ![u] =
    [at |-> "over", told |-> told,
     target |-> IF told = "gone" THEN @.target ELSE Nobody,
     bound  |-> IF told = "late" THEN @.bound ELSE Nobody]]

(* A handler goes on to resolve q. *)
Found(u, q) == update' = [update EXCEPT ![u] = [@ EXCEPT !.at = "found", !.bound = q]]

(* handleCallback up to the empty toast that stops the spinner; allowed is *)
(* what permitted says of the person.                                      *)
HandlePress(u, allowed) ==
  LET q == update[u].target IN
  /\ Fetched(u)
  /\ \/ ~allowed /\ Tell(u, "denied")
     \/ allowed /\ ~Open(q) /\ Tell(u, "gone")
     \/ allowed /\ Open(q) /\ Found(u, q)
  /\ UNCHANGED <<now, post, message, settle>>
  /\ UNCHANGED loopVars
  /\ UNCHANGED brokerVars
  /\ UNCHANGED mapVars

(* The open-ended questions a message of its own may answer. *)
Candidates == {q \in Kept(posted) : AllowFree(q)}

(* A reply that counts as any other message. *)
AuthoritativeNever(target) == FALSE

(* A reply that is matched by what is remembered, and nothing else. *)
Authoritative(target) == target \in byMessage /\ target \in Kept(posted)

(* matchFreeText, after its prune.  A reply to a message that is not       *)
(* remembered falls through to the questions that are.                     *)
Matches(target) ==
  IF Authoritative(target) THEN {target} \intersect Candidates ELSE Candidates

(* handleMessage up to the match. *)
HandleMessage(u, allowed) ==
  LET matches == Matches(update[u].target) IN
  /\ Fetched(u)
  /\ \/ matches = {} /\ Tell(u, "ignored")
     \/ Cardinality(matches) > 1 /\ Tell(u, "ambiguous")
     \/ Cardinality(matches) = 1 /\ ~allowed /\ Tell(u, "denied")
     \/ Cardinality(matches) = 1 /\ allowed /\ \E q \in matches : Found(u, q)
  /\ posted' = Kept(posted)
  /\ byMessage' = byMessage \ (posted \ Kept(posted))
  /\ UNCHANGED <<now, post, message, settle>>
  /\ UNCHANGED loopVars
  /\ UNCHANGED brokerVars

(* The question's id where the responder belongs. *)
ResolveSwapped(u) ==
  LET q == update[u].bound IN
  /\ update[u].at = "found"
  /\ IF Open(q) /\ winner[q] = Nobody
     THEN winner' = [winner EXCEPT ![q] = q] /\ Tell(u, "accepted")
     ELSE UNCHANGED winner /\ Tell(u, "late")
  /\ UNCHANGED <<now, phase, created, started, post, message, settle>>
  /\ UNCHANGED loopVars
  /\ UNCHANGED mapVars

(* An error of Resolve that nobody looks at. *)
ResolveBlindly(u) ==
  LET q == update[u].bound IN
  /\ update[u].at = "found"
  /\ winner' = IF Open(q) /\ winner[q] = Nobody THEN [winner EXCEPT ![q] = u] ELSE winner
  /\ Tell(u, "accepted")
  /\ UNCHANGED <<now, phase, created, started, post, message, settle>>
  /\ UNCHANGED loopVars
  /\ UNCHANGED mapVars

(* Resolve: the first answer wins; the loser is told so. *)
Resolve(u) ==
  LET q == update[u].bound IN
  /\ update[u].at = "found"
  /\ IF Open(q) /\ winner[q] = Nobody
     THEN winner' = [winner EXCEPT ![q] = u] /\ Tell(u, "accepted")
     ELSE UNCHANGED winner /\ Tell(u, "late")
  /\ UNCHANGED <<now, phase, created, started, post, message, settle>>
  /\ UNCHANGED loopVars
  /\ UNCHANGED mapVars

-----------------------------------------------------------------------------
Life == Start \/ Conflict \/ Close \/ Crash \/ Tick

SubmitStep(q) ==
  \/ Ask(q) \/ Notify(q) \/ SendMessage(q) \/ Posts(q) \/ PostFails(q)
  \/ \E ok \in BOOLEAN : FanoutDone(q, ok) \/ StripKeyboard(q, ok) \/ EditText(q, ok)
  \/ DecidedElsewhere(q) \/ WaitReturns(q) \/ Forget(q) \/ Retire(q)

Next ==
  \/ Life
  \/ \E q \in Questions : SubmitStep(q)
  \/ \E u \in Presses, q \in Questions : Press(u, q)
  \/ \E u \in Messages, target \in Questions \union {Nobody} : Type(u, target)
  \/ \E u \in Presses, allowed \in BOOLEAN : HandlePress(u, allowed)
  \/ \E u \in Messages, allowed \in BOOLEAN : HandleMessage(u, allowed)
  \/ \E u \in Updates : Resolve(u)

Spec == Init /\ [][Next]_vars

-----------------------------------------------------------------------------
Attempts ==
  [at : {"unsent", "sent", "found", "over"},
   target : Questions \union {Nobody}, bound : Questions \union {Nobody},
   told : {"nothing", "denied", "gone", "ignored", "ambiguous", "late", "accepted"}]

(* The type invariant: the ranges of the transport's state. *)
TypeOK ==
  /\ now \in 0 .. MaxTime
  /\ channel \in BOOLEAN /\ textReplies \in BOOLEAN
  /\ free \subseteq Questions
  /\ loop \in {"off", "running", "stopped", "closed"}
  /\ phase \in [Questions -> {"new", "posting", "waiting", "settling", "returned",
                              "failed", "notifying", "notified", "lost"}]
  /\ created \in [Questions -> 0 .. MaxTime]
  /\ started \in [Questions -> 0 .. MaxTime]
  /\ winner \in [Questions -> Updates \union {Nobody, "wait", "other"}]
  /\ post \in [Questions -> {"idle", "sending", "posted", "failed"}]
  /\ message \in [Questions -> {"none", "live", "dead"}]
  /\ posted \subseteq Questions /\ byMessage \subseteq Questions
  /\ settle \in [Questions -> {"idle", "called", "forgotten", "stripped", "ok", "error"}]
  /\ update \in [Updates -> Attempts]

(* How long posting the question to every messenger took, or takes. *)
Fanout(q) == (IF phase[q] = "posting" THEN now ELSE started[q]) - created[q]

(* Nothing bounds the uploads and the sends of a Submit.  The broker's     *)
(* timer starts when they are done, the time a question is remembered when *)
(* it is created: it can be pruned while it waits.                         *)
Overdue(q) == q \in Timed /\ Open(q) /\ Fanout(q) >= Grace

(* The transport as a messenger: who can answer in this chat, what it has  *)
(* asked and delivered, what a typed answer can be matched to, whose       *)
(* Settle failed, what was posted too slowly to be remembered to its end,  *)
(* and the question each human's attempt is matched to.                    *)
Answerable == IF channel THEN Buttons ELSE Questions
Asked      == {q \in Questions : Open(q)}
Delivered  == {q \in Questions : Open(q) /\ post[q] = "posted"}
Reach      == {q \in posted \intersect byMessage : ~Notice(q)}
Left       == {q \in Questions : Open(q) /\ settle[q] = "error"}
Slow       == {q \in Questions : Overdue(q)}
Bound      == [u \in Updates |-> IF update[u].at = "found" THEN update[u].bound ELSE Nobody]

(* The transport keeps the contract of a messenger: unless posting it took *)
(* as long as the grace period, no prune, crash, race or failing call      *)
(* leaves a waiting question that a reply cannot find, or buttons on a     *)
(* settled one; and none ever leaves a finished question that a message is *)
(* routed to, or one in a chat where nobody can answer it (telegram.go:    *)
(* Post, expiryOf, remember, prune, forget, Settle; handlers.go).          *)
Chat == INSTANCE Messenger WITH
  Humans <- Updates, Elsewhere <- {"wait", "other"}, answerable <- Answerable,
  asked <- Asked, decider <- winner, delivered <- Delivered, reach <- Reach,
  left <- Left, slow <- Slow, bound <- Bound

ImplementsMessenger == Chat!Spec

(* What the chat is told agrees with what happened: silence means that the *)
(* answer counted, every other word that it did not, and "late" that the   *)
(* question was decided or lost without it (handlers.go: handleCallback,   *)
(* handleMessage).                                                         *)
ToldTheTruth ==
  \A u \in Updates :
    /\ update[u].told = "accepted" <=> \E q \in Questions : winner[q] = u
    /\ update[u].told = "late" => LET q == update[u].bound IN
         winner[q] \notin {Nobody, u} \/ phase[q] \in {"failed", "lost"}
    /\ update[u].told = "gone" => ~Open(update[u].target)

(* Delivered, and not yet taken down. *)
Outstanding(q) == Open(q) /\ post[q] = "posted" /\ settle[q] \in {"idle", "called"}

(* From the return of its Post until it is taken down, a reply to a        *)
(* question is bound to that question or to none, never to another one,    *)
(* unless posting it took as long as the grace period (handlers.go:        *)
(* matchFreeText; telegram.go: remember, expiryOf, prune, forget).         *)
OpenReplyIsAuthoritative ==
  [][\A u \in Messages : \A q \in Questions :
       (Outstanding(q) /\ ~Overdue(q) /\ update[u].target = q)
         => update'[u].bound \in {Nobody, update[u].bound, q}]_vars
=============================================================================
