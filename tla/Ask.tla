--------------------------------- MODULE Ask ---------------------------------
(***************************************************************************)
(* One `ask` or `notify` from its flags to what it prints: the CLI builds  *)
(* the parameters under its own settings, the daemon completes them under  *)
(* settings it may have read long before, the broker posts the question to *)
(* the messengers, a person uses a control under it, the messengers show   *)
(* the outcome and the CLI prints the answer.                              *)
(*                                                                         *)
(* Who wins a race, and what a crash does, is in Broker, Telegram, Discord *)
(* and Daemon; here one request runs on its own, and the question is what  *)
(* happens to its contents.  Choice ids are numbers, and the label of the  *)
(* i-th choice is i; file sizes are in KiB and texts are lengths.          *)
(***************************************************************************)
EXTENDS Settings, Layout

CONSTANTS
  Telegram, Discord,  \* the two messengers
  Cases,              \* the inputs: flags, settings, what is up
  TextLengths         \* lengths of typed answers and of cancel reasons

ASSUME MessengersAssumption == Messengers = {Telegram, Discord} /\ Telegram # Discord

(* A daemon runs only the messengers its settings enable, and does not     *)
(* start without any.                                                      *)
ASSUME CasesAssumption ==
  \A c \in Cases : /\ IsSettings(c.asker) /\ IsSettings(c.daemon)
                   /\ c.flags.timeout \in Int \union {Empty}
                   /\ {c.flags.title, c.flags.label, c.flags.body, c.flags.name} \subseteq Nat
                   /\ c.flags.choices \in Seq(Nat) /\ c.flags.attach \in Seq(Nat)
                   /\ {c.flags.free, c.flags.notice} \subseteq BOOLEAN
                   /\ c.up # {} /\ c.up \subseteq EnabledTransports(Load(c.daemon))

ASSUME TextLengthsAssumption == TextLengths \subseteq Nat

VARIABLES
  input,     \* [flags, asker, daemon, up, channel]
  pc,        \* where the request is
  why,       \* why it was refused
  files,     \* the positions of the attachments that can be read
  request,   \* ipc.AskParams, then hitl.Request
  todo,      \* the messengers it is still to be posted to
  posted,    \* the message of each messenger that posted it
  pressed,   \* what the person saw on the control used
  answer,    \* hitl.Answer
  printed    \* what is on standard output

vars == <<input, pc, why, files, request, todo, posted, pressed, answer, printed>>

Unset    == -1   \* no choice, no text
Fallback == -2   \* the text of --default

NoAnswer == [status |-> "none", id |-> Unset, label |-> Unset, text |-> Unset, length |-> 0]

MaxTitleLen    == 200
MaxBodyLen     == 100000
MaxChoices     == 25
MaxLabelLen    == 80
MaxAttachments == 10
MaxFile        == 10240   \* KiB
MaxUpload      == 25600   \* KiB

Flags == input.flags

Refuse(reason) ==
  /\ pc' = "refused"
  /\ why' = reason
  /\ UNCHANGED <<input, files, request, todo, posted, pressed, answer, printed>>

-----------------------------------------------------------------------------
(* The CLI.                                                                *)

(* NewAttachment, of the file at this position. *)
Attachable(q, i) == i \in files /\ q.attach[i] \in 1 .. MaxFile

(* Request.Validate *)
Validate(q) ==
  /\ q.title + q.body > 0 /\ q.title <= MaxTitleLen /\ q.body <= MaxBodyLen
  /\ Len(q.choices) <= MaxChoices /\ IsInjective(q.choices)
  /\ IF q.notice THEN q.choices = <<>> /\ ~q.free ELSE q.choices # <<>> \/ q.free
  /\ Len(q.attach) <= MaxAttachments
  /\ q.timeout >= 0

ResolveTransports(names, cfg) ==
  IF names = Empty THEN DefaultTransports(cfg)
  ELSE IF "all" \in names THEN EnabledTransports(cfg) ELSE names

(* build: the deadline of a notice, and empty lists, stay off the wire. *)
Params(cfg) ==
  [notice |-> Flags.notice, title |-> Flags.title, titleScript |-> Flags.titleScript,
   label |-> Flags.label, labelScript |-> Flags.labelScript,
   body |-> Flags.body, script |-> Flags.script,
   attach |-> Flags.attach, name |-> Flags.name, nameScript |-> Flags.nameScript,
   choices    |-> IF Flags.notice THEN <<>> ELSE Flags.choices,
   free       |-> Flags.free /\ ~Flags.notice,
   timeout    |-> IF Flags.notice THEN Empty
                  ELSE IF Flags.timeout = Empty THEN cfg[Timeout] ELSE Flags.timeout,
   transports |-> ResolveTransports(Flags.transports, cfg)]

(* The probe of an ask carries no attachments; a notice is not probed. *)
Buildable(cfg) ==
  /\ Valid(cfg)
  /\ IsInjective(Flags.choices)
  /\ \A i \in DOMAIN Flags.attach : Attachable(Flags, i)
  /\ IF Flags.notice THEN Flags.title + Flags.body > 0
     ELSE Validate([Params(cfg) EXCEPT !.attach = <<>>])

Build ==
  /\ pc = "cli"
  /\ LET cfg == Load(input.asker) IN
     IF ~Buildable(cfg) THEN Refuse("usage")
     ELSE /\ pc' = "wire"
          /\ request' = Params(cfg)
          /\ UNCHANGED <<input, why, files, todo, posted, pressed, answer, printed>>

-----------------------------------------------------------------------------
(* The daemon.                                                             *)

(* A deadline of zero taken for one that was not given. *)
FillInZero(q, cfg) ==
  [q EXCEPT !.timeout    = IF @ \in {Empty, 0} THEN cfg[Timeout] ELSE @,
            !.transports = IF @ = {} THEN DefaultTransports(cfg) ELSE @]

(* The messengers left to the broker. *)
FillInDeadline(q, cfg) == [q EXCEPT !.timeout = IF @ = Empty THEN cfg[Timeout] ELSE @]

FillIn(q, cfg) ==
  [q EXCEPT !.timeout    = IF @ = Empty THEN cfg[Timeout] ELSE @,
            !.transports = IF @ = {} THEN DefaultTransports(cfg) ELSE @]

(* service.request *)
Receive ==
  /\ pc = "wire"
  /\ IF \E i \in DOMAIN request.attach : ~Attachable(request, i) THEN Refuse("attachment")
     ELSE /\ pc' = "daemon"
          /\ request' = FillIn(request, Load(input.daemon))
          /\ UNCHANGED <<input, why, files, todo, posted, pressed, answer, printed>>

(* prepare and selectPosters, of Submit and of Notify. *)
Submit ==
  /\ pc = "daemon"
  /\ IF ~Validate(request) THEN Refuse("invalid")
     ELSE IF ~(request.transports \subseteq input.up) THEN Refuse("unavailable")
     ELSE /\ pc' = "posting"
          /\ todo' = IF request.transports = {} THEN input.up ELSE request.transports
          /\ UNCHANGED <<input, why, files, request, posted, pressed, answer, printed>>

(* A file is removed or replaced under the request. *)
LoseFile(i) ==
  /\ pc \in {"cli", "wire", "daemon", "posting"}
  /\ i \in files
  /\ files' = files \ {i}
  /\ UNCHANGED <<input, pc, why, request, todo, posted, pressed, answer, printed>>

-----------------------------------------------------------------------------
(* The messengers.  A message shows rows of controls and may also invite a *)
(* typed reply; lost is a body that was cut with no word of it.            *)

Message(text, rows, reply) ==
  [length |-> text.length, lost |-> text.cut /\ ~text.note, rows |-> rows, reply |-> reply,
   open |-> TRUE]

PostOf(m) == pc = "posting" /\ m \in todo /\ todo' = todo \ {m}

Delivered(m, message) ==
  /\ posted' = [x \in DOMAIN posted \union {m} |-> IF x = m THEN message ELSE posted[x]]
  /\ UNCHANGED <<input, pc, why, files, request, pressed, answer, printed>>

(* Any post may also be refused by the messenger. *)
PostFails(m) ==
  /\ PostOf(m)
  /\ UNCHANGED <<input, pc, why, files, request, posted, pressed, answer, printed>>

(* telegram.Post.  Uploads fail one by one, and the question still goes.   *)
PostTelegram(missed) ==
  LET reply == request.free /\ ~input.channel
  IN /\ PostOf(Telegram)
     /\ ~input.channel \/ request.notice \/ request.choices # <<>>
     /\ missed >= Len(request.attach) - Cardinality(files)
     /\ Delivered(Telegram,
          Message(TelegramText(request, missed, ~input.channel),
                  TelegramRows(Len(request.choices)), reply))

(* discord.Post: everything goes up in one message, or nothing does.       *)
PostDiscord ==
  LET text  == DiscordContent(request, ~request.notice)
      body  == IF text.cut THEN (request.body + 1023) \div 1024 ELSE 0
      rows  == IF request.notice THEN <<>> ELSE DiscordRows(Len(request.choices), request.free)
  IN /\ PostOf(Discord)
     /\ FoldLeft(LAMBDA sum, size : sum + size, body, request.attach) <= MaxUpload
     /\ DOMAIN request.attach \subseteq files
     /\ RowsFit(rows)
     /\ Delivered(Discord, Message(text, rows, FALSE))

(* fanout: one messenger that has it is enough. *)
Fanout ==
  /\ pc = "posting" /\ todo = {}
  /\ IF DOMAIN posted = {} THEN Refuse("undelivered")
     ELSE /\ pc' = IF request.notice THEN "done" ELSE "open"
          /\ UNCHANGED <<input, why, files, request, todo, posted, pressed, answer, printed>>

-----------------------------------------------------------------------------
(* The answer.  It may come while another messenger is still posting.      *)

CanAnswer == pc \in {"posting", "open"} /\ ~request.notice /\ answer = NoAnswer

ChoiceByID(id) ==
  LET found == {i \in DOMAIN request.choices : request.choices[i] = id}
  IN IF found = {} THEN 0 ELSE Min(found)

(* Broker.Resolve: the label, and a missing text, are looked up by the id. *)
Resolve(id, text, length) ==
  LET found == IF id = Unset THEN 0 ELSE ChoiceByID(id) IN
  /\ answer' = [status |-> "answered", id |-> id, label |-> IF found = 0 THEN Unset ELSE found,
                text |-> IF text = Unset /\ found # 0 THEN found ELSE text, length |-> length]
  /\ UNCHANGED <<input, pc, why, files, request, todo, posted, printed>>

(* A button or an option: the index it carries names the choice. *)
Press(m, r, k) ==
  /\ CanAnswer
  /\ m \in DOMAIN posted /\ r \in DOMAIN posted[m].rows /\ k \in DOMAIN posted[m].rows[r]
  /\ LET control == posted[m].rows[r][k]
         index   == control.data + 1
     IN /\ control.shows # Write
        /\ index \in DOMAIN request.choices
        /\ pressed' = control.shows
        /\ Resolve(request.choices[index], index, MaxLabelLen)

(* A typed answer.  Discord takes one whether it was invited or not. *)
Type(m, length) ==
  /\ CanAnswer
  /\ m \in DOMAIN posted
  /\ m = Telegram => posted[m].reply
  /\ pressed' = Write
  /\ Resolve(Unset, Write, length)

(* `answer --choice`, which takes any id, and `answer --text`. *)
AnswerHere(id, text, length) ==
  /\ CanAnswer
  /\ Resolve(id, text, length)
  /\ UNCHANGED pressed

End(status, length) ==
  /\ answer' = [NoAnswer EXCEPT !.status = status, !.length = length]
  /\ UNCHANGED <<input, pc, why, files, request, todo, posted, pressed, printed>>

Expire == CanAnswer /\ pc = "open" /\ request.timeout > 0 /\ End("timeout", 0)

Cancel(length) == CanAnswer /\ End("canceled", length)

(* Settle: the controls go, and the outcome is added to the text. *)
Settle(m) ==
  /\ pc = "open" /\ answer # NoAnswer
  /\ m \in DOMAIN posted /\ posted[m].open
  /\ LET shown  == IF answer.label # Unset THEN MaxLabelLen ELSE answer.length
         length == IF m = Telegram
                   THEN TelegramSettled(posted[m].length, TelegramOutcome(answer.status, shown))
                   ELSE DiscordSettled(request, DiscordOutcome(answer.status, shown))
     IN posted' = [posted EXCEPT ![m].length = length, ![m].rows = <<>>, ![m].open = FALSE]
  /\ UNCHANGED <<input, pc, why, files, request, todo, pressed, answer, printed>>

(* runAsk: the answer, or what --default says if the deadline passed.      *)
Report ==
  /\ pc = "open" /\ answer # NoAnswer
  /\ \A m \in DOMAIN posted : ~posted[m].open
  /\ pc' = "done"
  /\ printed' = IF answer.status = "answered" THEN answer.text
                ELSE IF answer.status = "timeout" /\ Flags.default THEN Fallback ELSE Unset
  /\ UNCHANGED <<input, why, files, request, todo, posted, pressed, answer>>

Terminated == pc \in {"done", "refused"} /\ UNCHANGED vars

-----------------------------------------------------------------------------

NoRequest == [notice |-> FALSE, title |-> 0, titleScript |-> "plain", label |-> 0,
              labelScript |-> "plain", body |-> 0, script |-> "plain", attach |-> <<>>,
              name |-> 0, nameScript |-> "plain", choices |-> <<>>, free |-> FALSE,
              timeout |-> 0, transports |-> {}]

Init ==
  /\ input \in Cases
  /\ pc = "cli" /\ why = "" /\ request = NoRequest
  /\ files = DOMAIN Flags.attach
  /\ todo = {} /\ posted = <<>>
  /\ pressed = Unset /\ answer = NoAnswer /\ printed = Unset

Next ==
  \/ Build \/ Receive \/ Submit \/ Fanout \/ Expire \/ Report \/ Terminated
  \/ \E i \in files : LoseFile(i)
  \/ PostDiscord
  \/ \E missed \in 0 .. Len(request.attach) : PostTelegram(missed)
  \/ \E m \in Messengers : PostFails(m) \/ Settle(m)
  \/ \E m \in DOMAIN posted : \E r \in DOMAIN posted[m].rows :
       \E k \in DOMAIN posted[m].rows[r] : Press(m, r, k)
  \/ \E length \in TextLengths :
       Cancel(length) \/ AnswerHere(Unset, Write, length) \/ \E m \in Messengers : Type(m, length)
  \/ \E id \in 1 .. Len(request.choices) + 1 : AnswerHere(id, Unset, 0)

Spec == Init /\ [][Next]_vars

-----------------------------------------------------------------------------
(* Properties.                                                             *)

(* The types of the variables.  A request the daemon accepted has every    *)
(* field filled in, and only what was asked for is a target.               *)
TypeOK ==
  /\ pc \in {"cli", "wire", "daemon", "posting", "open", "done", "refused"}
  /\ (pc = "refused") <=>
       (why \in {"usage", "attachment", "invalid", "unavailable", "undelivered"})
  /\ files \subseteq DOMAIN Flags.attach
  /\ pc \in {"posting", "open", "done"} => Validate(request) /\ request.transports # {}
  /\ DOMAIN posted \union todo \subseteq input.up
  /\ DOMAIN posted \intersect todo = {}
  /\ answer.status \in {"none", "answered", "timeout", "canceled"}
  /\ printed \in {Unset, Fallback} \union 0 .. MaxChoices

(* Where the controls are, and those that show the i-th choice.            *)
Places(rows) == UNION {{r} \X DOMAIN rows[r] : r \in DOMAIN rows}
Showing(rows, i) == {at \in Places(rows) : rows[at[1]][at[2]].shows = i}

(* A script branches on the id and a person reads the label: the id of the *)
(* answer, the label in the outcome and the text that is printed are those *)
(* of the control that was used, and of no other choice.  For that every   *)
(* choice is on exactly one control of every open message, there is a      *)
(* free-text button exactly where one is wanted, and a notice has none.    *)
AnswerIsThePressed ==
  /\ pressed \in 1 .. MaxChoices =>
       /\ answer.text = pressed /\ answer.label = pressed
       /\ \A i \in DOMAIN request.choices : request.choices[i] = answer.id <=> i = pressed
  /\ pressed = Write => answer.text = Write /\ answer.id = Unset
  /\ pc = "done" /\ pressed # Unset => printed = pressed
  /\ \A m \in DOMAIN posted : posted[m].open =>
       \A i \in 0 .. MaxChoices :
         Cardinality(Showing(posted[m].rows, i)) =
           IF i = Write THEN (IF m = Discord /\ request.free THEN 1 ELSE 0)
           ELSE IF i <= Len(request.choices) THEN 1 ELSE 0

(* The longest label that leaves Discord room for some of the body under a *)
(* title of MaxTitleLen; the code bounds the title only.                   *)
LabelRoom == 1661

(* As many names in markup as Telegram's footer can list, whatever the     *)
(* title and the label, and leave room for a note.                         *)
NamesRoom == 5

(* What a messenger takes: neither the question nor the question with its  *)
(* outcome outgrows a message, and Discord can lay out every question that *)
(* passed the checks.  A body is cut without a word of it in two cases     *)
(* only: the asker's label fills Discord's message, or more attachments    *)
(* than NamesRoom have names that grow fivefold in Telegram's HTML.        *)
FitsTheMessenger ==
  /\ \A m \in DOMAIN posted :
       /\ posted[m].length <= IF m = Telegram THEN TelegramLimit ELSE DiscordLimit
       /\ posted[m].lost =>
            \/ m = Discord /\ Flags.label > LabelRoom
            \/ m = Telegram /\ Flags.nameScript = "markup" /\ Len(Flags.attach) > NamesRoom
  /\ pc = "posting" => RowsFit(DiscordRows(Len(request.choices), request.free))

(* The daemon's settings, read when it started, decide nothing that the    *)
(* asker's decide: an ask has the deadline the asker sees, zero included,  *)
(* and it goes to no messenger but the ones named, or the asker's own.     *)
SentAsAsked ==
  LET cfg   == Load(input.asker)
      named == Flags.transports \notin {Empty, {}} /\ "all" \notin Flags.transports
      own   == IF Flags.transports = Empty THEN DefaultTransports(cfg) ELSE EnabledTransports(cfg)
  IN pc \in {"posting", "open", "done"} =>
       /\ ~request.notice =>
            request.timeout = IF Flags.timeout = Empty THEN cfg[Timeout] ELSE Flags.timeout
       /\ IF named THEN todo \union DOMAIN posted \subseteq Flags.transports
          ELSE Flags.transports # {} /\ own # {} => todo \union DOMAIN posted \subseteq own

(* daemon.startTransports: "A single messenger being down must not take    *)
(* the whole daemon with it: the human can still be reached on the other   *)
(* one."  An ask that names no messenger reaches the one that is up.       *)
OneDownIsTolerated == Flags.transports = Empty => why # "unavailable"
=============================================================================
