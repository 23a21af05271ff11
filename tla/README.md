# herdr-hitl, verified

`herdr-hitl` lets a coding agent ask a human a question and block until there is
an answer. The CLI sends the question over a local socket to one resident daemon
per machine, the daemon posts it on Telegram and Discord, and the first answer,
the deadline, a cancel or the asker's Ctrl-C decides it. This directory holds
TLA+ models of that program, the TLC configurations that check them, and theorems
that TLAPS proves about them. All definitions are translated from the Go source;
`PROJECT.json` names the lines each of them stands for.

## The parts of the system

| part | source | state it keeps | operations | modelled in |
|---|---|---|---|---|
| broker | `hitl/broker.go` | the messengers, the pending entries, who answered each (`sync.Once`), a ring of finished ids | `Register`, `Submit`, `Notify`, `Resolve`, `Cancel`, `Pending` | `Broker`, `AnswerOnce` |
| Telegram transport | `transport/telegram/` | posted questions under two keys, the kind of chat, the receive loop | `Start`, `Post`, `Settle`, presses, messages, replies, prune, 409 | `Telegram`, `Messenger` |
| Discord transport | `transport/discord/` | posted questions, the gateway session | `Start`, `Close`, `Post`, `Settle`, clicks, modals, messages | `Discord`, `Messenger` |
| daemon lifecycle | `daemon/daemon.go`, `ensure.go`, `lock_unix.go`, `ipc/endpoint_unix.go` | the lifetime lock, the socket file, the listener, the transports, the spawn lock, the log | `Run`, `EnsureRunning`, `daemon start/stop/restart` | `Daemon` |
| the lock on Windows | `daemon/lock_windows.go`, `ipc/endpoint_windows.go` | the lock file, its age, the handle on it, the pipe | `acquireLock`, `release`, listen, a kill | `LockFile`, `OneHolder` |
| service and server | `daemon/service.go`, `ipc/server.go` | calls in flight, idle time, stop channel, the goroutines that set pane tokens | one per protocol operation, `watchIdle`, `Serve` | `Service` |
| presence and the gate | `channel/channel.go`, `cli/channel.go`, `cli/ask.go`, `cli/cli.go` | the marker file | `away`, `afk`, `here`, `Resolve`, `ask`, `notify`, exit codes | `Presence` |
| settings | `config/config.go`, `dotenv.go` | file, `.env`, environment | `LoadFrom`, `applyEnv`, `Validate`, `DefaultTransports` | `Settings` |
| layout | `telegram/render.go`, `discord/message.go` | - | rows of controls, cutting a text, making room for the outcome | `Layout` |
| one request | `cli/ask.go`, `hitl/hitl.go`, `daemon/service.go`, the transports | the request on its way, its messages, the answer | build, complete, validate, post, press, type, settle, print | `Ask` |
| the rest | `paths`, `doctor`, `install`, `version` | - | - | not modelled |

How they interact. A CLI process runs the gate (`Presence`), makes sure a daemon
runs and dials it (`Daemon`), and holds one connection open for one call
(`Service`); the open connection is the only sign that it is still there. The
service calls the broker (`Broker`), the broker calls each transport's `Post` and
`Settle`, and the transports call back `Lookup` and `Resolve` from goroutines of
their own (`Telegram`, `Discord`). What a request contains, under whose settings,
and what becomes of it in the chats, is in `Ask`. Everything is in memory: a killed daemon
forgets its questions, and their messages stay in the chats.

What is hard, and what must hold:

* **Broker.** Two messengers, the CLI, the timer and the hang-up race for one
  question; messengers fail while posting and while settling; the entry is used
  after the lock under which it was found is released. *One decision, the one
  whose author was told "accepted" is the one the agent gets, late callers are
  told the truth, buttons are settled before the agent continues, an ask returns.*
* **Transports.** A question is visible before it is remembered; its author may
  answer by button, by reply or by a plain message that has to be matched; the
  question may be decided between the lookup and the answer; API calls fail
  half-way; a daemon dies and its buttons stay. *Open questions stay routable,
  finished ones lose their buttons, a reply never answers another question, nobody
  is told something that did not happen.*
* **Daemon.** Several CLIs start daemons at once; one ends while the next starts;
  one is killed. *Never two pollers of one bot token, a serving daemon is never
  cut off from its socket file, a stop strands no ask and ends.*
* **Service.** Hang-ups, silent clients, an idle watchdog that races new calls, a
  best-effort Herdr. *The idle time is counted from the last call, a hung-up ask
  ends, every client that stayed is answered, no pane token outlives the daemon.*
* **Lock file.** On Windows a lock is a file that looks abandoned after a while,
  although its owner may live, and that a killed owner leaves behind. *Never two
  holders; an abandoned file does not keep everyone out.*
* **Request.** Three layers of settings in two processes, one of which may have
  read them long ago; two limits on the length of a text in two units; controls
  that carry an index. *The answer that is printed is the control that was used,
  what passed the checks fits the messenger, the asker's settings decide.*
* **Presence.** One marker file with two meanings and two time formats, four
  settings with a precedence. *AFK stops everything, an agent is sent to its
  terminal only for a reason, exit 0 is never a refusal.*

## Modules

`AnswerOnce` is the abstract promise of the broker: a question is decided at most
once, by one human or by the wait; its asker gets that decision or a failure;
humans are told what became of their attempt. It has no threads, messengers or
ring.

`Broker` is the broker at the grain of its synchronisation: one step per critical
section of `Broker.mu`, per `sync.Once`, per channel receive, per return of a
messenger call. `pc[r]` is the Submit (or Notify) of question `r`, `leg[r][p]` the
goroutine that posts or settles it on messenger `p`, `done[r]` the entry's `once`
and `resolved`, `call[c]` one call of Resolve or Cancel. `retired` is a history
variable. `Promise == INSTANCE AnswerOnce WITH ...` is the refinement mapping:
`decision` is `done`, `outcome` is what Submit has returned, `told` is the verdict
of each call.

`Messenger` is what the broker, the agent and the humans may rely on, whichever
messenger it is. A question appears only while it is asked and only where somebody
can answer it. A typed answer can reach it from the moment it is delivered until it
is decided, and not after it is closed. The first answer that is matched to it
decides it, and is not taken back. The controls of a delivered question are gone
when it is closed, or its Settle reported an error. A question that was slow to
reach all its messengers is excepted: it may be forgotten while it is open, and its
controls may stay without a report. A daemon that dies forgets all but the messages.
There are no maps, handlers, chats or clock in it.

`Telegram` and `Discord` see the broker through `Poster` and `Resolver`: `phase`
and `winner` are what Submit and `entry.once` look like from there. `message` and
`content`/`controls` are the chat itself, `posted` (and `byMessage`) the maps the
transport keeps, `update` the clicks and messages of humans on their way through
`handleCallback`, `handleMessage`, `onComponent`, `onModalSubmit` and `onMessage`.
A human may press a button that is in the chat at any time, also of a question
that is over, and type with or without replying. Posting takes any time. What Telegram
makes *slow* is a question with a timeout whose fan-out took the grace period or longer
(`Overdue`): it is remembered from its creation on, while its timer starts after the
fan-out. `Close` comes after the asks are drained; handlers that are under way go on.
`Chat == INSTANCE Messenger WITH
...` is the refinement mapping of each, `ImplementsMessenger` says it is one.

`Daemon` follows each `Run` from the lock to its deferred calls in the order Go
runs them, each CLI from its probe through the spawn lock to its dial and its
answer, and the socket file as one variable, `path`: the daemon that bound it.
A kill may come at any step and releases the lock but not the file. Any call of `Run`
up to the transports may fail, which ends it with a fatal line in the log (`Fail`).

`Service` is one daemon from the listener to the end of `Run`: `at[c]` is the
handler of connection `c`, `inflight` and `idleFrom` what `enter` counts, `watch`
the watchdog between its check and its stop, `herdr[c]` the goroutine of
`trackPane`, `token[p]` what pane `p` shows. The broker appears as its promise (an
ask is decided once). A call of Herdr may fail, with or without having had its
effect.

`Presence` is the human with the marker file and the CLI with its gate. The clock
counts half seconds because the Away marker is written in whole seconds and the
AFK marker exactly. `said` is a history variable: what the human last declared.

`OneHolder` is a lock that at most one process holds. `LockFile` is what
`lock_windows.go` makes of a file, its modification time and the rule that a file
with an open handle cannot be removed; `Lock == INSTANCE OneHolder WITH ...`.

`Settings` is `internal/config` as operators: a setting in the file, in `.env` and
in the environment under one or two names, what is loaded from them, what is valid
and which messengers an ask uses by default. `Layout` is what the messengers make
of a question, as operators on lengths: rows of controls with the index each
carries, the cost of a text in the units of the platform, where it is cut and the
room kept for the outcome. `Ask` extends both and follows one request through all
of the program: `Build` under the asker's settings, `Receive` under the daemon's,
`Submit`, the posts with their uploads, a press, a typed message, `answer`, a
cancel or the deadline, `Settle` and `Report`. Files may disappear on the way.

`BrokerProofs`, `TelegramProofs`, `DiscordProofs`, `DaemonProofs`,
`LockFileProofs`, `ServiceProofs`, `PresenceProofs` and `AskProofs` hold the
theorems. `MCBroker`, `MCTelegram`, `MCDiscord`, `MCDaemon`, `MCLockFile`,
`MCService`, `MCPresence` and `MCAsk` declare the model values and the inputs of
the instances.

No module is a composition of these with all their state: the product is out of
TLC's reach. They are tied by their interfaces instead. What `Telegram`, `Discord`
and `Service` assume of the broker (a question can be looked up from Submit to
retire, its first answer wins, an ask is decided once) is what `AnswerOnce` says
and `Broker` is proved to implement. What `Broker` assumes of a messenger (it may
show the question and still fail, it may answer before Post returns, its Settle
may fail) is in `Messenger`, which both transports are proved to implement; what
they assume of its calls to them is `MessengersMayRely`. That Serve ends when its
asks are canceled, which `Daemon` uses, is `StopEndsService`; that one process
holds the lifetime lock is `RunsAreAlone` on Unix and `ImplementsLock` on Windows.

## What the runs show

| run | instance | result |
|---|---|---|
| `broker_race` | 1 question with a timeout, 2 messengers, 2 clicks, 2 cancels, hang-up, failing posts and settles, ring of 1, fair | `TypeOK`, `AcceptedIsReturned`, `SettledBeforeReturn`, `ImplementsPromise` and, under fairness, `AskReturns` hold |
| `broker_ring` | 3 questions, one without a timeout, 1 messenger, 1 click, 1 cancel, ring of 2 | `RecentIsLastRetired`, `LateCallerIsTold` hold while the ring wraps |
| `telegram_chat` | 2 questions (one with buttons and a timeout), a press, a message or reply, chat or channel, posts of any length, 409, close, a crash | `TypeOK`, `ToldTheTruth`, `OpenReplyIsAuthoritative`, `ImplementsMessenger` hold |
| `discord_channel` | 2 questions (one with buttons), a click or modal, a message or reply, a crash | `TypeOK`, `ReplyIsAuthoritative`, `TurnedAwayIsOut`, `ImplementsMessenger` hold |
| `discord_outcome` | 1 question, 2 clicks | `OutcomeIsShown` is violated (finding) |
| `daemon_one` | 3 daemons, 1 kill, 2 CLI processes, fair | `TypeOK`, `OneDaemonPolls`, `ServingIsReachable`, `CleanExit`, `StrandsNobody`, `StopEnds` hold |
| `daemon_restart` | 2 daemons, 2 CLI processes, no kill | `RedundantMeansRunning` is violated (finding) |
| `lock_file` | 3 processes, a stale age of 1 tick, 4 ticks, kills at any step, fair attempts | `TypeOK`, `ImplementsLock` and, under fairness, `AbandonedIsTaken` hold |
| `service_stop` | 2 connections of any kind, 1 pane, idle window of 1 tick, fair | `TypeOK`, `ClearedAtExit`, `EveryCallIsAnswered`, `IdleMeansQuiet`, `HangUpWithdraws`, `StopEndsService` hold |
| `presence_gate` | 1 invocation, all 320 combinations of settings, a blank `HITL_CHANNEL` among them, windows of 0 to 3 half seconds, 3 seconds of clock | `TypeOK`, `MarkerMeansWhatWasSaid`, `NothingReachesAFK`, `SettingsDecide`, `ZeroMeansDecided` hold |
| `ask_path` | 972 requests in families: choices, lengths, labels, uploads, names, layers of settings, a stale daemon, one messenger down | `TypeOK`, `AnswerIsThePressed`, `FitsTheMessenger`, `SentAsAsked` hold |
| `ask_degraded` | 1 request, one of its two messengers down | `OneDownIsTolerated` is violated (finding) |

Every property of a passing run has a mutant: a definition of the model changed
the way a bug would change the code (the second answer wins, the ring forgets to
evict, no lifetime lock, the Away format for the AFK marker, ...) under which the
same run fails.

### Findings

* **A lost click rewrites the outcome on Discord** (`discord_outcome`).
  The message is rewritten as answered before the broker is asked, so a click
  that loses leaves its own answer in the channel.
* **A restart may leave no daemon** (`daemon_restart`). A daemon that is shutting
  down still holds the lifetime lock after its socket file is gone; one spawned
  then exits quietly as redundant, and `EnsureRunning` waits out its 15 seconds with the
  spawn lock in its hand. `RedundantMeansRunning` asks for no more than a daemon that
  owns the endpoint or is about to. The run ends where there is none: the old one has
  closed its listener, the new one is gone.
* **One messenger down refuses an ask** (`ask_degraded`). An ask that names no
  messenger carries the names of all that are enabled, and one that did not start
  makes `selectPosters` refuse it, although the daemon was kept up for the others.

Divergences that were met while modelling and have no run of their own:

* A reply to a Telegram message that is not tracked (settled, or of a dead daemon)
  is matched like any message and may answer the only other open question, though
  the comment calls a reply authoritative (`handlers.go:145` and `:137`).
* `--free=false` is not enforced on Discord: a typed message answers
  (`discord.go:679`, `README.md:195`).
* One ask clears the pane token of another from the same pane (`service.go:251`).
* An answer accepted while a question is being posted is lost when every `Post`
  then fails: the ask fails (`broker.go:272`).
* A fan-out that takes the grace minute lets an open Telegram question be pruned
  (`telegram.go:354`). Nothing in the code bounds it: a request may take 70 seconds,
  and ten uploads run one after another. The buttons still work, a reply is matched
  like any message, and `Settle` leaves the keyboard. The contract calls such a
  question slow, so the properties are about all others.
* An ask that arrives between the watchdog's check and its stop is canceled at
  once (`service.go:322`).
* A killed daemon on Windows keeps others out until its file looks old, 30 seconds,
  while `EnsureRunning` waits 15 (`lock_windows.go:29`).
* A `HITL_` name in `.env` beats the bare name in the process environment, as each
  name is looked up in both layers before the next one (`config.go:233`, `:416`);
  `config.go:1` documents the precedence of the environment over `.env`. A boolean
  variable that does not parse resets what the file says.
* A `HITL_CHANNEL` of blanks counts as set and names no policy: it hides the route
  and the file, and the default applies (`config.go:249`).
* The CLI checks an ask without its attachments and a notice hardly at all, so
  their limits are reported by the daemon (`ask.go:101`).
* When the upload of a long body fails, the cut message still says that the full
  text is attached (`telegram.go:314`).
* `answer --choice` takes an id that no choice has; the answer then has no text
  (`hitl.go`, "Always populated").
* The fallback to the title alone (`render.go:162`) is said to be "only reachable with
  a pathological title". Names of failed uploads reach it as well: each is cut to 80
  characters and escaped afterwards, to up to 400 (`render.go:212`), so that ten of
  them outgrow a message. The body, the label, the id and the footer are then dropped
  without a word. `FitsTheMessenger` excludes more than five names in markup; with five,
  a title and a label at their limits leave room for the note, which the instance has
  as well as the six that do not.
* Only the title of a request is bounded. A label of more than 1661 characters under
  the longest title fills Discord's message, and the body is dropped without a word
  of it (`message.go:304`). `FitsTheMessenger` excludes such labels by name, and the
  instance has the last that leaves room and the next one.
* A responder's name is not cut in Discord's outcome; the platform keeps it short.

### Bounds, and why they are enough

* *Broker.* The races are about one question, so `broker_race` has one and every
  kind of actor twice. The ring relates several questions; three and two slots make
  it wrap and evict. Ids are unique because `NewID` is random, so a question is
  asked once. The safety properties of this module are also proved without bounds.
* *Telegram.* The clock has no unit: a timeout of 1, a grace period of 1 and 2 ticks
  let a question expire after both, and let one that took a tick to post be pruned
  while it waits. Two questions make matching ambiguous, one press and one message let
  a press race a reply.
* *Discord.* As Telegram without a clock: this transport does not prune.
* *Daemon.* Three daemons are a killed or ending one, its successor and a
  competitor; two CLIs contend for the spawn lock. The safety properties are also
  proved for any number of each.
* *Service.* Two connections are needed for the count to differ from a flag and
  for one to be in flight while the other ends; the two ticks of the clock let a
  call end after the idle time began. The pane is shared, the interesting case.
* *Lock file.* Three processes are an owner, the one that takes its file away and
  one that does so at the same time; a stale age of 1 and 4 ticks let a file grow
  old twice. The refinement is also proved for any number and any age.
* *Ask.* A text is a length and a script, which says what a character costs. The
  lengths are those around which a text is cut, refused or must leave room; the
  numbers of choices those around a row, a menu and the limit; sizes of files are
  in KiB. Labels have up to 200 characters, and around the 1661 that fill a message
  on Discord; names of files have 20 or 255, plain, wide or in markup, and a
  responder's name has 32 as on the platform. A family varies one part of the input
  while the rest is ordinary, as the parts meet only in the sums that `Layouts`,
  `Lengths`, `Uploads` and `Names` vary together. `TextLengths` is a short and a long answer.
* *Presence.* Invocations share only the marker, which they read once and never
  write, so one is enough; it sees every marker in every phase of its lapse, as a
  window of 3 half seconds ends in the middle of a second.

`CHECK_DEADLOCK FALSE` stands in every configuration but those of `Ask`: all
questions may be over, all daemons gone, all clocks at their bound. A request must
end as done or refused, so `Ask` has a step of its own for that and is checked for
deadlock.

### Fairness

Liveness assumes only what Go's scheduler and the deadlines in the code give:
goroutines that can run do run, a timer that is due fires, a messenger call
returns (each has a deadline), the server reads or drops a connection within
`readHeaderTimeout`, a Herdr call ends within `execTimeout`. No human has to
answer, no client to send or hang up, no operator to stop a daemon, no messenger
to succeed.

* `AskReturns`: the steps of each Submit, posts and settles included, are fair.
* `StopEnds`: a daemon's own steps are fair, and an ask whose context is canceled
  is answered (which `Broker` and `Service` show).
* `AbandonedIsTaken`: a process that has begun to try for the lock goes on to the
  end of its attempt. Nothing else is fair, not even the clock.
* `HangUpWithdraws`, `StopEndsService`: the handlers, the token goroutines and
  Run's own steps are fair.

## What is proved

TLC checks small instances; the theorems hold for every value of the constants.

* `BrokerProofs`. The inductive invariant is `IInv` of `Broker.tla`: an entry is in
  the map exactly while its Submit runs and `wait` returned what is in `done`
  (`EntryInv`); a call has a verdict exactly when it is over (`CallInv`); the
  accepted caller is the one named in `done` (`WinnerInv`); a leg is never ahead of
  its question (`LegInv`); the slot written *k* retirements ago holds the *k*-th
  last retired question (`RingInv`). None of the properties is inductive by itself:
  `AcceptedIsReturned` needs that nothing is written to `done` twice and that
  `result` is read from it, `RecentIsLastRetired` needs the arithmetic of the ring
  for every capacity. From it follow `TypeCorrect`, `AcceptedIsReturnedAlways`,
  `ReturnedWasAcceptedAlways`, `RecentIsLastRetiredAlways`,
  `LateCallerIsToldAlways`, `SettledBeforeReturnAlways` and `Implementation`: the
  broker implements `AnswerOnce`, each of its steps being a step of it or a stutter.
  `OneIsAccepted` adds that nobody else is told the same, also when the question
  fails afterwards. `MessengersMayRely` is the other side of the interface: it
  states as an action property what `Telegram` and `Discord` take for granted of the
  broker in `Ask`, `WaitReturns` and `Retire` (one Post and one Settle per question,
  the latter with the answer that decided, the entry known from before the one until
  after the other), and proves it for each of any number of messengers.
  Assumption: `BrokerAssumption` (the capacity is positive, names are distinct).
* `DaemonProofs`. `IInv` says who may hold the lock (`LockInv`), that transports are
  up only between start and close (`PollingInv`), which of the socket file and the
  listener belongs to whom at each step (`SocketInv`), and that a served client's
  daemon has not drained (`ServedInv`). It yields `OneDaemonPollsAlways`,
  `ServingIsReachableAlways`, `CleanExitAlways`, `StrandsNobodyAlways`, for any
  number of daemons, CLIs and kills. `RunsAreAlone` shows that the stretch of `Run`
  under the lifetime lock is a `OneHolder`, so both platforms have the same lock.
  Assumption: `DaemonAssumption`.
* `ServiceProofs`. `IInv` ties the count to the set of calls between enter and leave
  (`CountInv`, by cardinality), the idle time to the last of them (`IdleInv`), each
  token to a goroutine that still has to clear it (`TokenInv`), and the end of Run
  to the handlers that are done (`EndInv`). It yields `ClearedAtExitAlways`,
  `EveryCallIsAnsweredAlways` and the action property `IdleMeansQuietAlways`, for
  any number of calls and panes and any window. Assumption: `ServiceAssumption`.
* `TelegramProofs`. `QuestionInv` says what Submit, Post and Settle leave of a
  question at each step, `TimeInv` above all that a question which was posted is in
  the maps until it is settled, or is overdue: pruning counts from the creation of the
  request and the timer from the end of the fan-out, so what is pruned is over, or its
  fan-out took as long as the grace period (`OpenIsKept`). `UpdateInv`
  says what a press or message is bound to and what its author may have been told.
  They yield `TypeCorrect`, `ToldTheTruthAlways`, `OpenReplyIsAuthoritativeAlways`
  and `Implementation` (of `Messenger`), for any number of questions and humans and
  any durations of timeout, fan-out and grace period. Assumption: `TelegramAssumption`
  (the grace period is positive); nothing is assumed of how long a fan-out takes.
* `DiscordProofs`. The same shape without a clock: `QuestionInv` for what is kept
  of a question and what the channel shows, `UpdateInv` for what a click, a modal or
  a message may have decided or written. They yield `TypeCorrect`,
  `ReplyIsAuthoritativeAlways`, `TurnedAwayIsOutAlways` and `Implementation`.
  Assumption: `DiscordAssumption`.
* `LockFileProofs`. Whoever holds the lock has the file open (`HeldIsOpen`), which
  is why nobody can remove it, however old it looks. From it follow `TypeCorrect`
  and `Implementation` (of `OneHolder`). Assumption: `LockFileAssumption`.
* `PresenceProofs`. `MarkerInv` relates the file to what was said, with the second
  that is cut off; `RoutedInv` relates where an invocation went to what it read.
  `PolicyIsFirst` shows that the code's order of looking, after one setting was
  merged into another, takes the first one that is set. They yield `TypeCorrect`,
  `MarkerMeansWhatWasSaidAlways`, `NothingReachesAFKAlways`, `SettingsDecideAlways`
  and `ZeroMeansDecidedAlways`, for any number of invocations and any time.
  Assumption: `PresenceAssumption`.
* `AskProofs`. The invariant has five parts. `RequestInv` says what the request is
  at each step of its way: with `DeadlineIsSet` (a process always has a deadline, so
  that zero is no gap) it yields `SentAsAskedAlways`. `Targets` says that nothing is
  posted before the checks were passed and nothing twice to one messenger, `Shown`
  what each message may contain, and that one whose buttons are still there has
  room for the outcome, `Answered` what is known from the use of a control to the
  printed line. The last three are not inductive without each other; they yield
  `TypeCorrect`, `AnswerIsThePressedAlways` and `FitsTheMessengerAlways`. Two parts
  of the argument are about operators.
  *Rows.* `ButtonsCarry`, by arithmetic on rows and columns, and `DiscordRowsCarry`,
  for the free-text button that joins a row or starts one: each choice is shown by
  exactly one control, whose index leads back to it, and no other control leads to a
  choice (`Carries`). So for any number of choices that passes the checks, on both
  messengers, the label that was pressed is the label that is printed.
  *Cuts.* Discord cuts a body at a length it computes (`ContentFits`), Telegram at
  one it searches for. `SearchEquation` shows that the recursive search has a value
  and `SearchEnds` that it ends at a member of what fits, and at the last one if what
  fits is closed downwards. The cost of a prefix is not monotonic (a fence closed at
  once costs more than the same one closed where the body ends), so
  `TelegramTextFits` uses the first fact alone, and `TelegramKeepsTheLongest` shows
  that the last one is reached all the same: every longer beginning of the body
  would outgrow the message. Where the title alone is shown, no beginning would fit,
  not even the empty one; `TelegramFrameFits` shows, from what the title, the label and
  the names cost when escaped, that this takes more than five names that grow. On
  Discord the same is `DiscordKeepsTheMost`: a body that is cut with a word of it fills
  the message.
  Assumptions: `SettingsAssumption`, `MessengersAssumption`, `TextLengthsAssumption`,
  which type the inputs, and `CasesAssumption`, which also says that a daemon runs at
  least one messenger and only those its settings enable (`daemon.go:181-199`).

Every invariant and every action property that a passing run checks is a theorem,
and so are the four refinements they include. Only model-checked is liveness (`AskReturns`,
`StopEnds`, `AbandonedIsTaken`, `HangUpWithdraws`, `StopEndsService`): it needs
ENABLED, which the prover does not support.

The library's induction theorems take a predicate as a parameter, which the provers
cannot instantiate. Where a proof needs induction it is done in a set:
`SetInduction` of `AskProofs` shows that a set of naturals with 0 and all successors
of its members holds all naturals, from the well-foundedness of inclusion between
finite sets, and the predicate is the membership in a set that is defined for it.

## What is not modelled

* The flags with which a daemon is spawned, the parsing of command lines, TOML and
  `.env`, escaping and wording beyond what a length depends on, directories,
  `doctor`, `install`, `version`: I/O or text without a protocol.
* The wrap of a raw nanosecond count in `ipc.Duration` (`protocol.go:203`): only
  clients other than the CLI send that form.
* The wording of a child's log, and so the failure that is not recognised in it
  (`failure.go:67`).
* Toasts, and the lifetime Herdr gives a token of a finite ask: the model's token
  stays until it is cleared, which is the harder case. A kill is in `Daemon`, not in
  `Service`.
* Delivery twice of one Telegram update: the offset belongs to the bot library.
  Updates that wait on the server across a crash are modelled.

## What is next

1. A composition of `Broker` with one transport on one question, or of `Broker` with
   `Messenger` in the place of its posts.
2. The wrap of `ipc.Duration` at a small width, and the recognition of failures in
   the daemon's log.
3. Proofs: `Broker` as a `Messenger` towards each of its messengers. `Messenger` has
   neither an attempt that is matched and turns out blank, nor one that is accepted
   after its question failed, which `Broker` has.
