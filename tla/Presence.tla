----------------------------- MODULE Presence -----------------------------
(***************************************************************************)
(* Where a question goes: internal/channel/channel.go and the gate that    *)
(* `ask` and `notify` put before the daemon (cli/channel.go, cli/ask.go),  *)
(* down to the exit code the agent branches on.                            *)
(*                                                                         *)
(* One human leaves, returns and becomes unavailable while agents ask.     *)
(* All they share is the marker file.  The clock counts half seconds: the  *)
(* Away marker holds whole seconds, the AFK marker exact times.            *)
(***************************************************************************)
EXTENDS Naturals

CONSTANTS
  Invocations,  \* the runs of `ask` and `notify`
  Windows,      \* the arguments of --for, in half seconds; 0 is no --for
  MaxTime       \* bound: the last half second

ASSUME PresenceAssumption == Windows \subseteq Nat /\ MaxTime \in Nat

VARIABLES
  now,       \* the clock, in half seconds
  marker,    \* the marker file, as ReadMarker returns it
  said,      \* what the human last declared (history)
  at,        \* where each invocation is
  kind,      \* ask or notify
  fallback,  \* the invocations with --default
  decision,  \* how each invocation was routed
  reached,   \* the invocations that talked to the daemon
  outcome,   \* what the daemon made of the question
  exit,      \* the exit code
  stdout     \* what was printed for the agent

markerVars == <<marker, said>>
cliVars    == <<at, kind, fallback, decision, reached, outcome, exit, stdout>>
vars       == <<now, markerVars, cliVars>>

Policies == {"messenger", "terminal", "auto"}
Unset    == "unset"
Settings == Policies \union {Unset}
(* HITL_CHANNEL with nothing but blanks: it is set, and names no policy. *)
Blank    == "blank"
(* No expiry: the zero time. *)
Never    == 0
Start    == 2

Absent == [set |-> FALSE, afk |-> FALSE, malformed |-> FALSE, until |-> Never]
Holds(until) == until = Never \/ now < until

(* Marker.ActiveAFK, Marker.Away: a marker that does not parse is in force. *)
ActiveAFK(m) == m.set /\ m.afk /\ (m.malformed \/ Holds(m.until))
Away(m)      == m.set /\ ~m.afk /\ (m.malformed \/ Holds(m.until))

Unrouted == [policy |-> Unset, channel |-> "none", first |-> Unset, human |-> "none"]

Init ==
  /\ now = Start
  /\ marker = Absent
  /\ said = [mode |-> "here", until |-> Never]
  /\ at = [i \in Invocations |-> "none"]
  /\ kind = [i \in Invocations |-> "ask"]
  /\ fallback = {}
  /\ decision = [i \in Invocations |-> Unrouted]
  /\ reached = {}
  /\ outcome = [i \in Invocations |-> "none"]
  /\ exit = [i \in Invocations |-> "none"]
  /\ stdout = [i \in Invocations |-> "nothing"]

-----------------------------------------------------------------------------
(* The human (newAwayCommand, newAFKCommand, newHereCommand).  A marker is *)
(* replaced by a rename, so a reader sees the old one or the new one.      *)

Until(w) == IF w = 0 THEN Never ELSE now + w

Declare(mode, m, until) ==
  /\ marker' = m
  /\ said' = [mode |-> mode, until |-> until]
  /\ UNCHANGED <<now, cliVars>>

(* WriteMarker, with the expiry truncated to the second. *)
SayAway(w) ==
  Declare("away",
          [set |-> TRUE, afk |-> FALSE, malformed |-> FALSE, until |-> 2 * (Until(w) \div 2)],
          Until(w))

(* The AFK marker in the format of the Away marker. *)
SayAFKInSeconds(w) ==
  Declare("afk",
          [set |-> TRUE, afk |-> TRUE, malformed |-> FALSE, until |-> 2 * (Until(w) \div 2)],
          Until(w))

SayAFK(w) ==
  Declare("afk",
          [set |-> TRUE, afk |-> TRUE, malformed |-> FALSE, until |-> Until(w)],
          Until(w))

(* ClearMarker clears either. *)
SayHere == Declare("here", Absent, Never)

(* The file is made to be read and edited by hand; what does not parse     *)
(* still says that the human left.                                         *)
Scribble(afk) ==
  Declare(IF afk THEN "afk" ELSE "away",
          [set |-> TRUE, afk |-> afk, malformed |-> TRUE, until |-> Never],
          Never)

Tick ==
  /\ now < MaxTime
  /\ now' = now + 1
  /\ UNCHANGED <<markerVars, cliVars>>

-----------------------------------------------------------------------------
(* The gate (resolveChannel, channel.Resolve, enforceChannel).             *)

(* The loader overlays HITL_CHANNEL on the file: a route does not know it. *)
ConfiguredByRoute(env, route, file) ==
  IF route # Unset THEN route ELSE IF env # Unset THEN env ELSE file

(* cfg.Channel, or the route of the workspace unless HITL_CHANNEL is set. *)
Configured(env, route, file) ==
  LET channel == IF env # Unset THEN env ELSE file
  IN  IF env = Unset /\ route # Unset THEN route ELSE channel

PolicyOf(flag, configured) ==
  IF flag # Unset THEN flag
  ELSE IF configured \notin {Unset, Blank} THEN configured ELSE "messenger"

(* --channel names the channel outright. *)
ChannelByFlag(policy, m) ==
  IF policy # "auto" THEN policy
  ELSE IF ActiveAFK(m) THEN "afk"
  ELSE IF Away(m) THEN "messenger" ELSE "terminal"

(* Resolve: an active AFK comes first, then the policy, then the marker. *)
ChannelOf(policy, m) ==
  IF ActiveAFK(m) THEN "afk"
  ELSE IF policy # "auto" THEN policy
  ELSE IF Away(m) THEN "messenger" ELSE "terminal"

(* What README.md, "Route questions by presence", promises: the first of   *)
(* the settings that is there, and the default if that one is blank.       *)
FirstOf(settings) ==
  LET first == CHOOSE n \in DOMAIN settings :
                 /\ settings[n] # Unset
                 /\ \A k \in 1..(n - 1) : settings[k] = Unset
  IN IF (\A n \in DOMAIN settings : settings[n] = Unset) \/ settings[first] = Blank
     THEN "messenger" ELSE settings[first]

(* What the human's last declaration amounts to now; "leaving" is the last *)
(* second of an Away marker, which the file may already have lost.         *)
HumanIs ==
  IF said.mode = "here" \/ ~Holds(said.until) THEN "here"
  ELSE IF said.mode = "away" /\ said.until # Never /\ said.until - now < 2 THEN "leaving"
  ELSE said.mode

Leave(i, code, text) ==
  /\ at' = [at EXCEPT ![i] = "exited"]
  /\ exit' = [exit EXCEPT ![i] = code]
  /\ stdout' = [stdout EXCEPT ![i] = text]

(* A route is only known when Herdr named the workspace: route is then     *)
(* what config.toml has for it, and Unset otherwise.                       *)
Route(i, k, default, flag, env, route, file) ==
  LET policy  == PolicyOf(flag, Configured(env, route, file))
      channel == ChannelOf(policy, marker)
  IN  /\ at[i] = "none"
      /\ kind' = [kind EXCEPT ![i] = k]
      /\ k = "notify" => ~default
      /\ fallback' = IF default THEN fallback \union {i} ELSE fallback
      /\ decision' = [decision EXCEPT ![i] =
           [policy |-> policy, channel |-> channel,
            first |-> FirstOf(<<flag, env, route, file>>), human |-> HumanIs]]
      /\ \/ /\ channel = "messenger"
            /\ at' = [at EXCEPT ![i] = "routed"]
            /\ UNCHANGED <<exit, stdout>>
         \/ channel = "terminal" /\ Leave(i, "terminal", "nothing")
         \/ channel = "afk" /\ Leave(i, "afk", "nothing")
      /\ UNCHANGED <<now, markerVars, reached, outcome>>

(* A bad configuration or --channel, before the gate; a bad question       *)
(* behind it (askOptions.build).                                           *)
Misuse(i) ==
  /\ at[i] \in {"none", "routed"}
  /\ Leave(i, "usage", "nothing")
  /\ UNCHANGED <<now, markerVars, kind, fallback, decision, reached, outcome>>

-----------------------------------------------------------------------------
(* The question (connect, runAsk, runNotify).                              *)

(* The marker cannot be read, or no daemon can be started or reached. *)
Fail(i) ==
  /\ at[i] \in {"none", "routed"}
  /\ Leave(i, "error", "nothing")
  /\ UNCHANGED <<now, markerVars, kind, fallback, decision, reached, outcome>>

Send(i) ==
  /\ at[i] = "routed"
  /\ at' = [at EXCEPT ![i] = "waiting"]
  /\ reached' = reached \union {i}
  /\ UNCHANGED <<now, markerVars, kind, fallback, decision, outcome, exit, stdout>>

(* Ctrl-C, on the way or while waiting. *)
Interrupt(i) ==
  /\ at[i] \in {"routed", "waiting"}
  /\ Leave(i, "canceled", "nothing")
  /\ UNCHANGED <<now, markerVars, kind, fallback, decision, reached, outcome>>

(* The outcomes of an ask: the broker's three, an error it reports, and a  *)
(* connection that is lost with the daemon.                                *)
Outcomes == {"answered", "timeout", "canceled", "failed", "lost"}

(* --default stands in for any answer that did not come. *)
AskEndsWithDefault(i, o) ==
  /\ at[i] = "waiting" /\ kind[i] = "ask"
  /\ outcome' = [outcome EXCEPT ![i] = o]
  /\ \/ o = "answered" /\ Leave(i, "ok", "answer")
     \/ o # "answered" /\ i \in fallback /\ Leave(i, "ok", "default")
     \/ o # "answered" /\ i \notin fallback /\ Leave(i, o, "nothing")
  /\ UNCHANGED <<now, markerVars, kind, fallback, decision, reached>>

AskEnds(i, o) ==
  /\ at[i] = "waiting" /\ kind[i] = "ask"
  /\ outcome' = [outcome EXCEPT ![i] = o]
  /\ \/ o = "answered" /\ Leave(i, "ok", "answer")
     \/ o = "timeout" /\ i \in fallback /\ Leave(i, "ok", "default")
     \/ o = "timeout" /\ i \notin fallback /\ Leave(i, "timeout", "nothing")
     \/ o = "canceled" /\ Leave(i, "canceled", "nothing")
     \/ o \in {"failed", "lost"} /\ Leave(i, "error", "nothing")
  /\ UNCHANGED <<now, markerVars, kind, fallback, decision, reached>>

NotifyEnds(i, o) ==
  /\ at[i] = "waiting" /\ kind[i] = "notify"
  /\ outcome' = [outcome EXCEPT ![i] = o]
  /\ Leave(i, IF o = "delivered" THEN "ok" ELSE "error", "nothing")
  /\ UNCHANGED <<now, markerVars, kind, fallback, decision, reached>>

-----------------------------------------------------------------------------
HumanStep ==
  \/ SayHere
  \/ \E w \in Windows : SayAway(w) \/ SayAFK(w)
  \/ \E afk \in BOOLEAN : Scribble(afk)

CliStep(i) ==
  \/ \E k \in {"ask", "notify"}, default \in BOOLEAN,
        flag \in Settings, env \in Settings \union {Blank}, route \in Settings, file \in Settings :
       Route(i, k, default, flag, env, route, file)
  \/ Misuse(i) \/ Fail(i) \/ Send(i) \/ Interrupt(i)
  \/ \E o \in Outcomes : AskEnds(i, o)
  \/ \E o \in {"delivered", "failed", "lost"} : NotifyEnds(i, o)

Next == Tick \/ HumanStep \/ \E i \in Invocations : CliStep(i)

Spec == Init /\ [][Next]_vars

-----------------------------------------------------------------------------
Channels == {"messenger", "terminal", "afk"}

(* The state of the gate always has its type: Resolve never returns "auto" *)
(* (channel.go: Auto), and the marker file is one that the commands or a   *)
(* hand write.                                                             *)
TypeOK ==
  /\ now \in Nat
  /\ marker \in [set : BOOLEAN, afk : BOOLEAN, malformed : BOOLEAN, until : Nat]
  /\ said \in [mode : {"here", "away", "afk"}, until : Nat]
  /\ at \in [Invocations -> {"none", "routed", "waiting", "exited"}]
  /\ kind \in [Invocations -> {"ask", "notify"}]
  /\ fallback \subseteq Invocations /\ reached \subseteq Invocations
  /\ decision \in [Invocations ->
       [policy : Settings, channel : Channels \union {"none"}, first : Settings,
        human : {"none", "here", "away", "leaving", "afk"}]]
  /\ outcome \in [Invocations -> Outcomes \union {"none", "delivered"}]
  /\ exit \in [Invocations -> {"none", "ok", "error", "usage", "timeout", "canceled",
                               "terminal", "afk"}]
  /\ stdout \in [Invocations -> {"nothing", "answer", "default"}]

(* The marker file means what the human last said: AFK to the moment, Away *)
(* but for its last second (WriteMarker, WriteAFKMarker and ReadMarker, as *)
(* one replaces the other's file).                                         *)
MarkerMeansWhatWasSaid ==
  /\ ActiveAFK(marker) <=> HumanIs = "afk"
  /\ HumanIs = "away" => Away(marker)
  /\ Away(marker) => HumanIs \in {"away", "leaving"}

(* A human who is AFK when an invocation is routed never hears of it: no   *)
(* flag, setting or malformed marker gets a question past the gate         *)
(* (README.md: "Active AFK overrides explicit and configured channels").   *)
NothingReachesAFK ==
  \A i \in Invocations :
    decision[i].human = "afk" =>
      i \notin reached /\ exit[i] = "afk" /\ stdout[i] = "nothing"

(* A question goes out only when the settings say so or the human is away, *)
(* and an agent is sent back to its terminal only when they say so or the  *)
(* human is there (ADR 0004: otherwise that "strands the run with no       *)
(* delivered Question").  The first of --channel, HITL_CHANNEL, the        *)
(* workspace route and the file decides, whatever the loader has merged.   *)
SettingsDecide ==
  /\ \A i \in reached :
       \/ decision[i].first = "messenger"
       \/ decision[i].first = "auto" /\ decision[i].human \in {"away", "leaving"}
  /\ \A i \in Invocations :
       exit[i] = "terminal" =>
         \/ decision[i].first = "terminal"
         \/ decision[i].first = "auto" /\ decision[i].human \in {"here", "leaving"}

(* Exit code 0 of an ask, on which an agent acts, means that a human       *)
(* answered, or that the deadline passed and --default allowed it; a       *)
(* refusal, a cancel or an interrupt never does (cli.go: exit codes).      *)
ZeroMeansDecided ==
  \A i \in Invocations :
    exit[i] = "ok" /\ kind[i] = "ask" =>
      \/ outcome[i] = "answered" /\ stdout[i] = "answer"
      \/ outcome[i] = "timeout" /\ i \in fallback /\ stdout[i] = "default"
=============================================================================
