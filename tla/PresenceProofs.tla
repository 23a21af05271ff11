--------------------------- MODULE PresenceProofs ---------------------------
(***************************************************************************)
(* Proofs about Presence, for any number of invocations, any windows and   *)
(* any bound on the clock: the marker file means what was said, nothing    *)
(* passes the gate while the human is AFK, the settings rank as promised   *)
(* and exit code 0 of an ask is a decision.                                *)
(***************************************************************************)
EXTENDS Presence, TLAPS

(* What makes them inductive.                                              *)

(* The file holds what was said: the AFK time exactly, the Away time cut   *)
(* to its second, a file edited by hand no time at all.                    *)
MarkerInv ==
  /\ now >= Start
  /\ (said.mode = "here") <=> ~marker.set
  /\ marker.set => marker.afk = (said.mode = "afk")
  /\ marker.set /\ marker.malformed => said.until = Never
  /\ marker.set /\ ~marker.malformed =>
       /\ said.until = Never \/ said.until >= Start
       /\ marker.until = IF marker.afk THEN said.until ELSE 2 * (said.until \div 2)

(* The gate has decided exactly for those that left "none" through it, and *)
(* what it decided follows from the settings and from the human.           *)
RoutedInv(i) ==
  LET d == decision[i] IN
  /\ d.channel = "none" => d.human = "none" /\ i \notin reached
  /\ at[i] = "none" => d.channel = "none"
  /\ at[i] \in {"routed", "waiting"} => d.channel = "messenger" /\ exit[i] = "none"
  /\ at[i] = "none" => exit[i] = "none"
  /\ i \in reached => d.channel = "messenger"
  /\ d.channel = "messenger" =>
       /\ d.human # "afk"
       /\ d.first = "messenger" \/ (d.first = "auto" /\ d.human \in {"away", "leaving"})
  /\ d.channel = "terminal" =>
       /\ d.human # "afk"
       /\ d.first = "terminal" \/ (d.first = "auto" /\ d.human \in {"here", "leaving"})
  /\ d.channel = "afk" => exit[i] = "afk" /\ stdout[i] = "nothing" /\ at[i] = "exited"
  /\ exit[i] = "terminal" => d.channel = "terminal"

IInv ==
  /\ TypeOK
  /\ MarkerInv
  /\ \A i \in Invocations : RoutedInv(i)
  /\ ZeroMeansDecided

USE PresenceAssumption

(* Cutting to the second loses half a second at most. *)
LEMMA CutToTheSecond ==
  ASSUME NEW t \in Nat
  PROVE  2 * (t \div 2) \in Nat /\ 2 * (t \div 2) <= t /\ t <= 2 * (t \div 2) + 1
  OBVIOUS

-----------------------------------------------------------------------------
(* The gate.                                                               *)

(* The code asks in its own order, and after HITL_CHANNEL was merged into  *)
(* the file's value; it still takes the first setting that is there.       *)
LEMMA PolicyIsFirst ==
  ASSUME NEW flag \in Settings, NEW env \in Settings \union {Blank}, NEW route \in Settings,
         NEW file \in Settings
  PROVE  /\ PolicyOf(flag, Configured(env, route, file)) = FirstOf(<<flag, env, route, file>>)
         /\ FirstOf(<<flag, env, route, file>>) \in Policies
<1> DEFINE s == <<flag, env, route, file>>
           Is(n) == s[n] # Unset /\ \A k \in 1 .. (n - 1) : s[k] = Unset
<1>1. DOMAIN s = 1 .. 4 /\ s[1] = flag /\ s[2] = env /\ s[3] = route /\ s[4] = file
  OBVIOUS
<1>2. ASSUME NEW m \in 1 .. 4, Is(m)
      PROVE  FirstOf(s) = IF s[m] = Blank THEN "messenger" ELSE s[m]
  <2>1. \A n \in 1 .. 4 : Is(n) => n = m
    BY <1>2
  <2>2. (CHOOSE n \in 1 .. 4 : Is(n)) = m
    BY <1>2, <2>1
  <2> QED BY <1>1, <1>2, <2>2 DEF FirstOf
<1>3. CASE flag # Unset
  BY <1>1, <1>2, <1>3 DEF PolicyOf, Settings, Policies, Unset, Blank
<1>4. CASE flag = Unset /\ env # Unset
  <2>1. Is(2)
    BY <1>1, <1>4
  <2> QED BY <1>1, <1>2, <1>4, <2>1 DEF PolicyOf, Configured, Settings, Policies, Unset, Blank
<1>5. CASE flag = Unset /\ env = Unset /\ route # Unset
  <2>1. Is(3)
    BY <1>1, <1>5
  <2> QED BY <1>1, <1>2, <1>5, <2>1 DEF PolicyOf, Configured, Settings, Policies, Unset, Blank
<1>6. CASE flag = Unset /\ env = Unset /\ route = Unset /\ file # Unset
  <2>1. Is(4)
    BY <1>1, <1>6
  <2> QED BY <1>1, <1>2, <1>6, <2>1 DEF PolicyOf, Configured, Settings, Policies, Unset, Blank
<1>7. CASE flag = Unset /\ env = Unset /\ route = Unset /\ file = Unset
  BY <1>1, <1>7 DEF FirstOf, PolicyOf, Configured, Policies, Unset, Blank
<1> QED BY <1>3, <1>4, <1>5, <1>6, <1>7

(* What the marker in force says of the human. *)
LEMMA MarkerIsTrue ==
  ASSUME TypeOK, MarkerInv
  PROVE  /\ ActiveAFK(marker) <=> HumanIs = "afk"
         /\ HumanIs = "away" => Away(marker)
         /\ Away(marker) => HumanIs \in {"away", "leaving"}
<1> USE DEF TypeOK, MarkerInv, Start, Never
<1>1. said.until \in Nat /\ now \in Nat /\ said.mode \in {"here", "away", "afk"}
  OBVIOUS
<1>2. CASE ~marker.set
  BY <1>2 DEF ActiveAFK, Away, HumanIs
<1>3. CASE marker.set /\ marker.malformed
  BY <1>1, <1>3 DEF ActiveAFK, Away, HumanIs, Holds
<1>4. CASE marker.set /\ ~marker.malformed /\ marker.afk
  BY <1>1, <1>4 DEF ActiveAFK, Away, HumanIs, Holds
<1>5. CASE marker.set /\ ~marker.malformed /\ ~marker.afk
  <2> DEFINE cut == 2 * (said.until \div 2)
  <2>1. cut \in Nat /\ cut <= said.until /\ said.until <= cut + 1
    BY <1>1, CutToTheSecond
  <2>2. said.mode = "away" /\ marker.until = cut /\ (said.until = 0 \/ said.until >= 2)
    BY <1>1, <1>5
  <2> HIDE DEF cut
  <2>3. Away(marker) <=> (cut = 0 \/ now < cut)
    BY <1>5, <2>2 DEF Away, Holds
  <2>4. CASE said.until = 0
    BY <1>5, <2>1, <2>2, <2>3, <2>4 DEF ActiveAFK, HumanIs, Holds
  <2>5. CASE said.until >= 2
    <3>1. cut # 0
      BY <1>1, <2>1, <2>5
    <3> QED BY <1>1, <1>5, <2>1, <2>2, <2>3, <2>5, <3>1 DEF ActiveAFK, HumanIs, Holds
  <2> QED BY <2>2, <2>4, <2>5
<1> QED BY <1>2, <1>3, <1>4, <1>5

(* Where the gate sends an invocation, from the settings and the human. *)
LEMMA GateDecides ==
  ASSUME TypeOK, MarkerInv, NEW policy \in Policies, NEW channel,
         channel = ChannelOf(policy, marker)
  PROVE  /\ channel \in Channels
         /\ (channel = "afk") <=> (HumanIs = "afk")
         /\ channel = "messenger" =>
              policy = "messenger" \/ (policy = "auto" /\ HumanIs \in {"away", "leaving"})
         /\ channel = "terminal" =>
              policy = "terminal" \/ (policy = "auto" /\ HumanIs \in {"here", "leaving"})
<1>1. HumanIs \in {"here", "away", "leaving", "afk"}
  BY DEF HumanIs, TypeOK
<1> QED BY <1>1, MarkerIsTrue DEF ChannelOf, Policies, Channels

-----------------------------------------------------------------------------
(* The invariant.                                                          *)

LEMMA InitIInv == Init => IInv
  BY DEF Init, IInv, TypeOK, MarkerInv, RoutedInv, ZeroMeansDecided, Start, Never, Absent,
         Unrouted, Settings, Policies, Unset, Channels

(* What the human does changes the marker and what was said, together. *)
LEMMA HumanKeeps == IInv /\ HumanStep => IInv'
<1> SUFFICES ASSUME IInv, HumanStep PROVE IInv'
  OBVIOUS
<1>1. ASSUME NEW mode \in {"here", "away", "afk"}, NEW m, NEW until \in Nat,
             Declare(mode, m, until),
             m \in [set : BOOLEAN, afk : BOOLEAN, malformed : BOOLEAN, until : Nat],
             MarkerInv'
      PROVE  IInv'
  <2>1. TypeOK'
    BY <1>1 DEF IInv, TypeOK, Declare, cliVars
  <2> QED BY <1>1, <2>1 DEF IInv, RoutedInv, ZeroMeansDecided, Declare, cliVars
<1>2. now \in Nat /\ now >= 2
  BY DEF IInv, TypeOK, MarkerInv, Start
<1>3. CASE SayHere
  <2>1. MarkerInv'
    BY <1>2, <1>3 DEF SayHere, Declare, MarkerInv, Absent, Never, Start
  <2> QED BY <1>1, <1>3, <2>1 DEF SayHere, Absent, Never
<1>4. ASSUME NEW w \in Windows PROVE Until(w) \in Nat /\ (Until(w) = 0 \/ Until(w) >= 2)
  BY <1>2, <1>4 DEF Until, Never
<1>5. ASSUME NEW w \in Windows, SayAway(w) PROVE IInv'
  <2>1. 2 * (Until(w) \div 2) \in Nat
    BY <1>4, CutToTheSecond
  <2>2. MarkerInv'
    BY <1>2, <1>4, <1>5 DEF SayAway, Declare, MarkerInv, Never, Start
  <2> QED BY <1>1, <1>4, <1>5, <2>1, <2>2 DEF SayAway
<1>6. ASSUME NEW w \in Windows, SayAFK(w) PROVE IInv'
  <2>1. MarkerInv'
    BY <1>2, <1>4, <1>6 DEF SayAFK, Declare, MarkerInv, Never, Start
  <2> QED BY <1>1, <1>4, <1>6, <2>1 DEF SayAFK
<1>7. ASSUME NEW afk \in BOOLEAN, Scribble(afk) PROVE IInv'
  <2>1. MarkerInv'
    BY <1>2, <1>7 DEF Scribble, Declare, MarkerInv, Never, Start
  <2> QED BY <1>1, <1>7, <2>1 DEF Scribble, Never
<1> QED BY <1>3, <1>5, <1>6, <1>7 DEF HumanStep

LEMMA TickKeeps == IInv /\ Tick => IInv'
  BY DEF Tick, IInv, TypeOK, MarkerInv, RoutedInv, ZeroMeansDecided, markerVars, cliVars, Start

(* The gate itself. *)
LEMMA RouteKeeps ==
  ASSUME IInv, NEW i \in Invocations, NEW k \in {"ask", "notify"}, NEW default \in BOOLEAN,
         NEW flag \in Settings, NEW env \in Settings \union {Blank}, NEW route \in Settings,
         NEW file \in Settings, Route(i, k, default, flag, env, route, file)
  PROVE  IInv'
<1> DEFINE policy  == PolicyOf(flag, Configured(env, route, file))
           channel == ChannelOf(policy, marker)
           first   == FirstOf(<<flag, env, route, file>>)
           d       == [policy |-> policy, channel |-> channel, first |-> first, human |-> HumanIs]
<1>1. policy = first /\ policy \in Policies
  BY PolicyIsFirst
<1> HIDE DEF policy, first
<1>2. /\ channel \in Channels
      /\ (channel = "afk") <=> (HumanIs = "afk")
      /\ channel = "messenger" =>
           policy = "messenger" \/ (policy = "auto" /\ HumanIs \in {"away", "leaving"})
      /\ channel = "terminal" =>
           policy = "terminal" \/ (policy = "auto" /\ HumanIs \in {"here", "leaving"})
  BY <1>1, GateDecides DEF IInv
<1> HIDE DEF channel
<1>3. HumanIs \in {"here", "away", "leaving", "afk"}
  BY DEF HumanIs, IInv, TypeOK
<1>4. /\ at[i] = "none" /\ kind' = [kind EXCEPT ![i] = k]
      /\ fallback' \in {fallback, fallback \union {i}}
      /\ decision' = [decision EXCEPT ![i] = d]
      /\ UNCHANGED <<now, marker, said, reached, outcome>>
  BY DEF Route, policy, channel, first, markerVars
<1>5. \/ /\ channel = "messenger" /\ at' = [at EXCEPT ![i] = "routed"]
         /\ UNCHANGED <<exit, stdout>>
      \/ /\ channel \in {"terminal", "afk"}
         /\ at' = [at EXCEPT ![i] = "exited"]
         /\ exit' = [exit EXCEPT ![i] = channel]
         /\ stdout' = [stdout EXCEPT ![i] = "nothing"]
  BY DEF Route, Leave, policy, channel
<1>6. d \in [policy : Settings, channel : Channels \union {"none"}, first : Settings,
             human : {"none", "here", "away", "leaving", "afk"}]
  BY <1>1, <1>2, <1>3 DEF Settings
<1>7. TypeOK'
  <2>1. decision' \in [Invocations ->
         [policy : Settings, channel : Channels \union {"none"}, first : Settings,
          human : {"none", "here", "away", "leaving", "afk"}]]
    <3> HIDE DEF d
    <3> QED BY <1>4, <1>6 DEF IInv, TypeOK
  <2>2. /\ at' \in [Invocations -> {"none", "routed", "waiting", "exited"}]
        /\ exit' \in [Invocations -> {"none", "ok", "error", "usage", "timeout", "canceled",
                                      "terminal", "afk"}]
        /\ stdout' \in [Invocations -> {"nothing", "answer", "default"}]
    <3>1. /\ at \in [Invocations -> {"none", "routed", "waiting", "exited"}]
          /\ exit \in [Invocations -> {"none", "ok", "error", "usage", "timeout", "canceled",
                                       "terminal", "afk"}]
          /\ stdout \in [Invocations -> {"nothing", "answer", "default"}]
      BY DEF IInv, TypeOK
    <3>2. CASE at' = [at EXCEPT ![i] = "routed"] /\ UNCHANGED <<exit, stdout>>
      BY <3>1, <3>2
    <3>3. CASE /\ channel \in {"terminal", "afk"}
               /\ at' = [at EXCEPT ![i] = "exited"]
               /\ exit' = [exit EXCEPT ![i] = channel]
               /\ stdout' = [stdout EXCEPT ![i] = "nothing"]
      <4>1. at' \in [Invocations -> {"none", "routed", "waiting", "exited"}]
        BY <3>1, <3>3
      <4>2. exit' \in [Invocations -> {"none", "ok", "error", "usage", "timeout", "canceled",
                                       "terminal", "afk"}]
        BY <3>1, <3>3
      <4>3. stdout' \in [Invocations -> {"nothing", "answer", "default"}]
        BY <3>1, <3>3
      <4> QED BY <4>1, <4>2, <4>3
    <3> QED BY <1>5, <3>2, <3>3
  <2>3. /\ kind' \in [Invocations -> {"ask", "notify"}]
        /\ fallback' \subseteq Invocations
    BY <1>4 DEF IInv, TypeOK
  <2> QED BY <1>4, <2>1, <2>2, <2>3 DEF IInv, TypeOK
<1>8. MarkerInv'
  BY <1>4 DEF IInv, MarkerInv
<1>9. RoutedInv(i)'
  <2>1. decision'[i] = d /\ i \notin reached'
    BY <1>4 DEF IInv, TypeOK, RoutedInv
  <2>2. exit[i] = "none"
    BY <1>4 DEF IInv, RoutedInv
  <2> QED BY <1>1, <1>2, <1>3, <1>5, <2>1, <2>2 DEF IInv, TypeOK, RoutedInv, Channels
<1>10. ASSUME NEW j \in Invocations, j # i PROVE RoutedInv(j)'
  BY <1>4, <1>5, <1>10 DEF IInv, TypeOK, RoutedInv
<1>11. ZeroMeansDecided'
  BY <1>4, <1>5 DEF IInv, TypeOK, RoutedInv, ZeroMeansDecided
<1> QED BY <1>7, <1>8, <1>9, <1>10, <1>11 DEF IInv

(* The rest of an invocation's way leaves the decision alone. *)
LEMMA CliKeeps ==
  ASSUME IInv, NEW i \in Invocations, CliStep(i)
  PROVE  IInv'
<1>1. CASE Misuse(i)
  BY <1>1 DEF Misuse, IInv, TypeOK, MarkerInv, RoutedInv, ZeroMeansDecided, Leave, markerVars
<1>2. CASE Fail(i)
  BY <1>2 DEF Fail, IInv, TypeOK, MarkerInv, RoutedInv, ZeroMeansDecided, Leave, markerVars
<1>3. CASE Send(i)
  BY <1>3 DEF Send, IInv, TypeOK, MarkerInv, RoutedInv, ZeroMeansDecided, Leave, markerVars
<1>4. CASE Interrupt(i)
  BY <1>4 DEF Interrupt, IInv, TypeOK, MarkerInv, RoutedInv, ZeroMeansDecided, Leave, markerVars
<1>5. ASSUME NEW o \in Outcomes, AskEnds(i, o) PROVE IInv'
  <2>1. PICK code \in {"ok", "timeout", "canceled", "error"},
             text \in {"answer", "default", "nothing"} :
          /\ Leave(i, code, text)
          /\ code = "ok" => \/ o = "answered" /\ text = "answer"
                            \/ o = "timeout" /\ i \in fallback /\ text = "default"
    BY <1>5 DEF AskEnds
  <2>2. /\ at[i] = "waiting" /\ outcome' = [outcome EXCEPT ![i] = o]
        /\ UNCHANGED <<now, marker, said, kind, fallback, decision, reached>>
    BY <1>5 DEF AskEnds, markerVars
  <2>3. TypeOK'
    BY <2>1, <2>2 DEF IInv, TypeOK, Leave
  <2>4. MarkerInv'
    BY <2>2 DEF IInv, MarkerInv
  <2>5. ASSUME NEW j \in Invocations PROVE RoutedInv(j)'
    BY <2>1, <2>2 DEF IInv, TypeOK, RoutedInv, Leave
  <2>6. ZeroMeansDecided'
    BY <2>1, <2>2 DEF IInv, TypeOK, ZeroMeansDecided, Leave
  <2> QED BY <2>3, <2>4, <2>5, <2>6 DEF IInv
<1>6. ASSUME NEW o \in {"delivered", "failed", "lost"}, NotifyEnds(i, o) PROVE IInv'
  BY <1>6 DEF NotifyEnds, Outcomes, IInv, TypeOK, MarkerInv, RoutedInv, ZeroMeansDecided, Leave, markerVars
<1> QED BY <1>1, <1>2, <1>3, <1>4, <1>5, <1>6, RouteKeeps DEF CliStep

LEMMA AlwaysIInv == Spec => []IInv
<1>1. IInv /\ [Next]_vars => IInv'
  <2>1. IInv /\ UNCHANGED vars => IInv'
    BY DEF IInv, TypeOK, MarkerInv, RoutedInv, ZeroMeansDecided, vars, markerVars, cliVars
  <2> QED BY <2>1, HumanKeeps, TickKeeps, CliKeeps DEF Next
<1> QED BY <1>1, InitIInv, PTL DEF Spec

-----------------------------------------------------------------------------
(* The theorems.                                                           *)

(* The gate's variables keep their types in every behaviour. *)
THEOREM TypeCorrect == Spec => []TypeOK
<1>1. IInv => TypeOK
  BY DEF IInv
<1> QED BY <1>1, AlwaysIInv, PTL

(* The marker file means what the human last said, in both its formats     *)
(* (WriteMarker, WriteAFKMarker, ReadMarker).                              *)
THEOREM MarkerMeansWhatWasSaidAlways == Spec => []MarkerMeansWhatWasSaid
<1>1. IInv => MarkerMeansWhatWasSaid
  BY MarkerIsTrue DEF IInv, MarkerMeansWhatWasSaid
<1> QED BY <1>1, AlwaysIInv, PTL

(* No setting gets a question past the gate while the human is AFK         *)
(* (Resolve).                                                              *)
THEOREM NothingReachesAFKAlways == Spec => []NothingReachesAFK
<1>1. IInv => NothingReachesAFK
  <2> SUFFICES ASSUME IInv, NEW i \in Invocations, decision[i].human = "afk"
               PROVE  i \notin reached /\ exit[i] = "afk" /\ stdout[i] = "nothing"
    BY DEF NothingReachesAFK
  <2> QED BY DEF IInv, TypeOK, RoutedInv, Channels
<1> QED BY <1>1, AlwaysIInv, PTL

(* The first of the four settings decides, together with the human         *)
(* (resolveChannel, Resolve).                                              *)
THEOREM SettingsDecideAlways == Spec => []SettingsDecide
<1>1. IInv => SettingsDecide
  BY DEF IInv, TypeOK, RoutedInv, SettingsDecide
<1> QED BY <1>1, AlwaysIInv, PTL

(* Exit code 0 of an ask is an answer, or the --default of a deadline      *)
(* (runAsk).                                                               *)
THEOREM ZeroMeansDecidedAlways == Spec => []ZeroMeansDecided
<1>1. IInv => ZeroMeansDecided
  BY DEF IInv
<1> QED BY <1>1, AlwaysIInv, PTL
=============================================================================
