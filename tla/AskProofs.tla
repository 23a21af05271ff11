----------------------------- MODULE AskProofs -----------------------------
(***************************************************************************)
(* Proofs about Ask, Settings and Layout, for any set of inputs: whose     *)
(* settings decide, that both messengers take every question that passed   *)
(* the checks, whatever its lengths, and that the control that was used is *)
(* the answer.                                                             *)
(***************************************************************************)
EXTENDS Ask, FiniteSetTheorems, TLAPS

-----------------------------------------------------------------------------
(* Settings.                                                               *)

(* Every process has a deadline, be it zero.                               *)
LEMMA DeadlineIsSet == ASSUME NEW s, IsSettings(s) PROVE Load(s)[Timeout] \in Int
<1>1. Timeout \in Keys
  BY DEF Keys
<1>2. InFile(s, Timeout) \in Int
  BY SettingsAssumption DEF InFile, IsSettings
<1>3. Get(s, Long(Timeout)) \in Int \union {Empty, Garbage}
  BY DEF Get, IsSettings
<1>4. FirstEnv(s, Timeout) = Get(s, Long(Timeout))
  BY DEF FirstEnv, Timeout
<1> HIDE DEF Timeout
<1> QED BY <1>1, <1>2, <1>3, <1>4, SettingsAssumption DEF Load

-----------------------------------------------------------------------------
(* What was sent.                                                          *)

Named == IF request.transports = {} THEN input.up ELSE request.transports

(* What the request says at each step of its way, and who it goes to.      *)
RequestInv ==
  /\ pc = "wire" => request = Params(Load(input.asker))
  /\ pc \in {"daemon", "posting", "open", "done"} =>
       request = FillIn(Params(Load(input.asker)), Load(input.daemon))
  /\ pc \in {"cli", "wire", "daemon"} => todo = {} /\ DOMAIN posted = {}
  /\ pc \in {"posting", "open", "done"} => todo \union DOMAIN posted \subseteq Named

Pcs == {"cli", "wire", "daemon", "posting", "open", "done", "refused"}

IInv == input \in Cases /\ pc \in Pcs /\ RequestInv

(* The steps after the question was laid out add no messenger.             *)
Later ==
  \/ Expire \/ Report \/ Terminated \/ UNCHANGED vars
  \/ \E i \in files : LoseFile(i)
  \/ \E m \in Messengers : Settle(m)
  \/ \E m \in DOMAIN posted : \E r \in DOMAIN posted[m].rows :
       \E k \in DOMAIN posted[m].rows[r] : Press(m, r, k)
  \/ \E length \in TextLengths :
       Cancel(length) \/ AnswerHere(Unset, Write, length) \/ \E m \in Messengers : Type(m, length)
  \/ \E id \in 1 .. Len(request.choices) + 1 : AnswerHere(id, Unset, 0)

LEMMA InitIInv == Init => IInv
<1>1. DOMAIN <<>> = {}
  OBVIOUS
<1> QED BY <1>1 DEF Init, IInv, RequestInv, Pcs

LEMMA RefusedIInv == ASSUME IInv, NEW reason, Refuse(reason) PROVE IInv'
  BY DEF IInv, RequestInv, Pcs, Refuse

LEMMA LaterIsQuiet ==
  ASSUME Later
  PROVE  /\ input' = input /\ request' = request /\ todo' = todo /\ why' = why
         /\ DOMAIN posted' = DOMAIN posted /\ files' \subseteq files
         /\ pc' = pc \/ (pc = "open" /\ pc' = "done")
<1>1. CASE Expire \/ Report \/ Terminated \/ UNCHANGED vars
  BY <1>1 DEF Expire, End, Report, Terminated, vars
<1>2. CASE \E i \in files : LoseFile(i)
  BY <1>2 DEF LoseFile
<1>3. CASE \E m \in Messengers : Settle(m)
  <2>1. PICK m \in Messengers : Settle(m)
    BY <1>3
  <2> QED BY <2>1 DEF Settle
<1>4. CASE \E m \in DOMAIN posted : \E r \in DOMAIN posted[m].rows :
             \E k \in DOMAIN posted[m].rows[r] : Press(m, r, k)
  BY <1>4 DEF Press, Resolve
<1>5. CASE \E length \in TextLengths :
             Cancel(length) \/ AnswerHere(Unset, Write, length) \/ \E m \in Messengers : Type(m, length)
  BY <1>5 DEF Cancel, End, AnswerHere, Type, Resolve
<1>6. CASE \E id \in 1 .. Len(request.choices) + 1 : AnswerHere(id, Unset, 0)
  BY <1>6 DEF AnswerHere, Resolve
<1> QED BY <1>1, <1>2, <1>3, <1>4, <1>5, <1>6 DEF Later

LEMMA StepIInv == IInv /\ [Next]_vars => IInv'
<1> SUFFICES ASSUME IInv, [Next]_vars PROVE IInv'
  OBVIOUS
<1>1. CASE Build
  <2>1. CASE ~Buildable(Load(input.asker))
    BY <1>1, <2>1, RefusedIInv DEF Build
  <2>2. CASE Buildable(Load(input.asker))
    BY <1>1, <2>2 DEF Build, IInv, RequestInv, Pcs, Params, Flags
  <2> QED BY <2>1, <2>2
<1>2. CASE Receive
  <2>1. CASE \E i \in DOMAIN request.attach : ~Attachable(request, i)
    BY <1>2, <2>1, RefusedIInv DEF Receive
  <2>2. CASE ~\E i \in DOMAIN request.attach : ~Attachable(request, i)
    BY <1>2, <2>2 DEF Receive, IInv, RequestInv, Pcs, Params, Flags
  <2> QED BY <2>1, <2>2
<1>3. CASE Submit
  <2>1. CASE ~Validate(request) \/ ~(request.transports \subseteq input.up)
    BY <1>3, <2>1, RefusedIInv DEF Submit
  <2>2. CASE Validate(request) /\ request.transports \subseteq input.up
    BY <1>3, <2>2 DEF Submit, IInv, RequestInv, Pcs, Named, Params, Flags
  <2> QED BY <2>1, <2>2
<1>4. CASE Fanout
  <2>1. CASE DOMAIN posted = {}
    BY <1>4, <2>1, RefusedIInv DEF Fanout
  <2>2. CASE DOMAIN posted # {}
    BY <1>4, <2>2 DEF Fanout, IInv, RequestInv, Pcs, Named, Params, Flags
  <2> QED BY <2>1, <2>2
<1>5. ASSUME NEW m, PostOf(m), NEW message, Delivered(m, message)
      PROVE  IInv'
  BY <1>5 DEF PostOf, Delivered, IInv, RequestInv, Pcs, Named, Params, Flags
<1>6. CASE PostDiscord
  BY <1>5, <1>6 DEF PostDiscord
<1>7. CASE \E missed \in 0 .. Len(request.attach) : PostTelegram(missed)
  BY <1>5, <1>7 DEF PostTelegram
<1>8. CASE \E m \in Messengers : PostFails(m)
  BY <1>8 DEF PostFails, PostOf, IInv, RequestInv, Pcs, Named, Params, Flags
<1>9. CASE Later
  BY <1>9, LaterIsQuiet DEF IInv, RequestInv, Pcs, Named, Params, Flags
<1> QED BY <1>1, <1>2, <1>3, <1>4, <1>6, <1>7, <1>8, <1>9 DEF Next, Later

LEMMA Invariance == Spec => []IInv
  BY InitIInv, StepIInv, PTL DEF Spec

-----------------------------------------------------------------------------
LEMMA IInvImpliesSentAsAsked == IInv => SentAsAsked
<1> SUFFICES ASSUME IInv, pc \in {"posting", "open", "done"} PROVE SentAsAsked
  BY DEF SentAsAsked
<1> DEFINE cfg == Load(input.asker)
<1>1. request = FillIn(Params(cfg), Load(input.daemon))
  BY DEF IInv, RequestInv
<1>2. cfg[Timeout] \in Int
  BY DeadlineIsSet, CasesAssumption DEF IInv
<1> HIDE DEF cfg
<1>3. /\ request.timeout = IF Params(cfg).timeout = Empty THEN Load(input.daemon)[Timeout]
                           ELSE Params(cfg).timeout
      /\ request.transports = IF Params(cfg).transports = {} THEN DefaultTransports(Load(input.daemon))
                              ELSE Params(cfg).transports
      /\ request.notice = Flags.notice
  BY <1>1 DEF FillIn, Params
<1>4. ~Flags.notice => Params(cfg).timeout = IF Flags.timeout = Empty THEN cfg[Timeout]
                                             ELSE Flags.timeout
  BY DEF Params
<1>5. Params(cfg).transports = ResolveTransports(Flags.transports, cfg)
  BY DEF Params
<1>6. todo \union DOMAIN posted \subseteq Named
  BY DEF IInv, RequestInv
<1>7. ~request.notice => request.timeout = IF Flags.timeout = Empty THEN cfg[Timeout] ELSE Flags.timeout
  BY <1>2, <1>3, <1>4, SettingsAssumption
<1>8. Params(cfg).transports # {} => Named = Params(cfg).transports
  BY <1>3 DEF Named
<1>9. /\ Flags.transports \notin {Empty, {}} /\ "all" \notin Flags.transports
           => Named = Flags.transports
      /\ Flags.transports = Empty /\ DefaultTransports(cfg) # {} => Named = DefaultTransports(cfg)
      /\ Flags.transports \notin {Empty, {}} /\ "all" \in Flags.transports /\ EnabledTransports(cfg) # {}
           => Named = EnabledTransports(cfg)
  BY <1>5, <1>8 DEF ResolveTransports
<1> QED BY <1>6, <1>7, <1>9 DEF SentAsAsked, cfg

(* The daemon fills in gaps only: an ask is asked with the deadline and on *)
(* the messengers it was built with, for any settings of both processes.   *)
THEOREM SentAsAskedAlways == Spec => []SentAsAsked
  BY Invariance, IInvImpliesSentAsAsked, PTL

-----------------------------------------------------------------------------
(* Discord takes the text of every question, and of every settled one.     *)
LEMMA ClampFits == ASSUME NEW n \in Int, NEW limit \in Nat
                   PROVE  Clamp(n, limit) \in 0 .. limit /\ (n \in Nat => Clamp(n, limit) <= n)
  BY DEF Clamp

LEMMA ContentFits ==
  ASSUME NEW q, q.title \in Nat, q.label \in Nat, q.body \in Nat, NEW controls
  PROVE  /\ DiscordContent(q, controls).length \in 0 .. DiscordLimit
         /\ q.title <= MaxTitleLen /\ q.label <= LabelRoom /\ DiscordContent(q, controls).cut
              => DiscordContent(q, controls).note
<1> DEFINE head == DiscordHeader(q)
           hint == IF controls /\ q.free THEN 55 ELSE 0
           full == head + hint + (IF q.body > 0 THEN 2 + q.body ELSE 0)
           room == DiscordLimit - (head + 2 + 65 + hint)
<1>1. head \in Nat /\ hint \in {0, 55}
  BY DEF DiscordHeader
<1>2. q.title <= MaxTitleLen /\ q.label <= LabelRoom => head <= 1877
  BY DEF DiscordHeader, MaxTitleLen, LabelRoom
<1>3. DiscordContent(q, controls) =
        IF q.body = 0 \/ full <= DiscordLimit
        THEN [length |-> Clamp(full, DiscordLimit), cut |-> FALSE, note |-> FALSE]
        ELSE IF room < 1
        THEN [length |-> Clamp(head + hint, DiscordLimit), cut |-> TRUE, note |-> FALSE]
        ELSE [length |-> head + 2 + Clamp(q.body, room) + 65 + hint, cut |-> TRUE, note |-> TRUE]
  BY DEF DiscordContent
<1> HIDE DEF head, hint
<1>4. full \in Nat /\ room \in Int /\ head + hint \in Nat /\ DiscordLimit \in Nat
  BY <1>1 DEF DiscordLimit
<1> HIDE DEF full
<1>5. CASE q.body = 0 \/ full <= DiscordLimit
  <2>1. Clamp(full, DiscordLimit) \in 0 .. DiscordLimit
    BY <1>4 DEF Clamp
  <2> QED BY <1>3, <1>5, <2>1
<1>6. CASE ~(q.body = 0 \/ full <= DiscordLimit) /\ room < 1
  <2>1. Clamp(head + hint, DiscordLimit) \in 0 .. DiscordLimit
    BY <1>4 DEF Clamp
  <2>2. ~(q.title <= MaxTitleLen /\ q.label <= LabelRoom)
    BY <1>1, <1>2, <1>6 DEF DiscordLimit
  <2> QED BY <1>3, <1>6, <2>1, <2>2
<1>7. CASE ~(q.body = 0 \/ full <= DiscordLimit) /\ ~(room < 1)
  <2>1. room \in Nat
    BY <1>4, <1>7
  <2> DEFINE kept == Clamp(q.body, room)
  <2>2. kept \in 0 .. room
    BY <2>1 DEF Clamp
  <2> HIDE DEF kept
  <2>3. head + 2 + kept + 65 + hint \in 0 .. DiscordLimit
    BY <1>1, <2>1, <2>2 DEF DiscordLimit
  <2> QED BY <1>3, <1>7, <2>3 DEF kept
<1> QED BY <1>5, <1>6, <1>7

(* A body that Discord cuts with a word of it fills the message: no more   *)
(* of it could have been shown (message.go: renderContent).                *)
THEOREM DiscordKeepsTheMost ==
  ASSUME NEW q, q.title \in Nat, q.label \in Nat, q.body \in Nat, NEW controls,
         DiscordContent(q, controls).note
  PROVE  DiscordContent(q, controls).length = DiscordLimit
<1> DEFINE head == DiscordHeader(q)
           hint == IF controls /\ q.free THEN 55 ELSE 0
           full == head + hint + (IF q.body > 0 THEN 2 + q.body ELSE 0)
           room == DiscordLimit - (head + 2 + 65 + hint)
<1>1. head \in Nat /\ hint \in Nat
  BY DEF DiscordHeader
<1>2. q.body # 0 /\ ~(full <= DiscordLimit) /\ ~(room < 1)
  <2>1. CASE q.body = 0 \/ full <= DiscordLimit
    <3>1. DiscordContent(q, controls).note = FALSE
      BY <2>1 DEF DiscordContent
    <3> QED BY <3>1
  <2>2. CASE ~(q.body = 0 \/ full <= DiscordLimit) /\ room < 1
    <3>1. DiscordContent(q, controls).note = FALSE
      BY <2>2 DEF DiscordContent
    <3> QED BY <3>1
  <2> QED BY <2>1, <2>2
<1>3. DiscordContent(q, controls).length = head + 2 + Clamp(q.body, room) + 65 + hint
  BY <1>2 DEF DiscordContent
<1> HIDE DEF head, hint
<1>4. Clamp(q.body, room) = room
  BY <1>1, <1>2 DEF Clamp, DiscordLimit
<1> QED BY <1>1, <1>3, <1>4 DEF DiscordLimit

LEMMA SettledFits ==
  ASSUME NEW q, q.title \in Nat, q.label \in Nat, q.body \in Nat,
         NEW outcome \in 0 .. DiscordLimit - 2
  PROVE  DiscordSettled(q, outcome) \in 0 .. DiscordLimit
<1>1. DiscordContent(q, FALSE).length \in 0 .. DiscordLimit
  BY ContentFits
<1>2. Clamp(DiscordLimit - (2 + outcome), DiscordLimit) = DiscordLimit - (2 + outcome)
  BY DEF Clamp, DiscordLimit
<1> DEFINE length == DiscordContent(q, FALSE).length
           room   == DiscordLimit - (2 + outcome)
           kept   == Clamp(length, room)
<1>3. DiscordSettled(q, outcome) = kept + 2 + outcome
  BY <1>2 DEF DiscordSettled
<1>4. room \in Nat
  BY DEF DiscordLimit
<1>5. length \in 0 .. DiscordLimit
  BY <1>1
<1> HIDE DEF length, room
<1>6. length \in Nat
  BY <1>5 DEF DiscordLimit
<1>7. kept \in 0 .. room
  BY <1>4, <1>6 DEF Clamp
<1> USE DEF room
<1> HIDE DEF kept
<1>8. kept + 2 + outcome \in 0 .. DiscordLimit
  BY <1>4, <1>7 DEF DiscordLimit
<1> QED BY <1>3, <1>8

LEMMA OutcomeFits ==
  ASSUME NEW status, NEW text \in Nat
  PROVE  DiscordOutcome(status, text) \in 0 .. 249
  BY ClampFits DEF DiscordOutcome

-----------------------------------------------------------------------------
(* Induction over the naturals, in a set: the least number outside of it   *)
(* would end the smallest of the intervals that leave it.                  *)
LEMMA SetInduction ==
  ASSUME NEW T, 0 \in T, \A n \in Nat : n \in T => n + 1 \in T
  PROVE  Nat \subseteq T
<1> SUFFICES ASSUME NEW n \in Nat, n \notin T PROVE FALSE
  OBVIOUS
<1> DEFINE S == {0 .. m : m \in {m \in 0 .. n : m \notin T}}
<1>1. IsWellFoundedOn(StrictSubsetOrdering(0 .. n), FiniteSubsetsOf(0 .. n))
  BY FS_StrictSubsetOrderingWellFounded
<1>2. S # {} /\ S \subseteq FiniteSubsetsOf(0 .. n)
  <2>1. 0 .. n \in S
    OBVIOUS
  <2>2. ASSUME NEW m \in 0 .. n PROVE 0 .. m \in FiniteSubsetsOf(0 .. n)
    BY FS_Interval DEF FiniteSubsetsOf
  <2> QED BY <2>1, <2>2
<1> HIDE DEF S
<1>3. PICK I \in S : \A J \in S : ~(<<J, I>> \in StrictSubsetOrdering(0 .. n))
  BY <1>1, <1>2, WFMin
<1>4. PICK m \in 0 .. n : m \notin T /\ I = 0 .. m
  BY <1>3 DEF S
<1>5. m # 0 /\ m - 1 \in 0 .. n
  BY <1>4
<1>6. m - 1 \notin T
  BY <1>4, <1>5
<1>7. 0 .. (m - 1) \in S
  BY <1>5, <1>6 DEF S
<1>8. <<0 .. (m - 1), 0 .. m>> \in StrictSubsetOrdering(0 .. n)
  <2>1. m \in 0 .. m /\ m \notin 0 .. (m - 1)
    BY <1>4
  <2> QED BY <1>4, <2>1 DEF StrictSubsetOrdering
<1> QED BY <1>3, <1>4, <1>7, <1>8

(* One step of the search: where it ends, or the window it goes on with.   *)
Middle(w) == (w[1] + w[2] + 1) \div 2
NextWindow(fits, w) ==
  IF Middle(w) \in fits THEN <<Middle(w), w[2]>> ELSE <<w[1], Middle(w) - 1>>
SearchStep(fits, g, w) == IF w[1] >= w[2] THEN w[1] ELSE g[NextWindow(fits, w)]

LEMMA WindowShrinks ==
  ASSUME NEW fits, NEW n \in Nat, NEW w \in (0 .. n) \X (0 .. n), w[1] < w[2]
  PROVE  /\ NextWindow(fits, w) \in (0 .. n) \X (0 .. n)
         /\ w[1] <= NextWindow(fits, w)[1] /\ NextWindow(fits, w)[2] <= w[2]
         /\ NextWindow(fits, w)[1] <= NextWindow(fits, w)[2]
         /\ NextWindow(fits, w)[2] - NextWindow(fits, w)[1] < w[2] - w[1]
         /\ NextWindow(fits, w)[1] \in {w[1]} \union fits
<1>1. w[1] \in 0 .. n /\ w[2] \in 0 .. n
  OBVIOUS
<1>2. Middle(w) \in w[1] + 1 .. w[2]
  BY <1>1 DEF Middle
<1>3. CASE Middle(w) \in fits
  <2>1. NextWindow(fits, w) = <<Middle(w), w[2]>>
    BY <1>3 DEF NextWindow
  <2> QED BY <1>1, <1>2, <1>3, <2>1
<1>4. CASE Middle(w) \notin fits
  <2>1. NextWindow(fits, w) = <<w[1], Middle(w) - 1>>
    BY <1>4 DEF NextWindow
  <2> QED BY <1>1, <1>2, <2>1
<1> QED BY <1>3, <1>4

LEMMA SearchEquation ==
  ASSUME NEW fits, NEW n \in Nat
  PROVE  \E g : /\ g = [w \in (0 .. n) \X (0 .. n) |-> SearchStep(fits, g, w)]
                /\ SearchLongest(fits, n) = g[<<0, n>>]
<1> DEFINE Windows == (0 .. n) \X (0 .. n)
           Works(g, k) == \A w \in Windows : w[2] - w[1] <= k => g[w] = SearchStep(fits, g, w)
           T == {k \in Nat : \E g : Works(g, k)}
<1>1. 0 \in T
  <2> DEFINE g == [w \in Windows |-> w[1]]
  <2>1. ASSUME NEW w \in Windows, w[2] - w[1] <= 0 PROVE g[w] = SearchStep(fits, g, w)
    <3>1. w[1] >= w[2]
      BY <2>1
    <3> QED BY <3>1 DEF SearchStep
  <2>2. Works(g, 0)
    BY <2>1
  <2> HIDE DEF Works
  <2> QED BY <2>2
<1>2. ASSUME NEW k \in Nat, k \in T PROVE k + 1 \in T
  <2>1. PICK g : Works(g, k)
    BY <1>2
  <2> DEFINE h == [w \in Windows |-> SearchStep(fits, g, w)]
  <2>2. ASSUME NEW w \in Windows, w[2] - w[1] <= k + 1 PROVE h[w] = SearchStep(fits, h, w)
    <3>1. CASE w[1] >= w[2]
      BY <3>1 DEF SearchStep
    <3>2. CASE w[1] < w[2]
      <4> DEFINE v == NextWindow(fits, w)
      <4>1. v \in Windows /\ v[2] - v[1] <= k
        BY <2>2, <3>2, WindowShrinks
      <4> HIDE DEF v
      <4>2. h[v] = SearchStep(fits, g, v)
        BY <4>1
      <4>3. g[v] = SearchStep(fits, g, v)
        BY <2>1, <4>1
      <4>4. ~(w[1] >= w[2])
        BY <3>2
      <4>5. SearchStep(fits, h, w) = h[v] /\ SearchStep(fits, g, w) = g[v]
        BY <4>4 DEF SearchStep, v
      <4>6. h[w] = SearchStep(fits, g, w)
        OBVIOUS
      <4> HIDE DEF h
      <4> QED BY <4>2, <4>3, <4>5, <4>6
    <3> QED BY <3>1, <3>2
  <2>3. Works(h, k + 1)
    BY <2>2
  <2> HIDE DEF Works, h
  <2> QED BY <2>3
<1> HIDE DEF T
<1>3. n \in T
  BY <1>1, <1>2, SetInduction
<1>4. PICK g : Works(g, n)
  BY <1>3 DEF T
<1> DEFINE h == [w \in Windows |-> g[w]]
<1>5. ASSUME NEW w \in Windows PROVE h[w] = SearchStep(fits, h, w)
  <2>1. g[w] = SearchStep(fits, g, w)
    BY <1>4
  <2>2. w[1] < w[2] => h[NextWindow(fits, w)] = g[NextWindow(fits, w)]
    BY WindowShrinks
  <2>3. ~(w[1] >= w[2]) => w[1] < w[2]
    OBVIOUS
  <2> QED BY <2>1, <2>2, <2>3 DEF SearchStep
<1>6. h = [w \in Windows |-> SearchStep(fits, h, w)]
  <2>1. h = [w \in Windows |-> h[w]]
    OBVIOUS
  <2> HIDE DEF h
  <2> QED BY <1>5, <2>1
<1> HIDE DEF h
<1> DEFINE best == CHOOSE f : f = [w \in Windows |-> SearchStep(fits, f, w)]
<1>7. best = [w \in Windows |-> SearchStep(fits, best, w)]
  BY <1>6
<1>8. SearchLongest(fits, n) = best[<<0, n>>]
  BY DEF SearchLongest, SearchStep, NextWindow, Middle
<1> HIDE DEF best
<1> QED BY <1>7, <1>8

(* The search ends at a length that fits, and at the longest one if every  *)
(* shorter text fits too.                                                  *)
LEMMA SearchEnds ==
  ASSUME NEW fits, NEW n \in Nat, 0 \in fits
  PROVE  /\ SearchLongest(fits, n) \in fits \intersect 0 .. n
         /\ (\A k \in fits \intersect 0 .. n : 0 .. k \subseteq fits) =>
              \A k \in fits \intersect 0 .. n : k <= SearchLongest(fits, n)
<1> DEFINE Windows == (0 .. n) \X (0 .. n)
           Closed == \A k \in fits \intersect 0 .. n : 0 .. k \subseteq fits
<1>1. PICK g : /\ g = [w \in Windows |-> SearchStep(fits, g, w)]
               /\ SearchLongest(fits, n) = g[<<0, n>>]
  BY SearchEquation
<1> DEFINE Good(w) ==
             /\ g[w] \in fits \intersect 0 .. n
             /\ Closed => \A k \in fits \intersect 0 .. w[2] : k <= g[w]
           T == {d \in Nat : \A w \in Windows :
                   w[1] \in fits /\ w[1] <= w[2] /\ w[2] - w[1] <= d => Good(w)}
<1>2. ASSUME NEW w \in Windows PROVE g[w] = SearchStep(fits, g, w)
  BY <1>1
<1>3. ASSUME NEW w \in Windows, w[1] \in fits, w[1] = w[2] PROVE Good(w)
  <2>1. g[w] = w[1]
    BY <1>2, <1>3 DEF SearchStep
  <2> QED BY <1>3, <2>1
<1>4. 0 \in T
  <2>1. ASSUME NEW w \in Windows, w[1] <= w[2], w[2] - w[1] <= 0 PROVE w[1] = w[2]
    BY <2>1
  <2> HIDE DEF Good
  <2> QED BY <1>3, <2>1
<1>5. ASSUME NEW d \in Nat, d \in T PROVE d + 1 \in T
  <2>1. ASSUME NEW w \in Windows, w[1] \in fits, w[1] < w[2], w[2] - w[1] <= d + 1 PROVE Good(w)
    <3> DEFINE v == NextWindow(fits, w)
    <3>1. /\ v \in Windows /\ v[1] <= v[2] /\ v[2] - v[1] <= d /\ v[1] \in fits
          /\ v[2] <= w[2]
      BY <2>1, WindowShrinks
    <3>2. v[2] < w[2] => v[2] + 1 \in 0 .. n /\ v[2] + 1 \notin fits
      <4>1. v[2] < w[2] => Middle(w) \notin fits /\ v[2] = Middle(w) - 1
        BY <2>1 DEF NextWindow
      <4>2. Middle(w) \in 1 .. n
        BY <2>1 DEF Middle
      <4> QED BY <4>1, <4>2
    <3> HIDE DEF v
    <3>3. Good(v)
      <4> HIDE DEF Good
      <4> QED BY <1>5, <3>1
    <3>4. g[w] = g[v]
      <4>1. ~(w[1] >= w[2])
        BY <2>1
      <4> QED BY <1>2, <4>1 DEF SearchStep, v
    <3>5. Closed => fits \intersect 0 .. w[2] \subseteq 0 .. v[2]
      <4> SUFFICES ASSUME Closed, NEW k \in fits \intersect 0 .. w[2], k > v[2] PROVE FALSE
        BY <3>1
      <4>1. v[2] < w[2] /\ v[2] + 1 \in 0 .. k /\ k \in 0 .. n
        BY <3>1
      <4> QED BY <3>2, <4>1
    <3> QED BY <3>3, <3>4, <3>5
  <2>2. ASSUME NEW w \in Windows, w[1] <= w[2] PROVE w[1] = w[2] \/ w[1] < w[2]
    BY <2>2
  <2> HIDE DEF Good
  <2> QED BY <1>3, <2>1, <2>2
<1> HIDE DEF T
<1>6. n \in T
  BY <1>4, <1>5, SetInduction
<1>7. Good(<<0, n>>)
  <2>1. <<0, n>> \in Windows
    OBVIOUS
  <2> HIDE DEF Good
  <2> QED BY <1>6, <2>1 DEF T
<1> QED BY <1>1, <1>7

-----------------------------------------------------------------------------
(* Telegram takes the text of every question, and of every settled one.    *)
HasSizes(q) == q.title \in Nat /\ q.label \in Nat /\ q.body \in Nat /\ q.name \in Nat

(* The names of the files that were not uploaded leave room for a note.    *)
NamesAreFew(q, missed) == q.nameScript # "markup" \/ missed <= NamesRoom

LEMMA EscapedIsBounded ==
  ASSUME NEW length \in Nat, NEW script, NEW limit \in Nat
  PROVE  /\ Escaped(length, script, limit) \in Nat
         /\ Escaped(length, script, limit) <= 5 * limit
         /\ script # "markup" => Escaped(length, script, limit) <= limit
<1>1. /\ Clamp(2 * length, limit) \in Nat /\ Clamp(2 * length, limit) <= limit
      /\ Clamp(length, limit) \in Nat /\ Clamp(length, limit) <= limit
  BY DEF Clamp
<1> QED BY <1>1 DEF Escaped

LEMMA TelegramFrameFits ==
  ASSUME NEW q, HasSizes(q), NEW missed \in 0 .. MaxAttachments, NEW replies
  PROVE  /\ TelegramFrame(q, missed, replies) \in Nat
         /\ NamesAreFew(q, missed) => TelegramFrame(q, missed, replies) <= 3742
<1>1. TelegramHeader(q) \in 0 .. 1643
  <2> DEFINE title == Escaped(q.title, q.titleScript, 200)
             label == Escaped(q.label, q.labelScript, 120)
  <2>1. title \in 0 .. 1000 /\ label \in 0 .. 600
    BY EscapedIsBounded DEF HasSizes
  <2>2. TelegramHeader(q) = 33 + title + (IF q.label > 0 THEN 10 + label ELSE 0)
    BY DEF TelegramHeader
  <2> HIDE DEF title, label
  <2> QED BY <2>1, <2>2
<1> DEFINE invite == IF q.free /\ replies THEN (IF q.choices = <<>> THEN 46 ELSE 63) ELSE 0
           name   == Escaped(q.name, q.nameScript, NameLen)
           names  == IF missed = 0 THEN 0 ELSE 25 + missed * (name + 2) - 2
<1>2. invite \in {0, 46, 63}
  OBVIOUS
<1>3. name \in 0 .. 400 /\ (q.nameScript # "markup" => name <= 80)
  BY EscapedIsBounded DEF HasSizes, NameLen
<1>4. missed \in {0, 1, 2, 3, 4, 5, 6, 7, 8, 9, 10}
  BY DEF MaxAttachments
<1>5. TelegramFooter(q, missed, replies) = invite + names + (IF invite > 0 /\ names > 0 THEN 1 ELSE 0)
  BY DEF TelegramFooter
<1> HIDE DEF invite, name
<1>6. names \in Nat /\ (NamesAreFew(q, missed) => names <= 2033)
  BY <1>3, <1>4 DEF NamesAreFew, NamesRoom
<1> DEFINE head == TelegramHeader(q)
           foot == TelegramFooter(q, missed, replies)
<1> HIDE DEF names
<1>7. foot \in Nat /\ (NamesAreFew(q, missed) => foot <= 2097)
  BY <1>2, <1>5, <1>6
<1>8. TelegramFrame(q, missed, replies) = head + Part(foot) /\ head \in 0 .. 1643
  BY <1>1 DEF TelegramFrame
<1> HIDE DEF head, foot
<1> QED BY <1>7, <1>8 DEF Part

LEMMA CutTextIsInt ==
  ASSUME NEW q, HasSizes(q), NEW missed \in 0 .. MaxAttachments, NEW replies, NEW n \in Nat
  PROVE  /\ CutText(q, missed, replies, n) \in Nat
         /\ NamesAreFew(q, missed) => CutText(q, missed, replies, 0) <= QuestionBudget
<1>1. BodyCost(q, n) \in Nat /\ BodyCost(q, 0) = 0
  BY DEF BodyCost
<1> DEFINE frame == TelegramFrame(q, missed, replies)
<1>2. frame \in Nat /\ (NamesAreFew(q, missed) => frame <= 3742)
  BY TelegramFrameFits
<1>3. /\ CutText(q, missed, replies, n) = frame + Part(BodyCost(q, n) + 2) + Part(66)
      /\ CutText(q, missed, replies, 0) = frame + Part(0 + 2) + Part(66)
  BY <1>1 DEF CutText
<1> HIDE DEF frame
<1> QED BY <1>1, <1>2, <1>3 DEF Part, QuestionBudget, TelegramLimit, SettleReserve

LEMMA TelegramTextFits ==
  ASSUME NEW q, HasSizes(q), NEW missed \in 0 .. MaxAttachments, NEW replies
  PROVE  /\ TelegramText(q, missed, replies).length \in 0 .. QuestionBudget
         /\ NamesAreFew(q, missed) /\ TelegramText(q, missed, replies).cut
              => TelegramText(q, missed, replies).note
<1> DEFINE full == TelegramFrame(q, missed, replies) + Part(BodyCost(q, q.body))
           fits == {n \in Nat : CutText(q, missed, replies, n) <= QuestionBudget}
           bare == Clamp(Escaped(q.title, q.titleScript, 200), QuestionBudget)
           text == TelegramText(q, missed, replies)
<1>1. full \in Nat
  <2>1. BodyCost(q, q.body) \in Nat
    BY DEF BodyCost, HasSizes
  <2>2. TelegramFrame(q, missed, replies) \in Nat
    BY TelegramFrameFits
  <2> QED BY <2>1, <2>2 DEF Part
<1>2. NamesAreFew(q, missed) => 0 \in fits
  BY CutTextIsInt
<1>3. text = IF full <= QuestionBudget
             THEN [length |-> full, cut |-> FALSE, note |-> FALSE]
             ELSE IF 0 \notin fits
             THEN [length |-> bare, cut |-> TRUE, note |-> FALSE]
             ELSE [length |-> CutText(q, missed, replies, SearchLongest(fits, q.body)),
                   cut |-> TRUE, note |-> TRUE]
  BY DEF TelegramText
<1>4. bare \in 0 .. QuestionBudget
  <2>1. Escaped(q.title, q.titleScript, 200) \in Nat
    BY EscapedIsBounded DEF HasSizes
  <2> DEFINE title == Escaped(q.title, q.titleScript, 200)
  <2>2. title \in Nat
    BY <2>1
  <2> HIDE DEF title
  <2>3. Clamp(title, QuestionBudget) \in 0 .. QuestionBudget
    BY <2>2 DEF Clamp, QuestionBudget, TelegramLimit, SettleReserve
  <2> QED BY <2>3 DEF title
<1>5. ASSUME 0 \in fits
      PROVE  CutText(q, missed, replies, SearchLongest(fits, q.body)) \in 0 .. QuestionBudget
  <2> DEFINE n == SearchLongest(fits, q.body)
  <2>1. n \in Nat /\ CutText(q, missed, replies, n) <= QuestionBudget
    <3>1. n \in fits
      <4> HIDE DEF fits
      <4> QED BY <1>5, SearchEnds DEF HasSizes
    <3> QED BY <3>1
  <2> HIDE DEF n, fits
  <2>2. CutText(q, missed, replies, n) \in Nat
    BY <2>1, CutTextIsInt
  <2>3. CutText(q, missed, replies, n) \in 0 .. QuestionBudget
    BY <2>1, <2>2 DEF QuestionBudget, TelegramLimit, SettleReserve
  <2> QED BY <2>3 DEF n
<1> HIDE DEF full, fits, bare, text
<1>6. CASE full <= QuestionBudget
  <2>1. full \in 0 .. QuestionBudget
    BY <1>1, <1>6 DEF QuestionBudget, TelegramLimit, SettleReserve
  <2> QED BY <1>3, <1>6, <2>1 DEF text
<1>7. CASE ~(full <= QuestionBudget)
  BY <1>2, <1>3, <1>4, <1>5, <1>7 DEF text
<1> QED BY <1>6, <1>7

LEMMA TelegramSettledFits ==
  ASSUME NEW length \in 0 .. QuestionBudget, NEW status, NEW text \in Nat
  PROVE  TelegramSettled(length, TelegramOutcome(status, text)) \in 0 .. TelegramLimit
<1> DEFINE outcome == TelegramOutcome(status, text)
<1>1. outcome \in 0 .. 158
  <2>1. Clamp(text, 80) \in 0 .. 80
    BY DEF Clamp
  <2> QED BY <2>1 DEF TelegramOutcome
<1> HIDE DEF outcome
<1>2. TelegramSettled(length, outcome) \in 0 .. TelegramLimit
  BY <1>1 DEF TelegramSettled, QuestionBudget, TelegramLimit, SettleReserve
<1> QED BY <1>2 DEF outcome

(* composeQuestion cuts no more of a body than it must: with a note, every *)
(* longer prefix, closed fence and all, would outgrow the budget; without  *)
(* one, which is the title alone, every prefix would, the empty one too.   *)
THEOREM TelegramKeepsTheLongest ==
  ASSUME NEW q, HasSizes(q), NEW missed \in 0 .. MaxAttachments, NEW replies,
         TelegramText(q, missed, replies).cut
  PROVE  IF TelegramText(q, missed, replies).note
         THEN \E n \in 0 .. q.body :
                /\ TelegramText(q, missed, replies).length = CutText(q, missed, replies, n)
                /\ CutText(q, missed, replies, n) <= QuestionBudget
                /\ \A k \in n + 1 .. q.body : CutText(q, missed, replies, k) > QuestionBudget
         ELSE \A k \in 0 .. q.body : CutText(q, missed, replies, k) > QuestionBudget
<1> DEFINE full == TelegramFrame(q, missed, replies) + Part(BodyCost(q, q.body))
           fits == {n \in Nat : CutText(q, missed, replies, n) <= QuestionBudget}
           Cut(n) == CutText(q, missed, replies, n)
           text == TelegramText(q, missed, replies)
<1>1. q.body \in Nat
  BY DEF HasSizes
<1>2. /\ ~(full <= QuestionBudget)
      /\ text.note => 0 \in fits /\ text.length = Cut(SearchLongest(fits, q.body))
      /\ ~text.note => 0 \notin fits
  BY DEF TelegramText
<1>3. ASSUME NEW n \in Nat PROVE BodyCost(q, n) \in Nat
  BY DEF BodyCost
<1>4. TelegramFrame(q, missed, replies) \in Nat
  BY TelegramFrameFits
<1>5. ASSUME NEW k \in Nat, k < q.body, NEW j \in 0 .. k PROVE Cut(j) <= Cut(k)
  <2>1. BodyCost(q, j) <= BodyCost(q, k)
    BY <1>1, <1>5 DEF BodyCost
  <2>2. BodyCost(q, j) \in Nat /\ BodyCost(q, k) \in Nat
    BY <1>3
  <2> QED BY <1>4, <2>1, <2>2 DEF CutText, Part
<1>6. Cut(q.body) > full
  BY <1>1, <1>3, <1>4 DEF CutText, Part
<1>7. q.body \notin fits
  <2>1. full \in Nat
    BY <1>1, <1>3, <1>4 DEF Part
  <2>2. Cut(q.body) \in Nat
    BY <1>1, CutTextIsInt
  <2> HIDE DEF full, Cut
  <2>3. ~(Cut(q.body) <= QuestionBudget)
    BY <1>2, <1>6, <2>1, <2>2 DEF QuestionBudget, TelegramLimit, SettleReserve
  <2> QED BY <2>3 DEF Cut
<1>8. \A k \in fits \intersect 0 .. q.body : 0 .. k \subseteq fits
  <2> SUFFICES ASSUME NEW k \in fits, k \in 0 .. q.body, NEW j \in 0 .. k
               PROVE  Cut(j) <= QuestionBudget
    OBVIOUS
  <2>1. Cut(j) \in Nat /\ Cut(k) \in Nat
    BY CutTextIsInt
  <2>2. k < q.body
    <3> HIDE DEF fits
    <3> QED BY <1>1, <1>7
  <2>3. Cut(k) <= QuestionBudget
    OBVIOUS
  <2> HIDE DEF Cut
  <2> QED BY <1>5, <2>1, <2>2, <2>3 DEF QuestionBudget, TelegramLimit, SettleReserve
<1>9. ASSUME NEW k \in 0 .. q.body, k \notin fits PROVE Cut(k) > QuestionBudget
  <2>1. Cut(k) \in Nat /\ ~(Cut(k) <= QuestionBudget)
    BY <1>1, <1>9, CutTextIsInt
  <2> HIDE DEF Cut
  <2> QED BY <2>1 DEF QuestionBudget, TelegramLimit, SettleReserve
<1>10. CASE text.note
  <2> DEFINE n == SearchLongest(fits, q.body)
  <2>1. n \in 0 .. q.body /\ n \in fits /\ \A k \in fits \intersect 0 .. q.body : k <= n
    <3> HIDE DEF fits
    <3> QED BY <1>1, <1>2, <1>8, <1>10, SearchEnds
  <2>2. Cut(n) <= QuestionBudget
    BY <2>1
  <2> HIDE DEF n
  <2>3. ASSUME NEW k \in n + 1 .. q.body PROVE Cut(k) > QuestionBudget
    <3>1. k \in 0 .. q.body /\ k \notin fits
      <4> HIDE DEF fits
      <4> QED BY <1>1, <2>1
    <3> HIDE DEF Cut
    <3> QED BY <1>9, <3>1
  <2>4. text.length = Cut(n)
    BY <1>2, <1>10 DEF n
  <2> QED BY <1>10, <2>1, <2>2, <2>3, <2>4
<1>11. CASE ~text.note
  <2>1. ASSUME NEW k \in 0 .. q.body PROVE k \notin fits
    <3>1. 0 \in 0 .. k /\ 0 \notin fits
      BY <1>2, <1>11
    <3> HIDE DEF fits
    <3> QED BY <1>8, <3>1
  <2>2. ASSUME NEW k \in 0 .. q.body PROVE Cut(k) > QuestionBudget
    <3> HIDE DEF Cut, fits
    <3> QED BY <1>9, <2>1
  <2> QED BY <1>11, <2>2
<1> QED BY <1>10, <1>11

-----------------------------------------------------------------------------
(* The controls.                                                           *)

(* A grid of this width that is filled row by row has one place for each   *)
(* of 1 .. n.                                                              *)
CountOf(n, width) == (n + width - 1) \div width
LengthOf(n, width, r) == Clamp(n - (r - 1) * width, width)

IsGrid(n, width) ==
  /\ CountOf(n, width) \in Nat
  /\ \A r \in 1 .. CountOf(n, width) :
       /\ LengthOf(n, width, r) \in 1 .. width
       /\ \A k \in 1 .. LengthOf(n, width, r) :
            /\ (r - 1) * width + k \in 1 .. n
            /\ \A r2 \in 1 .. CountOf(n, width) : \A k2 \in 1 .. LengthOf(n, width, r2) :
                 (r - 1) * width + k = (r2 - 1) * width + k2 => r = r2 /\ k = k2
  /\ \A i \in 1 .. n : \E r \in 1 .. CountOf(n, width) : \E k \in 1 .. LengthOf(n, width, r) :
       (r - 1) * width + k = i

LEMMA GridOfButtons == ASSUME NEW n \in 0 .. MaxChoices, NEW width \in {3, 5} PROVE IsGrid(n, width)
<1> DEFINE rows == CountOf(n, width)
           In(r) == 1 .. LengthOf(n, width, r)
<1>1. rows \in Nat
  BY DEF CountOf, MaxChoices
<1>2. ASSUME NEW r \in 1 .. rows
      PROVE  /\ LengthOf(n, width, r) \in 1 .. width
             /\ \A k \in In(r) : k \in 1 .. width /\ (r - 1) * width + k \in 1 .. n
  <2>1. CASE width = 3
    BY <2>1 DEF CountOf, LengthOf, Clamp, MaxChoices
  <2>2. CASE width = 5
    BY <2>2 DEF CountOf, LengthOf, Clamp, MaxChoices
  <2> QED BY <2>1, <2>2
<1>3. ASSUME NEW i \in 1 .. n PROVE \E r \in 1 .. rows : \E k \in In(r) : (r - 1) * width + k = i
  <2> DEFINE r == ((i - 1) \div width) + 1
             k == ((i - 1) % width) + 1
  <2>1. r \in 1 .. rows /\ (r - 1) * width + k = i /\ k \in 1 .. width
    BY DEF CountOf, MaxChoices
  <2> HIDE DEF r, k
  <2>2. k \in In(r)
    BY <2>1 DEF LengthOf, Clamp, MaxChoices
  <2> QED BY <2>1, <2>2
<1>4. ASSUME NEW r \in 1 .. rows, NEW k \in 1 .. width, NEW r2 \in 1 .. rows, NEW k2 \in 1 .. width,
             (r - 1) * width + k = (r2 - 1) * width + k2
      PROVE  r = r2 /\ k = k2
  <2> HIDE DEF rows
  <2> QED BY <1>1, <1>4
<1> HIDE DEF rows, In
<1>5. ASSUME NEW r \in 1 .. rows, NEW k \in In(r), NEW r2 \in 1 .. rows, NEW k2 \in In(r2),
             (r - 1) * width + k = (r2 - 1) * width + k2
      PROVE  r = r2 /\ k = k2
  BY <1>2, <1>4, <1>5
<1> QED BY <1>1, <1>2, <1>3, <1>5 DEF IsGrid, rows, In

(* A select menu: one row of all. *)
LEMMA GridOfOneRow == ASSUME NEW n \in 1 .. MaxChoices PROVE IsGrid(n, n)
<1>1. CountOf(n, n) = 1
  <2>1. (n + n - 1) \div n = 1
    BY DEF MaxChoices
  <2> QED BY <2>1 DEF CountOf
<1>2. LengthOf(n, n, 1) = n
  <2>1. (1 - 1) * n = 0
    OBVIOUS
  <2> QED BY <2>1 DEF LengthOf, Clamp
<1>3. ASSUME NEW k \in Int PROVE (1 - 1) * n + k = k
  OBVIOUS
<1> QED BY <1>1, <1>2, <1>3 DEF IsGrid

ControlSet == [shows : Int, data : Int]

LEMMA LenOfRow ==
  ASSUME NEW S, NEW n \in Nat, NEW f \in [1 .. n -> S]
  PROVE  f \in Seq(S) /\ Len(f) = n
  OBVIOUS

(* Every choice is on one control, which carries its index; so is the      *)
(* free-text button where one is wanted.                                   *)
Carries(rows, n, free) ==
  /\ \A at \in Places(rows) : rows[at[1]][at[2]].shows # Write =>
       rows[at[1]][at[2]].shows \in 1 .. n /\ rows[at[1]][at[2]].data + 1 = rows[at[1]][at[2]].shows
  /\ \A i \in 1 .. n : \E at : Showing(rows, i) = {at}
  /\ IF free THEN \E at : Showing(rows, Write) = {at} ELSE Showing(rows, Write) = {}

LEMMA PlaceIn == ASSUME NEW rows, NEW at \in Places(rows)
                 PROVE  /\ at[1] \in DOMAIN rows /\ at[2] \in DOMAIN rows[at[1]]
                        /\ at = <<at[1], at[2]>>
  BY DEF Places

LEMMA PlaceOf == ASSUME NEW rows, NEW r \in DOMAIN rows, NEW k \in DOMAIN rows[r]
                 PROVE  <<r, k>> \in Places(rows)
  BY DEF Places

LEMMA ButtonsCarry ==
  ASSUME NEW n \in 0 .. MaxChoices, NEW width, width \in {3, 5} \/ (width = n /\ n # 0)
  PROVE  Carries(ButtonRows(n, width), n, FALSE)
<1> DEFINE rows == ButtonRows(n, width)
           Row(r) == 1 .. LengthOf(n, width, r)
           shown(r, k) == (r - 1) * width + k
<1>1. IsGrid(n, width)
  BY GridOfButtons, GridOfOneRow DEF MaxChoices
<1>2. /\ DOMAIN rows = 1 .. CountOf(n, width)
      /\ \A r \in DOMAIN rows : /\ DOMAIN rows[r] = Row(r)
                                /\ \A k \in Row(r) : rows[r][k] = Control(shown(r, k), shown(r, k) - 1)
  BY DEF ButtonRows, CountOf, LengthOf
<1>3. ASSUME NEW r \in DOMAIN rows, NEW k \in Row(r)
      PROVE  /\ rows[r][k].shows = shown(r, k) /\ rows[r][k].data = shown(r, k) - 1
             /\ shown(r, k) \in 1 .. n
  <2>1. rows[r][k].shows = shown(r, k) /\ rows[r][k].data = shown(r, k) - 1
    <3>1. rows[r][k] = Control(shown(r, k), shown(r, k) - 1)
      BY <1>2
    <3> HIDE DEF rows, shown
    <3> QED BY <3>1 DEF Control
  <2>2. shown(r, k) \in 1 .. n
    BY <1>1, <1>2 DEF IsGrid
  <2> QED BY <2>1, <2>2
<1>4. ASSUME NEW r \in DOMAIN rows, NEW k \in Row(r), NEW r2 \in DOMAIN rows, NEW k2 \in Row(r2),
             shown(r, k) = shown(r2, k2)
      PROVE  r = r2 /\ k = k2
  BY <1>1, <1>2, <1>4 DEF IsGrid
<1>5. ASSUME NEW i \in 1 .. n PROVE \E r \in DOMAIN rows : \E k \in Row(r) : shown(r, k) = i
  BY <1>1, <1>2 DEF IsGrid
<1> HIDE DEF rows, Row, shown
<1>6. ASSUME NEW at \in Places(rows)
      PROVE  /\ rows[at[1]][at[2]].shows \in 1 .. n
             /\ rows[at[1]][at[2]].data + 1 = rows[at[1]][at[2]].shows
  <2>1. at[1] \in DOMAIN rows /\ at[2] \in Row(at[1])
    BY <1>2, PlaceIn
  <2> QED BY <1>3, <2>1
<1>7. ASSUME NEW i \in 1 .. n PROVE \E at : Showing(rows, i) = {at}
  <2>0. PICK r \in DOMAIN rows : \E k \in Row(r) : shown(r, k) = i
    BY <1>5
  <2>1. PICK k \in Row(r) : shown(r, k) = i
    BY <2>0
  <2>2. <<r, k>> \in Showing(rows, i)
    BY <1>2, <1>3, <2>1, PlaceOf DEF Showing
  <2>3. ASSUME NEW at \in Showing(rows, i) PROVE at = <<r, k>>
    <3>1. at[1] \in DOMAIN rows /\ at[2] \in Row(at[1]) /\ at = <<at[1], at[2]>>
      BY <1>2, PlaceIn DEF Showing
    <3>2. shown(at[1], at[2]) = i
      BY <1>3, <3>1 DEF Showing
    <3> QED BY <1>4, <2>1, <3>1, <3>2
  <2> QED BY <2>2, <2>3
<1>8. Showing(rows, Write) = {}
  BY <1>6 DEF Showing, Write
<1> QED BY <1>6, <1>7, <1>8 DEF Carries, rows

LEMMA OneMoreControl ==
  ASSUME NEW n \in Nat, NEW rows, Carries(rows, n, FALSE), NEW more, NEW new,
         new \notin Places(rows), Places(more) = Places(rows) \union {new},
         more[new[1]][new[2]] = Control(Write, Write),
         \A at \in Places(rows) : more[at[1]][at[2]] = rows[at[1]][at[2]]
  PROVE  Carries(more, n, TRUE)
<1>1. more[new[1]][new[2]].shows = Write
  BY DEF Control
<1>2. ASSUME NEW i \in 1 .. n PROVE Showing(more, i) = Showing(rows, i)
  BY <1>1 DEF Showing, Write
<1>3. Showing(more, Write) = {new}
  <2>1. Showing(rows, Write) = {}
    BY DEF Carries
  <2> QED BY <1>1, <2>1 DEF Showing
<1>4. ASSUME NEW at \in Places(more), more[at[1]][at[2]].shows # Write
      PROVE  /\ more[at[1]][at[2]].shows \in 1 .. n
             /\ more[at[1]][at[2]].data + 1 = more[at[1]][at[2]].shows
  <2>1. at \in Places(rows)
    BY <1>1, <1>4
  <2> QED BY <1>4, <2>1 DEF Carries
<1>5. ASSUME NEW i \in 1 .. n PROVE \E at : Showing(more, i) = {at}
  BY <1>2 DEF Carries
<1> QED BY <1>3, <1>4, <1>5 DEF Carries

LEMMA ButtonsAreRows ==
  ASSUME NEW n \in 0 .. MaxChoices, NEW width, width \in {3, 5} \/ (width = n /\ n # 0)
  PROVE  /\ ButtonRows(n, width) \in Seq(Seq(ControlSet))
         /\ Len(ButtonRows(n, width)) = CountOf(n, width)
         /\ \A r \in 1 .. CountOf(n, width) : /\ Len(ButtonRows(n, width)[r]) = LengthOf(n, width, r)
                                              /\ LengthOf(n, width, r) \in 1 .. width
<1> DEFINE Row(r) == [k \in 1 .. LengthOf(n, width, r) |->
                        Control((r - 1) * width + k, (r - 1) * width + k - 1)]
           rows == CountOf(n, width)
<1>1. IsGrid(n, width)
  BY GridOfButtons, GridOfOneRow DEF MaxChoices
<1>2. ButtonRows(n, width) = [r \in 1 .. rows |-> Row(r)]
  BY DEF ButtonRows, CountOf, LengthOf
<1>3. rows \in Nat /\ \A r \in 1 .. rows : LengthOf(n, width, r) \in 1 .. width
  BY <1>1 DEF IsGrid
<1>4. ASSUME NEW r \in 1 .. rows
      PROVE  Row(r) \in Seq(ControlSet) /\ Len(Row(r)) = LengthOf(n, width, r)
  <2>1. (r - 1) * width \in Int /\ LengthOf(n, width, r) \in Nat
    <3>1. width \in Int
      OBVIOUS
    <3>2. LengthOf(n, width, r) \in Nat
      BY <1>3, <3>1
    <3> QED BY <1>3, <3>1, <3>2
  <2>2. Row(r) \in [1 .. LengthOf(n, width, r) -> ControlSet]
    BY <2>1 DEF Control, ControlSet
  <2> QED BY <2>1, <2>2, LenOfRow
<1> HIDE DEF rows, Row
<1>5. ButtonRows(n, width) \in [1 .. rows -> Seq(ControlSet)]
  BY <1>2, <1>4
<1>6. ButtonRows(n, width) \in Seq(Seq(ControlSet)) /\ Len(ButtonRows(n, width)) = rows
  BY <1>3, <1>5, LenOfRow
<1> QED BY <1>2, <1>3, <1>4, <1>6 DEF rows

(* buildComponents, for up to twenty choices and for more.                 *)
LEMMA WriteInANewRow ==
  ASSUME NEW n \in Nat, NEW rows \in Seq(Seq(ControlSet)), Carries(rows, n, FALSE)
  PROVE  Carries(Append(rows, <<Control(Write, Write)>>), n, TRUE)
<1> DEFINE row  == <<Control(Write, Write)>>
           more == Append(rows, row)
           new  == <<Len(rows) + 1, 1>>
<1>1. DOMAIN row = {1} /\ row[1] = Control(Write, Write)
  OBVIOUS
<1> HIDE DEF row
<1>2. /\ DOMAIN more = DOMAIN rows \union {Len(rows) + 1} /\ Len(rows) + 1 \notin DOMAIN rows
      /\ \A r \in DOMAIN rows : more[r] = rows[r]
      /\ more[Len(rows) + 1] = row
  OBVIOUS
<1> HIDE DEF more
<1>3. new \notin Places(rows)
  BY <1>2 DEF Places
<1>4. Places(more) = Places(rows) \union {new}
  <2>1. ASSUME NEW at \in Places(more) PROVE at \in Places(rows) \union {new}
    <3>1. at[1] \in DOMAIN more /\ at[2] \in DOMAIN more[at[1]] /\ at = <<at[1], at[2]>>
      BY PlaceIn
    <3>2. CASE at[1] \in DOMAIN rows
      BY <1>2, <3>1, <3>2, PlaceOf
    <3>3. CASE at[1] = Len(rows) + 1
      BY <1>1, <1>2, <3>1, <3>3
    <3> QED BY <1>2, <3>1, <3>2, <3>3
  <2>2. ASSUME NEW at \in Places(rows) PROVE at \in Places(more)
    BY <1>2, PlaceIn, PlaceOf
  <2>3. new \in Places(more)
    BY <1>1, <1>2, PlaceOf
  <2> QED BY <2>1, <2>2, <2>3
<1>5. more[new[1]][new[2]] = Control(Write, Write)
  BY <1>1, <1>2
<1>6. \A at \in Places(rows) : more[at[1]][at[2]] = rows[at[1]][at[2]]
  BY <1>2, PlaceIn
<1> HIDE DEF new
<1>7. Carries(more, n, TRUE)
  BY <1>3, <1>4, <1>5, <1>6, OneMoreControl
<1> QED BY <1>7 DEF more, row

LEMMA WriteInTheLastRow ==
  ASSUME NEW n \in Nat, NEW rows \in Seq(Seq(ControlSet)), Len(rows) # 0, Carries(rows, n, FALSE)
  PROVE  Carries([rows EXCEPT ![Len(rows)] = Append(@, Control(Write, Write))], n, TRUE)
<1> DEFINE last == Len(rows)
           row  == Append(rows[last], Control(Write, Write))
           more == [rows EXCEPT ![last] = row]
           new  == <<last, Len(rows[last]) + 1>>
<1>1. last \in DOMAIN rows /\ rows[last] \in Seq(ControlSet) /\ Control(Write, Write) \in ControlSet
  BY DEF Control, ControlSet, Write
<1> HIDE DEF last
<1>2. /\ DOMAIN row = DOMAIN rows[last] \union {Len(rows[last]) + 1}
      /\ Len(rows[last]) + 1 \notin DOMAIN rows[last]
      /\ \A k \in DOMAIN rows[last] : row[k] = rows[last][k]
      /\ row[Len(rows[last]) + 1] = Control(Write, Write)
  BY <1>1
<1> HIDE DEF row
<1>3. /\ DOMAIN more = DOMAIN rows /\ more[last] = row
      /\ \A r \in DOMAIN rows : r # last => more[r] = rows[r]
  BY <1>1
<1> HIDE DEF more
<1>4. new \notin Places(rows)
  BY <1>2 DEF Places
<1>5. Places(more) = Places(rows) \union {new}
  <2>1. ASSUME NEW at \in Places(more) PROVE at \in Places(rows) \union {new}
    <3>1. at[1] \in DOMAIN rows /\ at[2] \in DOMAIN more[at[1]] /\ at = <<at[1], at[2]>>
      BY <1>3, PlaceIn
    <3>2. CASE at[1] # last
      BY <1>3, <3>1, <3>2, PlaceOf
    <3>3. CASE at[1] = last
      <4>1. at[2] \in DOMAIN rows[last] \/ at[2] = Len(rows[last]) + 1
        BY <1>2, <1>3, <3>1, <3>3
      <4> QED BY <1>1, <3>1, <3>3, <4>1, PlaceOf
    <3> QED BY <3>2, <3>3
  <2>2. ASSUME NEW at \in Places(rows) PROVE at \in Places(more)
    <3>1. at[1] \in DOMAIN rows /\ at[2] \in DOMAIN rows[at[1]] /\ at = <<at[1], at[2]>>
      BY PlaceIn
    <3>2. at[2] \in DOMAIN more[at[1]]
      BY <1>2, <1>3, <3>1
    <3> QED BY <1>3, <3>1, <3>2, PlaceOf
  <2>3. new \in Places(more)
    BY <1>1, <1>2, <1>3, PlaceOf
  <2> QED BY <2>1, <2>2, <2>3
<1>6. more[new[1]][new[2]] = Control(Write, Write)
  BY <1>2, <1>3
<1>7. \A at \in Places(rows) : more[at[1]][at[2]] = rows[at[1]][at[2]]
  <2> SUFFICES ASSUME NEW at \in Places(rows) PROVE more[at[1]][at[2]] = rows[at[1]][at[2]]
    OBVIOUS
  <2>1. at[1] \in DOMAIN rows /\ at[2] \in DOMAIN rows[at[1]]
    BY PlaceIn
  <2>2. CASE at[1] = last
    BY <1>2, <1>3, <2>1, <2>2
  <2>3. CASE at[1] # last
    BY <1>3, <2>1, <2>3
  <2> QED BY <2>2, <2>3
<1> HIDE DEF new
<1>8. Carries(more, n, TRUE)
  BY <1>4, <1>5, <1>6, <1>7, OneMoreControl
<1> QED BY <1>8 DEF more, row, last

LEMMA DiscordRowsCarry ==
  ASSUME NEW n \in 0 .. MaxChoices, NEW free \in BOOLEAN
  PROVE  Carries(DiscordRows(n, free), n, free)
<1> DEFINE width == IF n > SelectMenuThreshold THEN n ELSE 5
           rows  == ButtonRows(n, width)
<1>1. width \in {3, 5} \/ (width = n /\ n # 0)
  BY DEF SelectMenuThreshold
<1>2. DiscordRows(n, free) =
        IF ~free THEN rows
        ELSE IF n % 5 # 0 /\ n <= SelectMenuThreshold
             THEN [rows EXCEPT ![Len(rows)] = Append(@, Control(Write, Write))]
             ELSE Append(rows, <<Control(Write, Write)>>)
  BY DEF DiscordRows
<1>3. n % 5 # 0 /\ n <= SelectMenuThreshold => CountOf(n, width) # 0
  BY DEF SelectMenuThreshold, CountOf
<1> HIDE DEF width
<1>4. /\ rows \in Seq(Seq(ControlSet)) /\ Len(rows) = CountOf(n, width)
      /\ Carries(rows, n, FALSE)
  BY <1>1, ButtonsAreRows, ButtonsCarry
<1> HIDE DEF rows
<1>5. CASE ~free
  BY <1>2, <1>4, <1>5
<1>6. CASE free
  <2> n \in Nat
    BY DEF MaxChoices
  <2>1. CASE n % 5 # 0 /\ n <= SelectMenuThreshold
    <3>1. Carries([rows EXCEPT ![Len(rows)] = Append(@, Control(Write, Write))], n, TRUE)
      BY <1>3, <1>4, <2>1, WriteInTheLastRow
    <3> QED BY <1>2, <1>6, <2>1, <3>1
  <2>2. CASE ~(n % 5 # 0 /\ n <= SelectMenuThreshold)
    <3>1. Carries(Append(rows, <<Control(Write, Write)>>), n, TRUE)
      BY <1>4, WriteInANewRow
    <3> QED BY <1>2, <1>6, <2>2, <3>1
  <2> QED BY <2>1, <2>2
<1> QED BY <1>5, <1>6

LEMMA DiscordTakesTheRows ==
  ASSUME NEW n \in Nat, n <= MaxChoices, NEW free \in BOOLEAN
  PROVE  RowsFit(DiscordRows(n, free))
<1> DEFINE width == IF n > SelectMenuThreshold THEN n ELSE 5
           rows  == ButtonRows(n, width)
           count == (n + width - 1) \div width
           write == <<Control(Write, Write)>>
<1>1. width \in {5, n} /\ width # 0
  BY DEF SelectMenuThreshold
<1>2. count \in 0 .. 4 /\ (n > SelectMenuThreshold => count = 1)
  <2>1. CASE n > SelectMenuThreshold
    BY <2>1 DEF SelectMenuThreshold
  <2>2. CASE ~(n > SelectMenuThreshold)
    BY <2>2 DEF SelectMenuThreshold
  <2> QED BY <2>1, <2>2
<1>3. /\ rows \in Seq(Seq(ControlSet)) /\ Len(rows) = count
      /\ \A r \in 1 .. count : Len(rows[r]) \in 1 .. width /\ Len(rows[r]) <= 25
  <2>1. width \in {3, 5} \/ (width = n /\ n # 0)
    BY <1>1
  <2>2. n \in 0 .. MaxChoices /\ width \in 1 .. 25
    BY <1>1 DEF MaxChoices
  <2> HIDE DEF width
  <2>3. /\ rows \in Seq(Seq(ControlSet)) /\ Len(rows) = CountOf(n, width)
        /\ \A r \in 1 .. CountOf(n, width) : /\ Len(rows[r]) = LengthOf(n, width, r)
                                            /\ LengthOf(n, width, r) \in 1 .. width
    BY <2>1, <2>2, ButtonsAreRows
  <2>4. CountOf(n, width) = count
    BY DEF CountOf
  <2> HIDE DEF rows, count
  <2> QED BY <2>2, <2>3, <2>4
<1>4. DiscordRows(n, free) =
        IF ~free THEN rows
        ELSE IF n % 5 # 0 /\ n <= SelectMenuThreshold
             THEN [rows EXCEPT ![Len(rows)] = Append(@, Control(Write, Write))]
             ELSE Append(rows, write)
  BY DEF DiscordRows
<1>5. Control(Write, Write) \in ControlSet
  BY DEF Control, ControlSet, Write
<1>6. n % 5 # 0 /\ n <= SelectMenuThreshold => width = 5 /\ count \in 1 .. 4
  BY DEF SelectMenuThreshold
<1> HIDE DEF rows, count, width
<1>7. ASSUME n % 5 # 0 /\ n <= SelectMenuThreshold, NEW r \in 1 .. count
       PROVE  Len(rows[r]) <= 5
  BY <1>3, <1>6, <1>7
<1>8. CASE ~free
  BY <1>2, <1>3, <1>4, <1>8 DEF RowsFit
<1>9. CASE free /\ n % 5 # 0 /\ n <= SelectMenuThreshold
  <2> DEFINE last == Append(rows[Len(rows)], Control(Write, Write))
             full == [rows EXCEPT ![Len(rows)] = last]
  <2>1. Len(last) <= 6 /\ last \in Seq(ControlSet)
    BY <1>3, <1>5, <1>6, <1>9, <1>7
  <2> HIDE DEF last
  <2>2. full \in Seq(Seq(ControlSet)) /\ Len(full) = count
    <3>1. rows \in [1 .. count -> Seq(ControlSet)]
      BY <1>3
    <3>2. full \in [1 .. count -> Seq(ControlSet)]
      BY <2>1, <3>1
    <3> HIDE DEF full
    <3> QED BY <1>2, <3>2, LenOfRow
  <2>3. \A r \in DOMAIN full : Len(full[r]) <= 25
    BY <1>3, <2>1
  <2>4. DiscordRows(n, free) = full
    BY <1>4, <1>9 DEF last
  <2> QED BY <1>2, <2>2, <2>3, <2>4 DEF RowsFit
<1>10. CASE free /\ ~(n % 5 # 0 /\ n <= SelectMenuThreshold)
  <2>1. write \in Seq(ControlSet) /\ Len(write) = 1
    BY <1>5
  <2> HIDE DEF write
  <2>2. /\ Len(Append(rows, write)) = count + 1
        /\ \A r \in DOMAIN Append(rows, write) : Len(Append(rows, write)[r]) <= 25
    <3>1. Len(Append(rows, write)) = count + 1 /\ DOMAIN Append(rows, write) = 1 .. count + 1
      BY <1>2, <1>3, <2>1
    <3>2. ASSUME NEW r \in 1 .. count PROVE Append(rows, write)[r] = rows[r]
      BY <1>2, <1>3, <2>1
    <3>3. ASSUME NEW r, r = count + 1 PROVE Append(rows, write)[r] = write
      BY <1>2, <1>3, <2>1, <3>3
    <3>4. ASSUME NEW r \in 1 .. count + 1 PROVE Len(Append(rows, write)[r]) <= 25
      <4>1. CASE r = count + 1
        <5>1. Append(rows, write)[r] = write
          BY <3>3, <4>1, Zenon
        <5>2. Len(Append(rows, write)[r]) = 1
          BY <2>1, <5>1, Zenon
        <5> QED BY <5>2
      <4>2. CASE r \in 1 .. count
        BY <1>3, <3>2, <4>2
      <4>3. r = count + 1 \/ r \in 1 .. count
        BY <1>2
      <4> QED BY <4>1, <4>2, <4>3
    <3> QED BY <3>1, <3>4
  <2> QED BY <1>2, <1>4, <1>10, <2>2 DEF RowsFit
<1> QED BY <1>8, <1>9, <1>10

-----------------------------------------------------------------------------
(* The invariant.                                                          *)

Asked == {"posting", "open", "done"}
Reasons == {"usage", "attachment", "invalid", "unavailable", "undelivered"}

(* Who it goes to.  Nothing is posted before the checks were passed.       *)
Targets ==
  /\ IF pc = "refused" THEN why \in Reasons ELSE why = ""
  /\ files \subseteq DOMAIN Flags.attach
  /\ DOMAIN posted \union todo \subseteq input.up
  /\ DOMAIN posted \intersect todo = {}
  /\ DOMAIN posted # {} => pc \in Asked
  /\ pc \in Asked => Validate(request)

(* A message of m.  Its controls are there until it is settled.            *)
RowsFor(m) ==
  IF m = Telegram THEN TelegramRows(Len(request.choices))
  ELSE IF request.notice THEN <<>> ELSE DiscordRows(Len(request.choices), request.free)

Takes(m, message) ==
  /\ DOMAIN message = {"length", "lost", "rows", "reply", "open"}
  /\ message.rows = IF message.open THEN RowsFor(m) ELSE <<>>
  /\ message.length \in 0 .. (IF m = Discord THEN DiscordLimit
                              ELSE IF message.open THEN QuestionBudget ELSE TelegramLimit)
  /\ message.lost => \/ m = Discord /\ Flags.label > LabelRoom
                     \/ m = Telegram /\ Flags.nameScript = "markup" /\ Len(Flags.attach) > NamesRoom

Shown == \A m \in DOMAIN posted : Takes(m, posted[m])

(* The answer.  Only an answer can follow the use of a control, and only   *)
(* one: it is looked up in choices that no longer change.                  *)
Answered ==
  /\ pressed \in {Unset, Write} \union 1 .. MaxChoices
  /\ pressed # Unset => /\ DOMAIN posted # {} /\ ~request.notice
                        /\ answer.status = "answered" /\ answer.text = pressed
  /\ pressed \in 1 .. MaxChoices =>
       /\ answer.label = pressed
       /\ \A i \in DOMAIN request.choices : request.choices[i] = answer.id <=> i = pressed
  /\ pressed = Write => answer.id = Unset
  /\ pc = "done" /\ pressed # Unset => printed = pressed
  /\ answer.status \in {"none", "answered", "timeout", "canceled"}
  /\ answer.text \in {Unset} \union 0 .. MaxChoices
  /\ answer.length \in Nat
  /\ answer # NoAnswer => pc \notin {"cli", "wire", "daemon"}
  /\ printed \in {Unset, Fallback} \union 0 .. MaxChoices

(* What the checks left of the request, and where it may go.               *)
LEMMA RequestHasSizes ==
  ASSUME IInv, pc \in {"daemon", "posting", "open", "done"}
  PROVE  /\ HasSizes(request) /\ request.label = Flags.label
         /\ request.nameScript = Flags.nameScript /\ request.attach = Flags.attach
         /\ request.choices \in Seq(Nat) /\ request.attach \in Seq(Nat)
         /\ request.free \in BOOLEAN
<1>1. /\ request.title = Flags.title /\ request.label = Flags.label /\ request.body = Flags.body
      /\ request.name = Flags.name /\ request.nameScript = Flags.nameScript
      /\ request.attach = Flags.attach
      /\ request.choices = IF Flags.notice THEN <<>> ELSE Flags.choices
      /\ request.free = (Flags.free /\ ~Flags.notice)
  BY DEF IInv, RequestInv, FillIn, Params
<1>2. Flags.title \in Nat /\ Flags.label \in Nat /\ Flags.body \in Nat /\ Flags.name \in Nat
  BY CasesAssumption DEF IInv, Flags
<1>3. Flags.choices \in Seq(Nat) /\ Flags.attach \in Seq(Nat) /\ Flags.free \in BOOLEAN
  BY CasesAssumption DEF IInv, Flags
<1>4. request.choices \in Seq(Nat)
  BY <1>1, <1>3
<1>5. request.free \in BOOLEAN
  BY <1>1
<1> QED BY <1>1, <1>2, <1>3, <1>4, <1>5 DEF HasSizes

LEMMA SomebodyIsAsked ==
  ASSUME IInv, pc \in Asked
  PROVE  request.transports # {} /\ input.up # {}
<1> DEFINE cfg == Load(input.daemon)
<1>1. input.up # {} /\ input.up \subseteq EnabledTransports(cfg)
  BY CasesAssumption DEF IInv
<1>2. DefaultTransports(cfg) # {}
  BY <1>1 DEF DefaultTransports
<1> HIDE DEF cfg
<1>3. request = FillIn(Params(Load(input.asker)), cfg)
  BY DEF IInv, RequestInv, Asked, cfg
<1>4. request.transports = IF Params(Load(input.asker)).transports = {} THEN DefaultTransports(cfg)
                           ELSE Params(Load(input.asker)).transports
  BY <1>3 DEF FillIn, Params
<1> QED BY <1>1, <1>2, <1>4

-----------------------------------------------------------------------------
LEMMA StepTargets == IInv /\ Targets /\ [Next]_vars => Targets'
<1> SUFFICES ASSUME IInv, Targets, [Next]_vars PROVE Targets'
  OBVIOUS
<1>1. ASSUME NEW reason \in Reasons, Refuse(reason), DOMAIN posted = {} PROVE Targets'
  BY <1>1 DEF Refuse, Targets, Flags, Asked
<1>2. CASE Build
  BY <1>1, <1>2 DEF Build, IInv, RequestInv, Targets, Flags, Asked, Reasons
<1>3. CASE Receive
  BY <1>1, <1>3 DEF Receive, IInv, RequestInv, Targets, Flags, Asked, Reasons
<1>4. CASE Submit
  <2>1. CASE ~(Validate(request) /\ request.transports \subseteq input.up)
    BY <1>1, <1>4, <2>1 DEF Submit, IInv, RequestInv, Reasons
  <2>2. CASE Validate(request) /\ request.transports \subseteq input.up
    <3>1. /\ pc' = "posting" /\ UNCHANGED <<input, why, files, request, posted>>
          /\ todo' \subseteq input.up /\ DOMAIN posted = {} /\ pc = "daemon"
      BY <1>4, <2>2 DEF Submit, IInv, RequestInv
    <3>2. Validate(request)'
      BY <2>2, <3>1 DEF Validate
    <3> QED BY <3>1, <3>2 DEF Targets, Flags, Asked
  <2> QED BY <2>1, <2>2
<1>5. CASE Fanout
  <2>1. CASE DOMAIN posted = {}
    BY <1>1, <1>5, <2>1 DEF Fanout, Reasons
  <2>2. CASE DOMAIN posted # {}
    BY <1>5, <2>2 DEF Fanout, Targets, Flags, Asked, Validate
  <2> QED BY <2>1, <2>2
<1>6. ASSUME NEW m, PostOf(m), NEW message, Delivered(m, message) PROVE Targets'
  <2>1. /\ pc = "posting" /\ m \in todo /\ todo' = todo \ {m}
        /\ DOMAIN posted' = DOMAIN posted \union {m}
        /\ UNCHANGED <<input, pc, why, files, request>>
    BY <1>6 DEF PostOf, Delivered
  <2> QED BY <2>1 DEF Targets, Flags, Asked, Validate
<1>7. CASE PostDiscord
  BY <1>6, <1>7 DEF PostDiscord
<1>8. CASE \E missed \in 0 .. Len(request.attach) : PostTelegram(missed)
  BY <1>6, <1>8 DEF PostTelegram
<1>9. CASE \E m \in Messengers : PostFails(m)
  BY <1>9 DEF PostFails, PostOf, Targets, Flags, Asked, Validate
<1>10. CASE Later
  <2>1. /\ input' = input /\ request' = request /\ todo' = todo /\ why' = why
        /\ DOMAIN posted' = DOMAIN posted /\ files' \subseteq files
        /\ pc' = pc \/ (pc = "open" /\ pc' = "done")
    BY <1>10, LaterIsQuiet
  <2> QED BY <2>1 DEF Targets, Flags, Asked, Validate
<1> QED BY <1>2, <1>3, <1>4, <1>5, <1>7, <1>8, <1>9, <1>10 DEF Next, Later

-----------------------------------------------------------------------------
LEMMA StepShown == IInv /\ Targets /\ Shown /\ Answered /\ [Next]_vars => Shown'
<1> SUFFICES ASSUME IInv, Targets, Shown, Answered, [Next]_vars PROVE Shown'
  OBVIOUS
<1>1. ASSUME DOMAIN posted' = {} PROVE Shown'
  BY <1>1 DEF Shown
<1>2. ASSUME posted' = posted, request' = request, input' = input PROVE Shown'
  BY <1>2 DEF Shown, Takes, RowsFor, Flags
<1>3. CASE Build \/ Receive \/ Submit
  BY <1>1, <1>3 DEF Build, Receive, Submit, Refuse, IInv, RequestInv
<1>4. CASE Fanout \/ Expire \/ Report \/ Terminated \/ UNCHANGED vars
  BY <1>2, <1>4 DEF Fanout, Refuse, Expire, End, Report, Terminated, vars
<1>5. ASSUME NEW m, NEW message, Delivered(m, message), Takes(m, message) PROVE Shown'
  <2>1. /\ UNCHANGED <<input, request>>
        /\ DOMAIN posted' = DOMAIN posted \union {m}
        /\ posted'[m] = message /\ \A x \in DOMAIN posted \ {m} : posted'[x] = posted[x]
    BY <1>5 DEF Delivered
  <2>2. \A x \in DOMAIN posted' : Takes(x, posted'[x])
    BY <1>5, <2>1 DEF Shown
  <2> QED BY <2>1, <2>2 DEF Shown, Takes, RowsFor, Flags
<1>6. CASE PostDiscord
  <2> DEFINE text    == DiscordContent(request, ~request.notice)
             message == Message(text, RowsFor(Discord), FALSE)
  <2>1. Delivered(Discord, message)
    BY <1>6, MessengersAssumption DEF PostDiscord, RowsFor
  <2>2. request.title <= MaxTitleLen /\ request.label = Flags.label /\ Flags.label \in Nat
    BY <1>6, RequestHasSizes DEF PostDiscord, PostOf, Targets, Validate, Asked, HasSizes
  <2>3. text.length \in 0 .. DiscordLimit /\ (request.label <= LabelRoom /\ text.cut => text.note)
    BY <1>6, <2>2, RequestHasSizes, ContentFits DEF PostDiscord, PostOf, HasSizes
  <2> HIDE DEF text
  <2>4. text.cut /\ ~text.note => Flags.label > LabelRoom
    BY <2>2, <2>3 DEF LabelRoom
  <2>5. Takes(Discord, message)
    BY <2>3, <2>4 DEF Message, Takes
  <2> HIDE DEF message
  <2> QED BY <1>5, <2>1, <2>5
<1>7. CASE \E missed \in 0 .. Len(request.attach) : PostTelegram(missed)
  <2>1. PICK missed \in 0 .. Len(request.attach) : PostTelegram(missed)
    BY <1>7
  <2> DEFINE text    == TelegramText(request, missed, ~input.channel)
             message == Message(text, RowsFor(Telegram), request.free /\ ~input.channel)
  <2>2. Delivered(Telegram, message)
    BY <2>1 DEF PostTelegram, RowsFor
  <2>3. missed \in 0 .. MaxAttachments
    <3>1. Len(request.attach) \in Nat
      BY <2>1, RequestHasSizes DEF PostTelegram, PostOf
    <3>2. Len(request.attach) <= MaxAttachments
      BY <2>1 DEF PostTelegram, PostOf, Targets, Validate, Asked
    <3> QED BY <3>1, <3>2 DEF MaxAttachments
  <2>4. /\ text.length \in 0 .. QuestionBudget
        /\ NamesAreFew(request, missed) /\ text.cut => text.note
    BY <2>1, <2>3, RequestHasSizes, TelegramTextFits DEF PostTelegram, PostOf
  <2>5. ~NamesAreFew(request, missed) =>
          Flags.nameScript = "markup" /\ Len(Flags.attach) > NamesRoom
    <3>1. request.nameScript = Flags.nameScript /\ request.attach = Flags.attach
      BY <2>1, RequestHasSizes DEF PostTelegram, PostOf
    <3>2. Len(request.attach) \in Nat
      BY <2>1, RequestHasSizes DEF PostTelegram, PostOf
    <3> QED BY <3>1, <3>2 DEF NamesAreFew, NamesRoom
  <2> HIDE DEF text
  <2>6. Takes(Telegram, message)
    BY <2>4, <2>5, MessengersAssumption DEF Message, Takes
  <2> HIDE DEF message
  <2> QED BY <1>5, <2>2, <2>6
<1>8. CASE \E m \in Messengers : PostFails(m)
  BY <1>2, <1>8 DEF PostFails
<1>9. CASE \E m \in Messengers : Settle(m)
  <2>1. PICK m \in Messengers : Settle(m)
    BY <1>9
  <2> DEFINE shown   == IF answer.label # Unset THEN MaxLabelLen ELSE answer.length
             length  == IF m = Telegram
                        THEN TelegramSettled(posted[m].length, TelegramOutcome(answer.status, shown))
                        ELSE DiscordSettled(request, DiscordOutcome(answer.status, shown))
             settled == [posted[m] EXCEPT !.length = length, !.rows = <<>>, !.open = FALSE]
  <2>2. /\ m \in DOMAIN posted /\ posted[m].open /\ pc = "open" /\ UNCHANGED <<request, input>>
        /\ posted' = [posted EXCEPT ![m] = settled]
    BY <2>1 DEF Settle
  <2>3. Takes(m, posted[m])
    BY <2>2 DEF Shown
  <2>4. shown \in Nat
    BY DEF Answered, MaxLabelLen
  <2> HIDE DEF shown
  <2>5. m = Telegram => length \in 0 .. TelegramLimit
    <3>1. m = Telegram => posted[m].length \in 0 .. QuestionBudget
      BY <2>2, <2>3, MessengersAssumption DEF Takes
    <3> QED BY <2>4, <3>1, TelegramSettledFits
  <2>6. m = Discord => length \in 0 .. DiscordLimit
    <3>1. DiscordOutcome(answer.status, shown) \in 0 .. DiscordLimit - 2
      BY <2>4, OutcomeFits DEF DiscordLimit
    <3> QED BY <2>2, <3>1, RequestHasSizes, SettledFits, MessengersAssumption DEF HasSizes
  <2> HIDE DEF length
  <2>7. Takes(m, settled)
    <3>1. /\ DOMAIN settled = {"length", "lost", "rows", "reply", "open"}
          /\ settled.rows = <<>> /\ settled.open = FALSE
          /\ settled.length = length /\ settled.lost = posted[m].lost
      BY <2>3 DEF Takes
    <3> HIDE DEF settled
    <3> QED BY <2>1, <2>3, <2>5, <2>6, <3>1, MessengersAssumption DEF Takes
  <2> HIDE DEF settled
  <2>8. \A x \in DOMAIN posted' : Takes(x, posted'[x])
    BY <2>2, <2>7 DEF Shown
  <2> QED BY <2>2, <2>8 DEF Shown, Takes, RowsFor, Flags
<1>10. CASE \E m \in DOMAIN posted : \E r \in DOMAIN posted[m].rows :
              \E k \in DOMAIN posted[m].rows[r] : Press(m, r, k)
  BY <1>2, <1>10 DEF Press, Resolve
<1>11. CASE \E length \in TextLengths :
              Cancel(length) \/ AnswerHere(Unset, Write, length) \/ \E m \in Messengers : Type(m, length)
  BY <1>2, <1>11 DEF Cancel, End, AnswerHere, Type, Resolve
<1>12. CASE \E id \in 1 .. Len(request.choices) + 1 : AnswerHere(id, Unset, 0)
  BY <1>2, <1>12 DEF AnswerHere, Resolve
<1>13. CASE \E i \in files : LoseFile(i)
  BY <1>2, <1>13 DEF LoseFile
<1> QED BY <1>3, <1>4, <1>6, <1>7, <1>8, <1>9, <1>10, <1>11, <1>12, <1>13 DEF Next

-----------------------------------------------------------------------------
(* The choice that an id names. *)
LEMMA ChoiceIsFound ==
  ASSUME request.choices \in Seq(Nat), NEW id
  PROVE  /\ ChoiceByID(id) \in 0 .. Len(request.choices)
         /\ IsInjective(request.choices) =>
              \A i \in DOMAIN request.choices : request.choices[i] = id => ChoiceByID(id) = i
<1> DEFINE I == {i \in DOMAIN request.choices : request.choices[i] = id}
<1>0. DOMAIN request.choices = 1 .. Len(request.choices) /\ Len(request.choices) \in Nat
  OBVIOUS
<1>1. ChoiceByID(id) = IF I = {} THEN 0 ELSE CHOOSE i \in I : \A j \in I : i <= j
  BY DEF ChoiceByID, Min
<1>2. CASE I = {}
  BY <1>1, <1>2
<1>3. CASE I # {}
  <2>1. \E i \in I : \A j \in I : i <= j
    <3> DEFINE T == {n \in Nat : \A i \in 1 .. n : i \notin I}
    <3>0. I \subseteq Nat \ {0}
      BY <1>0
    <3> HIDE DEF I
    <3>1. PICK k \in I : k \in Nat \ {0}
      BY <1>3, <3>0
    <3>2. CASE \A n \in Nat : n \in T => n + 1 \in T
      <4>1. 0 \in T
        OBVIOUS
      <4> HIDE DEF T
      <4>2. k \in T
        BY <3>1, <3>2, <4>1, SetInduction
      <4> QED BY <3>1, <4>2 DEF T
    <3>3. CASE ~\A n \in Nat : n \in T => n + 1 \in T
      <4>1. PICK n \in Nat : n \in T /\ n + 1 \notin T
        BY <3>3
      <4>2. n + 1 \in I /\ \A i \in 1 .. n : i \notin I
        BY <4>1
      <4> QED BY <3>0, <4>2
    <3> QED BY <3>2, <3>3
  <2>2. ChoiceByID(id) \in I
    <3> HIDE DEF I
    <3> QED BY <1>1, <1>3, <2>1
  <2> QED BY <1>0, <2>2 DEF IsInjective
<1> QED BY <1>2, <1>3

LEMMA ChoicesAreFew ==
  ASSUME IInv, Targets, pc \in Asked
  PROVE  /\ request.choices \in Seq(Nat) /\ Len(request.choices) \in 0 .. MaxChoices
         /\ IsInjective(request.choices) /\ request.free \in BOOLEAN
         /\ request.notice => Len(request.choices) = 0 /\ ~request.free
<1> DEFINE choices == request.choices
<1>1. choices \in Seq(Nat) /\ request.free \in BOOLEAN
  BY RequestHasSizes DEF Asked
<1>2. Validate(request)
  BY DEF Targets
<1>3. /\ Len(choices) <= MaxChoices /\ IsInjective(choices)
      /\ request.notice => choices = <<>> /\ ~request.free
  BY <1>2 DEF Validate
<1> HIDE DEF choices
<1>4. Len(choices) \in 0 .. MaxChoices
  <2> DEFINE n == Len(choices)
  <2>1. n \in Nat /\ n <= MaxChoices
    BY <1>1, <1>3
  <2> HIDE DEF n
  <2>2. n \in 0 .. MaxChoices
    BY <2>1 DEF MaxChoices
  <2> QED BY <2>2 DEF n
<1>5. choices = <<>> => Len(choices) = 0
  OBVIOUS
<1> QED BY <1>1, <1>3, <1>4, <1>5 DEF choices

(* Every choice is on one control of a message, and carries its own index. *)
LEMMA RowsCarry ==
  ASSUME IInv, Targets, pc \in Asked, NEW m \in {Telegram, Discord}
  PROVE  Carries(RowsFor(m), Len(request.choices), m = Discord /\ request.free)
<1> DEFINE n == Len(request.choices)
<1>1. n \in 0 .. MaxChoices /\ request.free \in BOOLEAN
  BY ChoicesAreFew
<1>2. request.notice => n = 0 /\ ~request.free
  BY ChoicesAreFew
<1> HIDE DEF n
<1>3. CASE m = Telegram
  BY <1>1, <1>3, ButtonsCarry, MessengersAssumption DEF RowsFor, TelegramRows, n
<1>4. CASE m = Discord /\ ~request.notice
  <2>1. RowsFor(m) = DiscordRows(n, request.free)
    BY <1>4, MessengersAssumption DEF RowsFor, n
  <2> QED BY <1>1, <1>4, <2>1, DiscordRowsCarry DEF n
<1>5. CASE m = Discord /\ request.notice
  <2>1. RowsFor(m) = <<>>
    BY <1>5, MessengersAssumption DEF RowsFor
  <2>2. Places(<<>>) = {}
    BY DEF Places
  <2>3. Carries(<<>>, 0, FALSE)
    BY <2>2 DEF Carries, Showing
  <2> QED BY <1>2, <1>5, <2>1, <2>3 DEF n
<1> QED BY <1>3, <1>4, <1>5

LEMMA StepAnswered == IInv /\ Targets /\ Shown /\ Answered /\ [Next]_vars => Answered'
<1> SUFFICES ASSUME IInv, Targets, Shown, Answered, [Next]_vars PROVE Answered'
  OBVIOUS
<1>1. pc \in {"cli", "wire", "daemon"} => pressed = Unset /\ answer = NoAnswer
  BY DEF Answered, IInv, RequestInv
<1>2. answer = NoAnswer => pressed = Unset
  BY DEF Answered, NoAnswer
<1>3. CASE Build \/ Receive \/ Submit
  <2>1. /\ pc \in {"cli", "wire", "daemon"} /\ pc' # "done"
        /\ UNCHANGED <<answer, pressed, printed>>
    BY <1>3 DEF Build, Receive, Submit, Refuse
  <2>2. pressed = Unset /\ answer = NoAnswer
    BY <1>1, <2>1
  <2> QED BY <2>1, <2>2 DEF Answered, Unset, Write
<1>4. ASSUME UNCHANGED <<request, answer, pressed, printed>>, DOMAIN posted' = {} => DOMAIN posted = {},
             pc' = pc \/ (pc' # "done" /\ pc' \notin {"cli", "wire", "daemon"})
      PROVE  Answered'
  BY <1>4 DEF Answered
<1>5. CASE Fanout
  <2>1. CASE DOMAIN posted = {} \/ ~request.notice
    BY <1>4, <1>5, <2>1 DEF Fanout, Refuse
  <2>2. CASE DOMAIN posted # {} /\ request.notice
    <3>1. pressed = Unset
      BY <2>2 DEF Answered
    <3> QED BY <1>5, <2>2, <3>1 DEF Fanout, Answered, Unset, Write
  <2> QED BY <2>1, <2>2
<1>6. ASSUME NEW m, NEW message, Delivered(m, message) PROVE Answered'
  BY <1>4, <1>6 DEF Delivered
<1>7. CASE PostDiscord \/ \E missed \in 0 .. Len(request.attach) : PostTelegram(missed)
  BY <1>6, <1>7 DEF PostDiscord, PostTelegram
<1>8. CASE \E m \in Messengers : PostFails(m) \/ Settle(m)
  <2>1. DOMAIN posted' = DOMAIN posted
    BY <1>8 DEF PostFails, Settle
  <2> QED BY <1>4, <1>8, <2>1 DEF PostFails, Settle
<1>9. CASE Terminated \/ UNCHANGED vars \/ \E i \in files : LoseFile(i)
  BY <1>4, <1>9 DEF Terminated, LoseFile, vars
<1>10. CASE Report
  <2>1. /\ pc = "open" /\ pc' = "done" /\ UNCHANGED <<request, posted, pressed, answer>>
        /\ printed' = IF answer.status = "answered" THEN answer.text
                      ELSE IF answer.status = "timeout" /\ Flags.default THEN Fallback ELSE Unset
    BY <1>10 DEF Report
  <2>2. printed' \in {Unset, Fallback} \union 0 .. MaxChoices
    BY <2>1 DEF Answered
  <2>3. pressed # Unset => printed' = pressed
    BY <2>1 DEF Answered
  <2> QED BY <2>1, <2>2, <2>3 DEF Answered
<1>11. ASSUME NEW status \in {"timeout", "canceled"}, NEW length \in Nat, CanAnswer, End(status, length)
       PROVE  Answered'
  <2>1. /\ pc \notin {"cli", "wire", "daemon"} /\ pressed = Unset
        /\ UNCHANGED <<request, posted, pressed, printed, pc>>
    BY <1>2, <1>11 DEF CanAnswer, End
  <2>2. answer'.status = status /\ answer'.text = Unset /\ answer'.length = length
    BY <1>11 DEF End, NoAnswer
  <2> QED BY <1>11, <2>1, <2>2 DEF Answered, Unset, Write
<1>12. CASE Expire
  BY <1>11, <1>12 DEF Expire
<1>13. ASSUME NEW length \in TextLengths, Cancel(length) PROVE Answered'
  BY <1>11, <1>13, TextLengthsAssumption DEF Cancel
(* An answer; what it says of the control that was used, if one was.       *)
<1>14. ASSUME CanAnswer PROVE /\ request.choices \in Seq(Nat) /\ Len(request.choices) \in 0 .. MaxChoices
                              /\ IsInjective(request.choices) /\ pc \in {"posting", "open"}
                              /\ ~request.notice /\ pressed = Unset
  <2>1. pc \in {"posting", "open"} /\ ~request.notice /\ pressed = Unset
    BY <1>2, <1>14 DEF CanAnswer
  <2> QED BY <2>1, ChoicesAreFew DEF Asked
<1>15. ASSUME NEW id, NEW text \in {Unset} \union 0 .. MaxChoices, NEW length \in Nat,
              CanAnswer, Resolve(id, text, length)
       PROVE  LET found == IF id = Unset THEN 0 ELSE ChoiceByID(id) IN
              /\ answer'.status = "answered" /\ answer'.id = id /\ answer'.length = length
              /\ answer'.text = IF text = Unset /\ found # 0 THEN found ELSE text
              /\ answer'.label = IF found = 0 THEN Unset ELSE found
              /\ answer'.text \in {Unset} \union 0 .. MaxChoices
              /\ UNCHANGED <<pc, request, posted, printed>>
  <2> DEFINE found == IF id = Unset THEN 0 ELSE ChoiceByID(id)
  <2>1. found \in 0 .. MaxChoices
    <3>1. ChoiceByID(id) \in 0 .. Len(request.choices) /\ Len(request.choices) \in 0 .. MaxChoices
      BY <1>14, <1>15, ChoiceIsFound
    <3>2. found = 0 \/ found = ChoiceByID(id)
      OBVIOUS
    <3> DEFINE n == Len(request.choices)
    <3>3. (found = 0 \/ found \in 0 .. n) /\ n \in 0 .. MaxChoices
      BY <3>1, <3>2
    <3> HIDE DEF found, n
    <3> QED BY <3>3 DEF MaxChoices
  <2>2. /\ answer' = [status |-> "answered", id |-> id, label |-> IF found = 0 THEN Unset ELSE found,
                      text |-> IF text = Unset /\ found # 0 THEN found ELSE text, length |-> length]
        /\ UNCHANGED <<pc, request, posted, printed>>
    BY <1>15 DEF Resolve
  <2> HIDE DEF found
  <2>3. /\ answer'.status = "answered" /\ answer'.id = id /\ answer'.length = length
        /\ answer'.text = (IF text = Unset /\ found # 0 THEN found ELSE text)
        /\ answer'.label = (IF found = 0 THEN Unset ELSE found)
    BY <2>2
  <2>4. answer'.text \in {Unset} \union 0 .. MaxChoices
    BY <2>1, <2>3
  <2> QED BY <2>2, <2>3, <2>4 DEF found
<1>16. ASSUME NEW id, NEW text \in {Unset, Write}, NEW length \in Nat, AnswerHere(id, text, length)
       PROVE  Answered'
  <2>1. text \in {Unset} \union 0 .. MaxChoices
    BY DEF Write, MaxChoices
  <2>2. CanAnswer /\ Resolve(id, text, length) /\ pressed' = pressed
    BY <1>16 DEF AnswerHere
  <2>3. /\ answer'.status = "answered" /\ answer'.length = length
        /\ answer'.text \in {Unset} \union 0 .. MaxChoices
        /\ UNCHANGED <<pc, request, posted, printed>>
    BY <1>15, <2>1, <2>2
  <2> QED BY <1>14, <2>2, <2>3 DEF Answered, Unset, Write
<1>17. CASE \E id \in 1 .. Len(request.choices) + 1 : AnswerHere(id, Unset, 0)
  BY <1>16, <1>17
<1>18. ASSUME NEW length \in TextLengths, NEW m, Type(m, length) PROVE Answered'
  <2>1. CanAnswer /\ Resolve(Unset, Write, length) /\ pressed' = Write /\ DOMAIN posted # {}
    BY <1>18 DEF Type
  <2>2. Write \in {Unset} \union 0 .. MaxChoices /\ length \in Nat
    BY TextLengthsAssumption DEF Write, MaxChoices
  <2>3. /\ answer'.status = "answered" /\ answer'.id = Unset /\ answer'.length = length
        /\ answer'.text = Write /\ UNCHANGED <<pc, request, posted, printed>>
    BY <1>15, <2>1, <2>2 DEF Unset, Write
  <2> QED BY <1>14, <2>1, <2>2, <2>3 DEF Answered, Unset, Write
<1>19. ASSUME NEW length \in TextLengths, AnswerHere(Unset, Write, length) PROVE Answered'
  BY <1>16, <1>19, TextLengthsAssumption
<1>20. CASE \E m \in DOMAIN posted : \E r \in DOMAIN posted[m].rows :
              \E k \in DOMAIN posted[m].rows[r] : Press(m, r, k)
  <2>1. PICK m \in DOMAIN posted : \E r \in DOMAIN posted[m].rows :
               \E k \in DOMAIN posted[m].rows[r] : Press(m, r, k)
    BY <1>20
  <2> DEFINE rows == posted[m].rows
  <2>2. PICK r \in DOMAIN rows : \E k \in DOMAIN rows[r] : Press(m, r, k)
    BY <2>1
  <2>3. PICK k \in DOMAIN rows[r] : Press(m, r, k)
    BY <2>2
  <2> DEFINE i == rows[r][k].shows
  <2>4. /\ CanAnswer /\ i # Write /\ pressed' = i /\ rows[r][k].data + 1 \in DOMAIN request.choices
        /\ Resolve(request.choices[rows[r][k].data + 1], rows[r][k].data + 1, MaxLabelLen)
    BY <2>3 DEF Press
  <2>5. i \in 1 .. Len(request.choices) /\ rows[r][k].data + 1 = i
    <3>1. m \in {Telegram, Discord} /\ pc \in Asked
      BY <1>14, <2>4, MessengersAssumption, CasesAssumption
         DEF Targets, IInv, EnabledTransports, Asked
    <3>2. rows = RowsFor(m)
      <4>1. rows = IF posted[m].open THEN RowsFor(m) ELSE <<>>
        BY DEF Shown, Takes
      <4>2. rows # <<>>
        OBVIOUS
      <4> QED BY <4>1, <4>2
    <3>3. Carries(rows, Len(request.choices), m = Discord /\ request.free)
      BY <3>1, <3>2, RowsCarry
    <3> HIDE DEF rows
    <3>4. <<r, k>> \in Places(rows)
      BY PlaceOf
    <3> QED BY <2>4, <3>3, <3>4 DEF Carries
  <2> HIDE DEF i, rows
  <2>6. i \in 1 .. MaxChoices /\ i \in DOMAIN request.choices /\ request.choices[i] \in Nat
    <3>1. request.choices \in Seq(Nat) /\ Len(request.choices) \in 0 .. MaxChoices
      BY <1>14, <2>4
    <3>2. i \in DOMAIN request.choices /\ request.choices[i] \in Nat
      BY <2>5, <3>1
    <3> DEFINE n == Len(request.choices)
    <3>3. n \in 0 .. MaxChoices /\ i \in 1 .. n
      BY <2>5, <3>1
    <3> HIDE DEF n
    <3>4. i \in 1 .. MaxChoices
      BY <3>3 DEF MaxChoices
    <3> QED BY <3>2, <3>4
  <2>7. request.choices[i] # Unset /\ ChoiceByID(request.choices[i]) = i
    BY <1>14, <2>4, <2>6, ChoiceIsFound DEF Unset
  <2>8. /\ answer'.status = "answered" /\ answer'.id = request.choices[i]
        /\ answer'.text = i /\ answer'.label = i /\ answer'.length \in Nat
        /\ UNCHANGED <<pc, request, posted, printed>>
    <3>1. i \in {Unset} \union 0 .. MaxChoices /\ i # Unset /\ i # 0
      BY <2>6 DEF Unset, MaxChoices
    <3>2. Resolve(request.choices[i], i, MaxLabelLen) /\ MaxLabelLen \in Nat
      BY <2>4, <2>5 DEF MaxLabelLen
    <3> QED BY <1>15, <2>4, <2>7, <3>1, <3>2
  <2>9. \A j \in DOMAIN request.choices : request.choices[j] = request.choices[i] <=> j = i
    BY <1>14, <2>4, <2>6 DEF IsInjective
  <2>10. answer'.text \in {Unset} \union 0 .. MaxChoices /\ i # Write /\ i # Unset
    BY <2>6, <2>8 DEF MaxChoices, Write, Unset
  <2> QED BY <1>14, <2>4, <2>6, <2>8, <2>9, <2>10 DEF Answered
<1> QED BY <1>3, <1>5, <1>7, <1>8, <1>9, <1>10, <1>12, <1>13, <1>17, <1>18, <1>19, <1>20 DEF Next

-----------------------------------------------------------------------------
LEMMA AskInvariance == Spec => [](IInv /\ Targets /\ Shown /\ Answered)
<1>1. Init => Targets /\ Shown /\ Answered
  <2>1. DOMAIN <<>> = {}
    OBVIOUS
  <2>2. NoAnswer.status = "none" /\ NoAnswer.text = Unset /\ NoAnswer.length \in Nat
    BY DEF NoAnswer
  <2> SUFFICES ASSUME Init PROVE Targets /\ Shown /\ Answered
    OBVIOUS
  <2>3. Targets
    BY <2>1 DEF Init, Targets, Asked
  <2>4. Shown
    BY <2>1 DEF Init, Shown
  <2>5. Answered
    <3>1. /\ pc = "cli" /\ pressed = Unset /\ printed = Unset /\ answer = NoAnswer
          /\ answer.status = "none" /\ answer.text = Unset /\ answer.length \in Nat
      BY <2>2 DEF Init
    <3>2. Unset # Write /\ Unset \notin 1 .. MaxChoices
      BY DEF Unset, Write, MaxChoices
    <3> QED BY <3>1, <3>2 DEF Answered
  <2> QED BY <2>3, <2>4, <2>5
<1> QED BY <1>1, InitIInv, StepIInv, StepTargets, StepShown, StepAnswered, PTL DEF Spec

(* Types: a request that was accepted has every field filled in, and only  *)
(* messengers that are up were asked to post it.                           *)
THEOREM TypeCorrect == Spec => []TypeOK
<1>1. IInv /\ Targets /\ Answered => TypeOK
  <2> SUFFICES ASSUME IInv, Targets, Answered PROVE TypeOK
    OBVIOUS
  <2>1. pc \in {"posting", "open", "done"} => Validate(request) /\ request.transports # {}
    BY SomebodyIsAsked DEF Targets, Asked
  <2>2. pc = "refused" <=> why \in {"usage", "attachment", "invalid", "unavailable", "undelivered"}
    BY DEF Targets, Reasons
  <2> QED BY <2>1, <2>2 DEF TypeOK, IInv, Pcs, Targets, Answered
<1> QED BY <1>1, AskInvariance, PTL

(* The control that was used is the answer that is stored, shown and       *)
(* printed, for any number of choices on either messenger.                 *)
THEOREM AnswerIsThePressedAlways == Spec => []AnswerIsThePressed
<1>1. IInv /\ Targets /\ Shown /\ Answered => AnswerIsThePressed
  <2> SUFFICES ASSUME IInv, Targets, Shown, Answered PROVE AnswerIsThePressed
    OBVIOUS
  <2>1. ASSUME NEW m \in DOMAIN posted, posted[m].open, NEW i \in 0 .. MaxChoices
        PROVE  Cardinality(Showing(posted[m].rows, i)) =
                 IF i = Write THEN (IF m = Discord /\ request.free THEN 1 ELSE 0)
                 ELSE IF i <= Len(request.choices) THEN 1 ELSE 0
    <3> DEFINE rows == posted[m].rows
               n    == Len(request.choices)
    <3>1. m \in {Telegram, Discord} /\ pc \in Asked
      BY MessengersAssumption, CasesAssumption DEF Targets, IInv, EnabledTransports
    <3>2. Carries(rows, n, m = Discord /\ request.free)
      BY <2>1, <3>1, RowsCarry DEF Shown, Takes
    <3>3. n \in 0 .. MaxChoices
      BY <3>1, ChoicesAreFew
    <3> HIDE DEF rows, n
    <3>4. \A at : Cardinality({at}) = 1
      BY FS_Singleton
    <3>5. Cardinality(Showing(rows, Write)) = IF m = Discord /\ request.free THEN 1 ELSE 0
      <4>1. CASE m = Discord /\ request.free
        <5>1. PICK at : Showing(rows, Write) = {at}
          BY <3>2, <4>1 DEF Carries
        <5> QED BY <3>4, <4>1, <5>1
      <4>2. CASE ~(m = Discord /\ request.free)
        <5>1. Showing(rows, Write) = {}
          BY <3>2, <4>2 DEF Carries
        <5> QED BY <4>2, <5>1, FS_EmptySet
      <4> QED BY <4>1, <4>2
    <3>6. ASSUME i # Write, i <= n PROVE Cardinality(Showing(rows, i)) = 1
      <4>1. i \in 1 .. n
        BY <3>3, <3>6 DEF Write, MaxChoices
      <4>2. PICK at : Showing(rows, i) = {at}
        BY <3>2, <4>1 DEF Carries
      <4> QED BY <3>4, <4>2
    <3>7. ASSUME i # Write, ~(i <= n) PROVE Cardinality(Showing(rows, i)) = 0
      <4>1. i \notin 1 .. n
        BY <3>3, <3>7 DEF MaxChoices
      <4>2. Showing(rows, i) = {}
        BY <3>2, <3>7, <4>1 DEF Carries, Showing
      <4> QED BY <4>2, FS_EmptySet
    <3>8. Cardinality(Showing(rows, i)) =
            IF i = Write THEN (IF m = Discord /\ request.free THEN 1 ELSE 0)
            ELSE IF i <= n THEN 1 ELSE 0
      BY <3>5, <3>6, <3>7, Zenon
    <3> QED BY <3>8 DEF rows, n
  <2>2. pressed \in 1 .. MaxChoices => answer.text = pressed
    BY DEF Answered, Unset
  <2>3. pressed = Write => answer.text = Write /\ answer.id = Unset
    BY DEF Answered, Unset, Write
  <2> QED BY <2>1, <2>2, <2>3 DEF AnswerIsThePressed, Answered
<1> QED BY <1>1, AskInvariance, PTL

(* composeQuestion, buildComponents, renderContent and both Settles make   *)
(* nothing that is too long for its messenger, for every question that     *)
(* passed Request.Validate; a body is lost without a word only under a     *)
(* label that fills Discord's message or, on Telegram, over the names of   *)
(* more than NamesRoom attachments in markup.                              *)
THEOREM FitsTheMessengerAlways == Spec => []FitsTheMessenger
<1>1. IInv /\ Targets /\ Shown => FitsTheMessenger
  <2> SUFFICES ASSUME IInv, Targets, Shown PROVE FitsTheMessenger
    OBVIOUS
  <2>1. ASSUME NEW m \in DOMAIN posted
        PROVE  /\ posted[m].length <= IF m = Telegram THEN TelegramLimit ELSE DiscordLimit
               /\ posted[m].lost =>
                    \/ m = Discord /\ Flags.label > LabelRoom
                    \/ m = Telegram /\ Flags.nameScript = "markup" /\ Len(Flags.attach) > NamesRoom
    <3>1. Takes(m, posted[m]) /\ m \in {Telegram, Discord}
      BY MessengersAssumption, CasesAssumption DEF Shown, Targets, IInv, EnabledTransports
    <3>2. CASE m = Telegram
      BY <3>1, <3>2, MessengersAssumption
         DEF Takes, QuestionBudget, TelegramLimit, SettleReserve
    <3>3. CASE m = Discord
      <4>1. posted[m].length \in 0 .. DiscordLimit /\ m # Telegram
        BY <3>1, <3>3, MessengersAssumption DEF Takes
      <4>2. posted[m].length <= DiscordLimit
        BY <4>1 DEF DiscordLimit
      <4> QED BY <3>1, <4>1, <4>2 DEF Takes
    <3> QED BY <3>1, <3>2, <3>3
  <2>2. pc = "posting" => RowsFit(DiscordRows(Len(request.choices), request.free))
    <3> SUFFICES ASSUME pc = "posting" PROVE RowsFit(DiscordRows(Len(request.choices), request.free))
      OBVIOUS
    <3> DEFINE n == Len(request.choices)
    <3>1. n \in 0 .. MaxChoices /\ request.free \in BOOLEAN
      BY ChoicesAreFew DEF Asked
    <3> HIDE DEF n
    <3>2. n \in Nat /\ n <= MaxChoices
      BY <3>1 DEF MaxChoices
    <3>3. RowsFit(DiscordRows(n, request.free))
      BY <3>1, <3>2, DiscordTakesTheRows
    <3> QED BY <3>3 DEF n
  <2> QED BY <2>1, <2>2 DEF FitsTheMessenger
<1> QED BY <1>1, AskInvariance, PTL
=============================================================================
