------------------------------- MODULE Broker -------------------------------
(***************************************************************************)
(* The broker of internal/hitl/broker.go: it pairs the questions agents    *)
(* ask (Submit, one goroutine each) with the answers humans give through a *)
(* messenger or the command line (Resolve, Cancel, one call each).         *)
(*                                                                         *)
(* A step is what happens between two points where another goroutine can   *)
(* get in: one critical section of Broker.mu, one sync.Once, one receive   *)
(* from a channel, one return of a messenger call.                         *)
(***************************************************************************)
EXTENDS Naturals, FiniteSets, Sequences

CONSTANTS
  Requests,        \* the ids of the questions; NewID makes each one unique
  Posters,         \* the messengers that may be registered
  Clicks,          \* the calls of Resolve: clicks, messages, CLI answers
  Cancels,         \* the calls of Cancel
  Timed,           \* the questions asked with a timeout
  RecentCapacity,  \* how many finished questions are remembered
  NoRequest        \* an empty slot of the ring of finished questions

Calls == Clicks \union Cancels

ASSUME BrokerAssumption ==
  /\ RecentCapacity \in Nat \ {0}
  /\ NoRequest \notin Requests
  /\ Clicks \intersect Cancels = {}
  /\ {"wait", "nobody"} \intersect Calls = {}
  /\ Timed \subseteq Requests

VARIABLES
  posters,     \* Broker.posters: the registered messengers
  pc,          \* where the Submit (or Notify) of each question is
  pending,     \* Broker.pending: the ids whose entry can be looked up
  leg,         \* what each messenger was asked to do for each question
  message,     \* the message a human sees: absent, with live buttons, or dead
  done,        \* entry.done and entry.resolved: the answer that won, if any
  result,      \* what wait returned to Submit
  gone,        \* the questions whose caller's context is done
  ring,        \* Broker.recentRing
  recentNext,  \* Broker.recentNext
  recent,      \* Broker.recent
  call,        \* each call of Resolve or Cancel
  retired      \* history: the questions in the order they were retired

submitVars == <<posters, pc, pending, leg, message, result>>
recentVars == <<ring, recentNext, recent, retired>>
vars == <<posters, pc, pending, leg, message, done, result, gone, ring,
          recentNext, recent, call, retired>>

Status    == {"answered", "timeout", "canceled"}
NoAnswer  == [status |-> "none", by |-> "nobody"]
Answers   == [status : Status, by : Calls \union {"wait"}]
Slots     == 0 .. RecentCapacity - 1
PCs       == {"new", "rejected", "posting", "waiting", "settling",
              "returned", "failed", "notifying", "notified"}
Legs      == {"idle", "sending", "posted", "failed", "settling", "settled",
              "unsettled"}
Verdicts  == {"nothing", "accepted", "already", "unknown", "invalid"}
NoCall    == [at |-> "idle", req |-> NoRequest, verdict |-> "nothing"]

(* entry.posted: the messengers whose Post succeeded. *)
Posted(r) == {p \in Posters :
                leg[r][p] \in {"posted", "settling", "settled", "unsettled"}}

(* The questions Pending and PendingCount report: those nobody has         *)
(* answered, the ones that are still being settled excluded.               *)
Pending == {r \in pending : done[r] = NoAnswer}

Init ==
  /\ posters = {}
  /\ pc = [r \in Requests |-> "new"]
  /\ pending = {}
  /\ leg = [r \in Requests |-> [p \in Posters |-> "idle"]]
  /\ message = [r \in Requests |-> [p \in Posters |-> "none"]]
  /\ done = [r \in Requests |-> NoAnswer]
  /\ result = [r \in Requests |-> NoAnswer]
  /\ gone = {}
  /\ ring = [i \in Slots |-> NoRequest]
  /\ recentNext = 0
  /\ recent = {}
  /\ call = [c \in Calls |-> NoCall]
  /\ retired = <<>>

-----------------------------------------------------------------------------
(* Registration and the start of a question.                               *)

(* The same name registered twice replaces the earlier messenger. *)
Register(p) ==
  /\ p \notin posters
  /\ posters' = posters \union {p}
  /\ UNCHANGED <<pc, pending, leg, message, done, result, gone, call>>
  /\ UNCHANGED recentVars

(* selectPosters: no names, or "all", mean every registered messenger; a   *)
(* name that is not registered is refused.                                 *)
Selectable(names) == posters # {} /\ names \subseteq posters
Selected(names)   == IF names = {} THEN posters ELSE names

(* fanout starts one Post per selected messenger. *)
StartLegs(r, names) ==
  leg' = [leg EXCEPT ![r] =
            [p \in Posters |-> IF p \in Selected(names) THEN "sending" ELSE "idle"]]

(* The entry is registered before the first Post, so that an answer can    *)
(* arrive while the question is still being posted.                        *)
Submit(r, names) ==
  /\ pc[r] = "new"
  /\ Selectable(names)
  /\ pc' = [pc EXCEPT ![r] = "posting"]
  /\ pending' = pending \union {r}
  /\ StartLegs(r, names)
  /\ UNCHANGED <<posters, message, done, result, gone, call>>
  /\ UNCHANGED recentVars

(* Submit and Notify return an error before anything is registered:        *)
(* prepare finds the request invalid, which any request may be, or the     *)
(* names are not Selectable.                                               *)
SubmitRejected(r) ==
  /\ pc[r] = "new"
  /\ pc' = [pc EXCEPT ![r] = "rejected"]
  /\ UNCHANGED <<posters, pending, leg, message, done, result, gone, call>>
  /\ UNCHANGED recentVars

(* Notify posts a message without buttons and registers no entry. *)
Notify(r, names) ==
  /\ pc[r] = "new"
  /\ Selectable(names)
  /\ pc' = [pc EXCEPT ![r] = "notifying"]
  /\ StartLegs(r, names)
  /\ UNCHANGED <<posters, pending, message, done, result, gone, call>>
  /\ UNCHANGED recentVars

(* The caller hangs up, or its deadline passes: Submit's ctx is done. *)
HangUp(r) ==
  /\ pc[r] \in {"posting", "waiting"}
  /\ r \notin gone
  /\ gone' = gone \union {r}
  /\ UNCHANGED <<done, call>>
  /\ UNCHANGED submitVars
  /\ UNCHANGED recentVars

-----------------------------------------------------------------------------
(* fanout.                                                                 *)

(* The messenger shows the message; its Post has not returned yet. *)
Deliver(r, p) ==
  /\ leg[r][p] = "sending"
  /\ message[r][p] = "none"
  /\ message' = [message EXCEPT ![r][p] =
                   IF pc[r] = "notifying" THEN "dead" ELSE "live"]
  /\ UNCHANGED <<posters, pc, pending, leg, done, result, gone, call>>
  /\ UNCHANGED recentVars

(* Post returns.  It succeeds only for a visible message; it may also fail *)
(* for one, when the messenger's reply is lost.                            *)
PostReturns(r, p, outcome) ==
  /\ leg[r][p] = "sending"
  /\ outcome \in {"posted", "failed"}
  /\ outcome = "posted" => message[r][p] # "none"
  /\ leg' = [leg EXCEPT ![r][p] = outcome]
  /\ UNCHANGED <<posters, pc, pending, message, done, result, gone, call>>
  /\ UNCHANGED recentVars

(* wg.Wait: every Post has returned. *)
FanoutOver(r) == \A p \in Posters : leg[r][p] # "sending"

FanoutDone(r) ==
  /\ pc[r] = "posting"
  /\ FanoutOver(r)
  /\ Posted(r) # {}
  /\ pc' = [pc EXCEPT ![r] = "waiting"]
  /\ UNCHANGED <<posters, pending, leg, message, done, result, gone, call>>
  /\ UNCHANGED recentVars

(* Every Post failed: the entry is deleted without being remembered, and   *)
(* whatever done holds is dropped with it.                                 *)
FanoutFailed(r) ==
  /\ pc[r] = "posting"
  /\ FanoutOver(r)
  /\ Posted(r) = {}
  /\ pc' = [pc EXCEPT ![r] = "failed"]
  /\ pending' = pending \ {r}
  /\ UNCHANGED <<posters, leg, message, done, result, gone, call>>
  /\ UNCHANGED recentVars

NotifyReturns(r) ==
  /\ pc[r] = "notifying"
  /\ FanoutOver(r)
  /\ pc' = [pc EXCEPT ![r] = "notified"]
  /\ UNCHANGED <<posters, pending, leg, message, done, result, gone, call>>
  /\ UNCHANGED recentVars

-----------------------------------------------------------------------------
(* The answer that wins.                                                   *)

(* entry.complete: only the first answer is kept. *)
Complete(r, ans) ==
  done' = IF done[r] = NoAnswer THEN [done EXCEPT ![r] = ans] ELSE done

(* settle starts one Settle per messenger that posted the question. *)
BeginSettle(r) ==
  /\ pc' = [pc EXCEPT ![r] = "settling"]
  /\ leg' = [leg EXCEPT ![r] =
               [p \in Posters |->
                  IF p \in Posted(r) THEN "settling" ELSE leg[r][p]]]

(* The entry forgotten before its buttons are taken down. *)
SettleForgotten(r) == BeginSettle(r) /\ pending' = pending \ {r}
SettleKept(r)      == BeginSettle(r) /\ UNCHANGED pending

(* Controls removed only where they were used. *)
SettleWhereAnswered(r) ==
  /\ pc' = [pc EXCEPT ![r] = "settling"]
  /\ \E q \in Posted(r) :
       leg' = [leg EXCEPT ![r] =
                 [p \in Posters |-> IF p = q THEN "settling" ELSE leg[r][p]]]
  /\ UNCHANGED pending

(* Between wait and settle the entry stays in the pending map. *)
StartSettle(r) == SettleKept(r)

(* wait: an answer is there. *)
TakeAnswer(r) ==
  /\ pc[r] = "waiting"
  /\ done[r] # NoAnswer
  /\ result' = [result EXCEPT ![r] = done[r]]
  /\ StartSettle(r)
  /\ UNCHANGED <<posters, message, done, gone, call>>
  /\ UNCHANGED recentVars

(* The wait loop returns the answer it made, not the one that won. *)
GiveUpWithOwn(r, status) ==
  LET own == [status |-> status, by |-> "wait"] IN
  /\ pc[r] = "waiting"
  /\ Complete(r, own)
  /\ result' = [result EXCEPT ![r] = own]
  /\ StartSettle(r)
  /\ UNCHANGED <<posters, message, gone, call>>
  /\ UNCHANGED recentVars

(* The two other branches of wait's select complete the entry themselves   *)
(* and then receive from done, so that an answer that won before is the    *)
(* one returned.  select may choose such a branch although an answer is    *)
(* already there.                                                          *)
GiveUp(r, status) ==
  /\ pc[r] = "waiting"
  /\ Complete(r, [status |-> status, by |-> "wait"])
  /\ result' = [result EXCEPT ![r] = done'[r]]
  /\ StartSettle(r)
  /\ UNCHANGED <<posters, message, gone, call>>
  /\ UNCHANGED recentVars

WaitTimesOut(r) == r \in Timed /\ GiveUp(r, "timeout")
WaitCanceled(r) == r \in gone /\ GiveUp(r, "canceled")

-----------------------------------------------------------------------------
(* settle and retire.                                                      *)

(* A Settle that only ever returns once the messenger did what it asked. *)
SettleMustWork(r, p, outcome) ==
  /\ leg[r][p] = "settling"
  /\ outcome = "settled"
  /\ message[r][p] = "dead"
  /\ leg' = [leg EXCEPT ![r][p] = outcome]
  /\ UNCHANGED <<posters, pc, pending, message, done, result, gone, call>>
  /\ UNCHANGED recentVars

(* Settle returns: the controls are gone, or it failed or met its own      *)
(* deadline, the edit applied or not.  Its error is logged and dropped.    *)
SettleReturns(r, p, outcome) ==
  /\ leg[r][p] = "settling"
  /\ outcome \in {"settled", "unsettled"}
  /\ leg' = [leg EXCEPT ![r][p] = outcome]
  /\ \/ message' = [message EXCEPT ![r][p] = "dead"]
     \/ outcome = "unsettled" /\ UNCHANGED message
  /\ UNCHANGED <<posters, pc, pending, done, result, gone, call>>
  /\ UNCHANGED recentVars

(* An unbounded index into the ring. *)
NextSlotUnwrapped(i) == i + 1
NextSlot(i) == (i + 1) % RecentCapacity

(* The evicted id stays in recent. *)
RememberForever(r) ==
  /\ ring' = [ring EXCEPT ![recentNext] = r]
  /\ recentNext' = NextSlot(recentNext)
  /\ recent' = recent \union {r}

(* retire: the id takes the slot of the oldest one, which is forgotten. *)
Remember(r) ==
  IF r \in recent
  THEN UNCHANGED <<ring, recentNext, recent>>
  ELSE /\ ring' = [ring EXCEPT ![recentNext] = r]
       /\ recentNext' = NextSlot(recentNext)
       /\ recent' = (recent \ {ring[recentNext]}) \union {r}

(* Every Settle has returned: retire the entry and return the answer. *)
Retire(r) ==
  /\ pc[r] = "settling"
  /\ \A p \in Posters : leg[r][p] # "settling"
  /\ pc' = [pc EXCEPT ![r] = "returned"]
  /\ pending' = pending \ {r}
  /\ Remember(r)
  /\ retired' = Append(retired, r)
  /\ UNCHANGED <<posters, leg, message, done, result, gone, call>>

-----------------------------------------------------------------------------
(* Resolve and Cancel: the entry is looked up under the lock and completed *)
(* outside it.                                                             *)

(* What a caller is told of a question that is not pending.  Only Resolve  *)
(* looks into recent.                                                      *)
Missing(c, r) == IF c \in Clicks /\ r \in recent THEN "already" ELSE "unknown"

(* An id can be known to a human or to the command line once the entry is  *)
(* registered.                                                             *)
Known(r) == pc[r] \in {"posting", "waiting", "settling", "returned", "failed"}

LookUp(c, r) ==
  /\ call[c].at = "idle"
  /\ Known(r)
  /\ call' = [call EXCEPT ![c] =
                IF r \in pending
                THEN [at |-> "holding", req |-> r, verdict |-> "nothing"]
                ELSE [at |-> "over", req |-> r, verdict |-> Missing(c, r)]]
  /\ UNCHANGED <<done, gone>>
  /\ UNCHANGED submitVars
  /\ UNCHANGED recentVars

(* An answer with neither a choice nor text completes nothing. *)
RejectBlank(c) ==
  /\ c \in Clicks
  /\ call[c].at = "holding"
  /\ call' = [call EXCEPT ![c] = [@ EXCEPT !.at = "over", !.verdict = "invalid"]]
  /\ UNCHANGED <<done, gone>>
  /\ UNCHANGED submitVars
  /\ UNCHANGED recentVars

StatusOf(c) == IF c \in Clicks THEN "answered" ELSE "canceled"

(* A caller that is told it won before anybody checks that it did. *)
FinishBlindly(c) ==
  LET r == call[c].req IN
  /\ call[c].at = "holding"
  /\ Complete(r, [status |-> StatusOf(c), by |-> c])
  /\ call' = [call EXCEPT ![c] = [@ EXCEPT !.at = "over", !.verdict = "accepted"]]
  /\ UNCHANGED gone
  /\ UNCHANGED submitVars
  /\ UNCHANGED recentVars

Finish(c) ==
  LET r == call[c].req IN
  /\ call[c].at = "holding"
  /\ Complete(r, [status |-> StatusOf(c), by |-> c])
  /\ call' = [call EXCEPT ![c] =
                [@ EXCEPT !.at = "over",
                          !.verdict = IF done[r] = NoAnswer THEN "accepted"
                                      ELSE "already"]]
  /\ UNCHANGED gone
  /\ UNCHANGED submitVars
  /\ UNCHANGED recentVars

-----------------------------------------------------------------------------
(* Submit of one question, after it was registered. *)
SubmitStep(r) ==
  \/ \E p \in Posters, outcome \in {"posted", "failed"} : PostReturns(r, p, outcome)
  \/ FanoutDone(r)
  \/ FanoutFailed(r)
  \/ NotifyReturns(r)
  \/ TakeAnswer(r)
  \/ WaitTimesOut(r)
  \/ WaitCanceled(r)
  \/ \E p \in Posters, outcome \in {"settled", "unsettled"} : SettleReturns(r, p, outcome)
  \/ Retire(r)

CallStep(c) == RejectBlank(c) \/ Finish(c)

Next ==
  \/ \E p \in Posters : Register(p)
  \/ \E r \in Requests, names \in SUBSET Posters :
       Submit(r, names) \/ Notify(r, names)
  \/ \E r \in Requests : SubmitRejected(r) \/ HangUp(r) \/ SubmitStep(r)
  \/ \E r \in Requests, p \in Posters : Deliver(r, p)
  \/ \E c \in Calls, r \in Requests : LookUp(c, r)
  \/ \E c \in Calls : CallStep(c)

(* The goroutines of the daemon keep running, and every messenger call     *)
(* returns: Post under the HTTP client's own timeout, Settle under         *)
(* settleTimeout.  Nobody has to ask, to hang up or to answer, and no      *)
(* messenger has to deliver.                                               *)
Fairness ==
  /\ \A r \in Requests :
       /\ WF_vars(FanoutDone(r) \/ FanoutFailed(r) \/ NotifyReturns(r))
       /\ WF_vars(TakeAnswer(r) \/ WaitTimesOut(r) \/ WaitCanceled(r))
       /\ WF_vars(Retire(r))
       /\ \A p \in Posters :
            /\ WF_vars(\E outcome \in {"posted", "failed"} : PostReturns(r, p, outcome))
            /\ WF_vars(\E outcome \in {"settled", "unsettled"} : SettleReturns(r, p, outcome))
  /\ \A c \in Calls : WF_vars(CallStep(c))

Spec     == Init /\ [][Next]_vars
FairSpec == Spec /\ Fairness

-----------------------------------------------------------------------------
(* The type invariant: the ranges of the broker's state. *)
TypeOK ==
  /\ posters \subseteq Posters
  /\ pc \in [Requests -> PCs]
  /\ pending \subseteq Requests
  /\ leg \in [Requests -> [Posters -> Legs]]
  /\ message \in [Requests -> [Posters -> {"none", "live", "dead"}]]
  /\ done \in [Requests -> Answers \union {NoAnswer}]
  /\ result \in [Requests -> Answers \union {NoAnswer}]
  /\ gone \subseteq Requests
  /\ ring \in [Slots -> Requests \union {NoRequest}]
  /\ recentNext \in Slots
  /\ recent \subseteq Requests
  /\ call \in [Calls -> [at : {"idle", "holding", "over"},
                         req : Requests \union {NoRequest},
                         verdict : Verdicts]]
  /\ retired \in Seq(Requests)

(* First answer wins, seen from both ends: a human whose Resolve or Cancel *)
(* was accepted is the one whose answer Submit returns, whatever timeout,  *)
(* hang-up or other human raced it (broker.go: complete, wait, Resolve).   *)
AcceptedIsReturned ==
  \A c \in Calls : \A r \in Requests :
    (call[c].verdict = "accepted" /\ call[c].req = r /\ pc[r] \in {"settling", "returned"})
      => result[r] = [status |-> StatusOf(c), by |-> c]

(* Conversely, an answer with a human's name on it was accepted from that  *)
(* human: nobody is told "already answered" or nothing and yet obeyed.     *)
ReturnedWasAccepted ==
  \A r \in Requests : \A c \in Calls :
    result[r].by = c => call[c].req = r /\ call[c].verdict = "accepted"

(* The questions that Resolve must still recognise. *)
LastRetired ==
  {retired[i] : i \in {j \in DOMAIN retired : j > Len(retired) - RecentCapacity}}

(* The ring remembers exactly the last RecentCapacity finished questions,  *)
(* each in one slot (broker.go: retire, recent, recentRing, recentNext).   *)
RecentIsLastRetired ==
  /\ recent = LastRetired
  /\ recent = {ring[i] : i \in Slots} \ {NoRequest}
  /\ \A i, j \in Slots : ring[i] = ring[j] /\ ring[i] # NoRequest => i = j

(* A late human is told the truth.  "Already answered" means that somebody *)
(* else decided; a Resolve hears "unknown" only of a question that failed  *)
(* or that is older than the ring remembers, never of one whose buttons    *)
(* are still being taken down (broker.go: entry.resolved, recent, Resolve).*)
LateCallerIsTold ==
  \A c \in Calls : \A r \in Requests :
    call[c].req = r =>
      /\ call[c].verdict = "already" => done[r] # NoAnswer /\ done[r].by # c
      /\ call[c].verdict = "unknown" =>
           \/ pc[r] = "failed"
           \/ pc[r] = "returned" /\ (c \in Clicks => r \notin LastRetired)

(* When Submit returns, every message that a Post reported as delivered    *)
(* has been settled, and its buttons are gone unless that Settle failed    *)
(* (broker.go: settle, Poster.Settle).                                     *)
SettledBeforeReturn ==
  \A r \in Requests : pc[r] = "returned" =>
    \A p \in Posters :
      /\ leg[r][p] \in {"idle", "failed", "settled", "unsettled"}
      /\ message[r][p] = "live" => leg[r][p] \in {"failed", "unsettled"}

-----------------------------------------------------------------------------
(* The inductive invariant of the proofs.                                  *)

(* The entry of a question is in the map exactly while its Submit runs,    *)
(* and wait returned what is in done. *)
EntryInv ==
  \A r \in Requests :
    /\ r \in pending <=> pc[r] \in {"posting", "waiting", "settling"}
    /\ ~Known(r) => done[r] = NoAnswer
    /\ IF pc[r] \in {"settling", "returned"}
       THEN done[r] # NoAnswer /\ result[r] = done[r]
       ELSE result[r] = NoAnswer

CallInv ==
  \A c \in Calls :
    /\ call[c].at = "idle" <=> call[c].req = NoRequest
    /\ call[c].at = "over" <=> call[c].verdict # "nothing"
    /\ call[c].at # "idle" => Known(call[c].req)

(* The one caller that was accepted is the one that decided. *)
WinnerInv ==
  \A c \in Calls, r \in Requests :
    /\ done[r].by = c <=> call[c].verdict = "accepted" /\ call[c].req = r
    /\ done[r].by = c => done[r] = [status |-> StatusOf(c), by |-> c]

(* A leg is never ahead of its question nor behind it. *)
LegInv ==
  \A r \in Requests, p \in Posters :
    /\ pc[r] \in {"new", "rejected"} => leg[r][p] = "idle"
    /\ leg[r][p] = "sending" => pc[r] \in {"posting", "notifying"}
    /\ leg[r][p] = "posted" => pc[r] \in {"posting", "waiting", "notifying", "notified"}
    /\ leg[r][p] = "settling" => pc[r] = "settling"
    /\ leg[r][p] \in {"settled", "unsettled"} => pc[r] \in {"settling", "returned"}
    /\ leg[r][p] = "idle" => message[r][p] = "none"
    /\ leg[r][p] = "settled" => message[r][p] = "dead"

(* The slot written k retirements ago. *)
Back(k) == IF k <= recentNext THEN recentNext - k ELSE recentNext - k + RecentCapacity

RingInv ==
  /\ \A k \in 1 .. RecentCapacity :
       ring[Back(k)] = IF k <= Len(retired) THEN retired[Len(retired) - k + 1]
                       ELSE NoRequest
  /\ \A j \in DOMAIN retired : pc[retired[j]] = "returned"

IInv ==
  /\ TypeOK
  /\ EntryInv
  /\ CallInv
  /\ WinnerInv
  /\ LegInv
  /\ RingInv
  /\ RecentIsLastRetired
  /\ LateCallerIsTold

-----------------------------------------------------------------------------
(* An ask whose answer is there, whose caller is gone or that has a        *)
(* timeout does not block for ever (broker.go: Submit, wait, settle).      *)
Released(r) ==
  /\ pc[r] \in {"posting", "waiting", "settling"}
  /\ r \in Timed \/ r \in gone \/ done[r] # NoAnswer

AskReturns ==
  \A r \in Requests : Released(r) ~> pc[r] \in {"returned", "failed"}

(* The broker implements its abstract promise: a question is decided once, *)
(* every human is told what became of their attempt, and the asker gets    *)
(* the decision or an error (AnswerOnce.tla).                              *)
Asked   == {r \in Requests : Known(r)}
Outcome == [r \in Requests |->
              IF pc[r] = "returned" THEN result[r]
              ELSE IF pc[r] = "failed" THEN [status |-> "failed", by |-> "nobody"]
              ELSE NoAnswer]
Told    == [c \in Calls |-> call[c].verdict]

Promise == INSTANCE AnswerOnce WITH
  Humans <- Calls, asked <- Asked, decision <- done, outcome <- Outcome, told <- Told

ImplementsPromise == Promise!Spec
=============================================================================
