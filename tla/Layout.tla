------------------------------- MODULE Layout --------------------------------
(***************************************************************************)
(* What the messengers make of a question: the controls under it and the   *)
(* length of its text, in internal/transport/telegram/render.go and        *)
(* internal/transport/discord/message.go.                                  *)
(*                                                                         *)
(* A text is a length and a script, which says what one of its characters  *)
(* costs: "plain", "wide" (two UTF-16 units), "markup" (escaped to five)   *)
(* or, for a body, "fenced" (one code block around all of it).  Discord    *)
(* counts characters; Telegram's lengths are in UTF-16 units of the HTML.  *)
(* The numbers are the limits of the source and the lengths of its texts.  *)
(***************************************************************************)
EXTENDS Integers, SequencesExt

Clamp(n, limit) == IF n < 0 THEN 0 ELSE IF n <= limit THEN n ELSE limit

-----------------------------------------------------------------------------
(* Controls.  A control shows a choice (or Write, the free-text button)    *)
(* and carries the index that comes back when it is used.                  *)

Write == 0
Control(i, data) == [shows |-> i, data |-> data]

(* The position in the row where the index of the choice belongs. *)
ButtonRowsByPosition(n, width) ==
  [r \in 1 .. (n + width - 1) \div width |->
     [k \in 1 .. Clamp(n - (r - 1) * width, width) |-> Control((r - 1) * width + k, k - 1)]]

(* The choices 1 .. n in rows of this width. *)
ButtonRows(n, width) ==
  [r \in 1 .. (n + width - 1) \div width |->
     [k \in 1 .. Clamp(n - (r - 1) * width, width) |->
        Control((r - 1) * width + k, (r - 1) * width + k - 1)]]

(* choiceRows: no question has enough choices to meet its other limits.    *)
TelegramRows(n) == ButtonRows(n, 3)

SelectMenuThreshold == 20

(* buildComponents.  A select menu is a row of its own, here with all its  *)
(* options.  The free-text button joins the last row of buttons if it can. *)
DiscordRows(n, free) ==
  LET rows == IF n > SelectMenuThreshold THEN ButtonRows(n, n) ELSE ButtonRows(n, 5)
      write == Control(Write, Write)
  IN IF ~free THEN rows
     ELSE IF n % 5 # 0 /\ n <= SelectMenuThreshold
          THEN [rows EXCEPT ![Len(rows)] = Append(@, write)]
          ELSE Append(rows, <<write>>)

(* What Discord takes, and buildComponents refuses otherwise. *)
RowsFit(rows) == Len(rows) <= 5 /\ \A r \in DOMAIN rows : Len(rows[r]) <= 25

-----------------------------------------------------------------------------
(* Discord's text.                                                         *)

DiscordLimit == 2000

DiscordHeader(q) ==
  (IF q.title > 0 THEN q.title + 5 ELSE 0) + 8 + (IF q.label > 0 THEN q.label + 3 ELSE 0)

(* renderContent *)
DiscordContent(q, controls) ==
  LET head   == DiscordHeader(q)
      hint   == IF controls /\ q.free THEN 55 ELSE 0
      full   == head + hint + (IF q.body > 0 THEN 2 + q.body ELSE 0)
      room   == DiscordLimit - (head + 2 + 65 + hint)
  IN IF q.body = 0 \/ full <= DiscordLimit
     THEN [length |-> Clamp(full, DiscordLimit), cut |-> FALSE, note |-> FALSE]
     ELSE IF room < 1
     THEN [length |-> Clamp(head + hint, DiscordLimit), cut |-> TRUE, note |-> FALSE]
     ELSE [length |-> head + 2 + Clamp(q.body, room) + 65 + hint, cut |-> TRUE, note |-> TRUE]

(* The outcome appended without room made for it. *)
DiscordSettledWhole(q, outcome) == DiscordContent(q, FALSE).length + 2 + outcome

(* settledContent *)
DiscordSettled(q, outcome) ==
  Clamp(DiscordContent(q, FALSE).length, Clamp(DiscordLimit - (2 + outcome), DiscordLimit))
    + 2 + outcome

(* outcomeLine, by a person whose name has 32 characters at most. *)
DiscordOutcome(status, text) ==
  CASE status = "answered" -> 14 + Clamp(text, 200) + 3 + 32
    [] status = "timeout"  -> 51
    [] OTHER               -> 14 + Clamp(text, 200)

-----------------------------------------------------------------------------
(* Telegram's text.                                                        *)

TelegramLimit == 4096
SettleReserve == 200
QuestionBudget == TelegramLimit - SettleReserve

(* truncateUTF16, then escapeHTML. *)
Escaped(length, script, limit) ==
  CASE script = "wide"   -> Clamp(2 * length, limit)
    [] script = "markup" -> 5 * Clamp(length, limit)
    [] OTHER             -> Clamp(length, limit)

(* renderBody of the first n characters.  A fence that was cut is closed.  *)
BodyCost(q, n) ==
  CASE q.script = "wide"   -> 2 * n
    [] q.script = "markup" -> 5 * n
    [] q.script = "fenced" -> IF n < 3 THEN n ELSE IF n = 3 THEN 24
                              ELSE IF n = q.body THEN n + 16 ELSE n + 20
    [] OTHER               -> n

TelegramHeader(q) ==
  33 + Escaped(q.title, q.titleScript, 200)
     + (IF q.label > 0 THEN 10 + Escaped(q.label, q.labelScript, 120) ELSE 0)

NameLen == 80   \* what a footer takes of a file's name, before the escape

(* questionFooter; missed files, with names of one kind, were not uploaded. *)
TelegramFooter(q, missed, textReplies) ==
  LET invite == IF q.free /\ textReplies THEN (IF q.choices = <<>> THEN 46 ELSE 63) ELSE 0
      names  == IF missed = 0 THEN 0 ELSE 25 + missed * (Escaped(q.name, q.nameScript, NameLen) + 2) - 2
  IN invite + names + (IF invite > 0 /\ names > 0 THEN 1 ELSE 0)

(* The binary search of composeQuestion in 0 .. n.  It ends at a length    *)
(* that fits, if 0 does, though it tries only some of them.                *)
SearchLongest(fits, n) ==
  LET Best[window \in (0 .. n) \X (0 .. n)] ==
        LET lo  == window[1]
            hi  == window[2]
            mid == (lo + hi + 1) \div 2
        IN IF lo >= hi THEN lo
           ELSE IF mid \in fits THEN Best[<<mid, hi>>] ELSE Best[<<lo, mid - 1>>]
  IN Best[<<0, n>>]

Part(length) == IF length > 0 THEN 2 + length ELSE 0

(* All but the body. *)
TelegramFrame(q, missed, textReplies) ==
  TelegramHeader(q) + Part(TelegramFooter(q, missed, textReplies))

(* The question with the first n characters of its body and a note.        *)
CutText(q, missed, textReplies, n) ==
  TelegramFrame(q, missed, textReplies) + Part(BodyCost(q, n) + 2) + Part(66)

(* composeQuestion.  The cost of a prefix does not always grow with its    *)
(* length: a fence is closed wherever it is cut.  If not even the note     *)
(* fits, the title is all that is shown.                                   *)
TelegramText(q, missed, textReplies) ==
  LET full == TelegramFrame(q, missed, textReplies) + Part(BodyCost(q, q.body))
      fits == {n \in Nat : CutText(q, missed, textReplies, n) <= QuestionBudget}
  IN IF full <= QuestionBudget
     THEN [length |-> full, cut |-> FALSE, note |-> FALSE]
     ELSE IF 0 \notin fits
     THEN [length |-> Clamp(Escaped(q.title, q.titleScript, 200), QuestionBudget),
           cut |-> TRUE, note |-> FALSE]
     ELSE [length |-> CutText(q, missed, textReplies, SearchLongest(fits, q.body)),
           cut |-> TRUE, note |-> TRUE]

(* outcomeLine as the chat shows it: who in 64 units, what in 80. *)
TelegramOutcome(status, text) ==
  IF status = "answered" THEN 12 + 64 + 2 + Clamp(text, 80) ELSE 12 + Clamp(text, 80)

TelegramSettled(length, outcome) == length + 2 + outcome
=============================================================================
