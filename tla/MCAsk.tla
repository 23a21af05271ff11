-------------------------------- MODULE MCAsk --------------------------------
(* Families of asks, each of which varies one part of the input.           *)
EXTENDS Ask

Distinct(n) == [i \in 1 .. n |-> i]
Files(n, size) == [i \in 1 .. n |-> size]

Asking ==
  [notice |-> FALSE, title |-> 30, titleScript |-> "plain", label |-> 20, labelScript |-> "plain",
   body |-> 100, script |-> "plain", attach |-> <<>>, name |-> 20, nameScript |-> "plain",
   choices |-> Distinct(2), free |-> TRUE, timeout |-> 60, transports |-> Empty, default |-> FALSE]

Nothing == [file |-> <<>>, dotenv |-> <<>>, env |-> <<>>]

Both ==
  [Nothing EXCEPT !.file = [key \in UNION {{Token(m), Chat(m)} : m \in Messengers} |-> "set"]]

(* The key with these values in the file, .env and the environment. *)
Layer(s, key, name, inFile, inDotenv, inEnv) ==
  LET One(x, v) == IF v = Empty THEN <<>> ELSE x :> v IN
  [file   |-> One(key, inFile) @@ s.file,
   dotenv |-> One(<<name, key>>, inDotenv) @@ s.dotenv,
   env    |-> One(<<name, key>>, inEnv) @@ s.env]

Case(flags, asker, daemon, up, channel) ==
  [flags |-> flags, asker |-> asker, daemon |-> daemon, up |-> up, channel |-> channel]

Simple(flags, channel) == Case(flags, Both, Both, Messengers, channel)

Layouts ==
  {Simple([Asking EXCEPT !.choices = choices, !.free = free], channel) :
     choices \in {Distinct(n) : n \in {0, 1, 3, 5, 6, 20, 21, 25, 26}} \union {<<1, 2, 1>>},
     free \in BOOLEAN, channel \in BOOLEAN}

Lengths ==
  {Simple([Asking EXCEPT !.title = title, !.titleScript = script, !.label = label,
                         !.body = body, !.script = script, !.notice = notice], FALSE) :
     title \in {0, 200, 201}, script \in {"plain", "wide", "markup", "fenced"}, label \in {0, 200},
     body \in {0, 3, 760, 1550, 1700, 2000, 3700, 3896, 100000, 100001}, notice \in BOOLEAN}

(* The last label that leaves Discord room for the body, and the next one. *)
Labels ==
  {Simple([Asking EXCEPT !.title = MaxTitleLen, !.label = label, !.body = 2000], FALSE) :
     label \in {LabelRoom, LabelRoom + 1}}

Uploads ==
  {Simple([Asking EXCEPT !.attach = attach, !.body = body, !.titleScript = "markup", !.title = 200],
          FALSE) :
     attach \in {<<1>>, <<0>>, <<10240>>, <<10241>>, <<10240, 10240, 5120>>,
                 <<10240, 10240, 5121>>, Files(10, 1), Files(11, 1)},
     body \in {100, 4000}}

(* A title, a label and names at their limits, in one script: the uploads  *)
(* whose names, escaped, leave no room for the note, and one fewer.        *)
Names ==
  {Simple([Asking EXCEPT !.title = 200, !.titleScript = script, !.label = 120, !.labelScript = script,
                         !.name = 255, !.nameScript = script, !.attach = Files(n, 1), !.body = body],
          FALSE) :
     script \in {"wide", "markup"}, n \in {NamesRoom, NamesRoom + 1}, body \in {100, 4000}}

(* What the layers say of the deadline, the list and a switch, and names. *)
Layered ==
  {Layer(Both, Timeout, "HITL_", f, d, e) :
     f \in {Empty, 30, 0, -1}, d \in {Empty, 40, Garbage}, e \in {Empty, 50, Garbage}}
  \union
  {Layer(Both, Transports, "HITL_", f, d, e) :
     f \in {Empty, {Telegram}}, d \in {Empty, {Discord}, {"all"}}, e \in {Empty, {Telegram}, {"other"}}}
  \union
  {Layer(Layer(Both, On(Discord), "", f, d, Empty), On(Discord), "HITL_", f, b, e) :
     f \in {Empty, FALSE}, d \in {Empty, TRUE}, b \in {Empty, FALSE}, e \in {Empty, TRUE, Garbage}}
  \union
  {Layer(Layer(Nothing, Token(Telegram), name, f, d, e), Chat(Telegram), "", c, Empty, Empty) :
     name \in {"", "HITL_"}, f \in {Empty, "a"}, d \in {Empty, "b"}, e \in {Empty, "c"},
     c \in {Empty, "set"}}

Only(m) == Layer(Both, Transports, "HITL_", {m}, Empty, Empty)
Off(m) == Layer(Both, On(m), "HITL_", FALSE, Empty, Empty)

Overlays ==
  {Case([Asking EXCEPT !.timeout = Empty, !.free = FALSE], s, Both, Messengers, FALSE) : s \in Layered}

Stale ==
  {Case([Asking EXCEPT !.timeout = timeout, !.transports = names, !.default = TRUE, !.notice = notice],
        asker, daemon, up, FALSE) :
     timeout \in {Empty, 0, 60, -1}, notice \in BOOLEAN,
     names \in {Empty, {}, {Telegram}, {Discord}, {"all"}},
     asker \in {Both, Only(Discord), Off(Telegram),
                [Off(Telegram) EXCEPT !.file = On(Discord) :> FALSE @@ @]},
     daemon \in {Layer(Only(Telegram), Timeout, "HITL_", 90, Empty, Empty)},
     up \in {{Telegram}, Messengers}}

(* One of the two messengers did not start; nothing else is unusual. *)
OneDown == {Case(Asking, Both, Both, {m}, FALSE) : m \in Messengers}

AllCases == Layouts \union Lengths \union Labels \union Uploads \union Names
              \union Overlays \union Stale \union OneDown
=============================================================================
