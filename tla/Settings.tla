------------------------------ MODULE Settings -------------------------------
(***************************************************************************)
(* The settings of herdr-hitl, internal/config: config.toml under .env     *)
(* under the process environment, and which messengers an ask uses by      *)
(* default.                                                                *)
(*                                                                         *)
(* A key is <<section, name>>; the section is a messenger or "hitl".  A    *)
(* variable is <<prefix, key>>: every key has a HITL_ name, those of a     *)
(* messenger also the bare name of the Herdr examples.  The settings s of  *)
(* one process are three partial functions: s.file from keys, s.dotenv and *)
(* s.env from variables.  Values are already of the type that parsing      *)
(* gives them, Garbage if it fails and Empty if there is nothing to parse. *)
(***************************************************************************)
EXTENDS Integers, FiniteSets

CONSTANTS
  Messengers,      \* the names of the transports
  Empty,           \* no value
  Garbage,         \* a value that does not parse
  DefaultTimeout   \* the deadline when nobody says otherwise

Transports == <<"hitl", "transports">>
Timeout    == <<"hitl", "timeout">>
Token(m)   == <<m, "bot_token">>
Chat(m)    == <<m, "chat_id">>
On(m)      == <<m, "enabled">>

Keys == {Transports, Timeout} \union UNION {{Token(m), Chat(m), On(m)} : m \in Messengers}

Long(key) == <<"HITL_", key>>
Bare(key) == <<"", key>>

(* What a process may be started with, as far as its type matters: only a  *)
(* variable may say nothing of the deadline, or nonsense.                  *)
IsSettings(s) ==
  /\ DOMAIN s = {"file", "dotenv", "env"}
  /\ Timeout \in DOMAIN s.file => s.file[Timeout] \in Int
  /\ \A layer \in {s.dotenv, s.env} : Long(Timeout) \in DOMAIN layer =>
       layer[Long(Timeout)] \in Int \union {Empty, Garbage}

ASSUME SettingsAssumption ==
  DefaultTimeout \in Int /\ Empty \notin Int /\ Garbage \notin Int /\ Empty # Garbage

(* A variable that is set but empty counts as not set. *)
Get(s, var) ==
  LET Has(layer) == var \in DOMAIN layer /\ layer[var] # Empty IN
  IF Has(s.env) THEN s.env[var] ELSE IF Has(s.dotenv) THEN s.dotenv[var] ELSE Empty

(* firstEnv: the long name, wherever it is set, before the bare one. *)
FirstEnv(s, key) ==
  IF Get(s, Long(key)) # Empty \/ key[1] = "hitl" THEN Get(s, Long(key)) ELSE Get(s, Bare(key))

InFile(s, key) ==
  IF key \in DOMAIN s.file THEN s.file[key]
  ELSE IF key = Timeout THEN DefaultTimeout ELSE Empty

(* applyEnv.  A duration that does not parse is ignored; a boolean that    *)
(* does not parse resets what the file says.                               *)
Load(s) ==
  [key \in Keys |->
     LET v == FirstEnv(s, key) IN
     IF v = Empty \/ (v = Garbage /\ key = Timeout) THEN InFile(s, key)
     ELSE IF v = Garbage THEN Empty ELSE v]

(* boolOr: a token turns a messenger on that nobody turns off. *)
IsEnabled(cfg, m) ==
  IF cfg[On(m)] = Empty THEN cfg[Token(m)] # Empty ELSE cfg[On(m)]

EnabledTransports(cfg) == {m \in Messengers : IsEnabled(cfg, m)}

Listed(cfg) == IF cfg[Transports] = Empty THEN {} ELSE cfg[Transports]

(* Validate, as far as the messengers and the deadline go. *)
Valid(cfg) ==
  /\ cfg[Timeout] >= 0
  /\ Listed(cfg) \subseteq Messengers \union {"all"}
  /\ \A m \in EnabledTransports(cfg) : cfg[Token(m)] # Empty /\ cfg[Chat(m)] # Empty

(* A list of messengers none of which is enabled counts as no list. *)
DefaultTransports(cfg) ==
  LET listed == Listed(cfg) \intersect EnabledTransports(cfg) IN
  IF listed = {} \/ "all" \in Listed(cfg) THEN EnabledTransports(cfg) ELSE listed
=============================================================================
