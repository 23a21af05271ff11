\* Two open-ended questions, one of them with buttons and a timeout, a press
\* and a typed message.  Posting takes any time, and the grace period is one
\* tick, so that a question can be pruned while it waits.
SPECIFICATION Spec
CONSTANTS
  q1 = q1
  q2 = q2
  press1 = press1
  message1 = message1
  Nobody = Nobody
  Questions = {q1, q2}
  Buttons = {q1}
  Timed = {q1}
  Presses = {press1}
  Messages = {message1}
  Timeout = 1
  Grace = 1
  MaxTime = 2
INVARIANTS
  TypeOK
  ToldTheTruth
PROPERTIES
  ImplementsMessenger
  OpenReplyIsAuthoritative
CHECK_DEADLOCK FALSE
