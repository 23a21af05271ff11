\* Two questions, one of them with buttons, a click and a typed message.
SPECIFICATION Spec
CONSTANTS
  q1 = q1
  q2 = q2
  click1 = click1
  click2 = click2
  message1 = message1
  Nobody = Nobody
  Questions = {q1, q2}
  Buttons = {q1}
  Presses = {click1}
  Messages = {message1}
INVARIANTS
  TypeOK
  ReplyIsAuthoritative
  TurnedAwayIsOut
PROPERTY
  ImplementsMessenger
CHECK_DEADLOCK FALSE
