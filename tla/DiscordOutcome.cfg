\* One question and two clicks that race.
SPECIFICATION Spec
CONSTANTS
  q1 = q1
  q2 = q2
  click1 = click1
  click2 = click2
  message1 = message1
  Nobody = Nobody
  Questions = {q1}
  Buttons = {q1}
  Presses = {click1, click2}
  Messages = {message1}
SYMMETRY Symmetry
INVARIANT
  OutcomeIsShown
CHECK_DEADLOCK FALSE
