\* Three questions, one of them without a timeout, a ring that remembers two of
\* them, one messenger.
SPECIFICATION Spec
CONSTANTS
  q1 = q1
  q2 = q2
  q3 = q3
  telegram = telegram
  discord = discord
  click1 = click1
  click2 = click2
  cancel1 = cancel1
  cancel2 = cancel2
  Requests = {q1, q2, q3}
  Posters = {telegram}
  Clicks = {click1}
  Cancels = {cancel1}
  Timed = {q1, q2}
  RecentCapacity = 2
  NoRequest = NoRequest
SYMMETRY TimedSymmetry
INVARIANTS
  RecentIsLastRetired
  LateCallerIsTold
CHECK_DEADLOCK FALSE
