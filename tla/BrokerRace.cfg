\* One question on two messengers, four callers racing its timeout, its
\* caller's hang-up and the posts themselves, fair goroutines.
SPECIFICATION FairSpec
CONSTANTS
  q1 = q1
  q2 = q2
  q3 = q3
  telegram = telegram
  discord = discord
  click1 = click1
  click2 = click2
  cancel1 = cancel1
  cancel2 = cancel2
  Requests = {q1}
  Posters = {telegram, discord}
  Clicks = {click1, click2}
  Cancels = {cancel1, cancel2}
  Timed = {q1}
  RecentCapacity = 1
  NoRequest = NoRequest
INVARIANTS
  TypeOK
  AcceptedIsReturned
  SettledBeforeReturn
PROPERTY
  ImplementsPromise
  AskReturns
CHECK_DEADLOCK FALSE
