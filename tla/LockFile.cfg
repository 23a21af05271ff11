\* Three daemons started at any time, a clock of three times the stale age.
SPECIFICATION FairSpec
CONSTANTS
  d1 = d1
  d2 = d2
  d3 = d3
  Processes = {d1, d2, d3}
  Nobody = Nobody
  Stale = 1
  MaxTime = 4
INVARIANT
  TypeOK
PROPERTY
  ImplementsLock
  AbandonedIsTaken
CHECK_DEADLOCK FALSE
