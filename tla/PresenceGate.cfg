\* One invocation, with every combination of settings, while the human
\* declares for ever, or for up to three half seconds, over three seconds.
SPECIFICATION Spec
CONSTANTS
  i1 = i1
  Invocations = {i1}
  Windows = {0, 1, 2, 3}
  MaxTime = 8
INVARIANTS
  TypeOK
  MarkerMeansWhatWasSaid
  NothingReachesAFK
  SettingsDecide
  ZeroMeansDecided
CHECK_DEADLOCK FALSE
