\* Two connections of any kind on one pane, an idle window of one tick, all fair.
SPECIFICATION FairSpec
CONSTANTS
  c1 = c1
  c2 = c2
  c3 = c3
  pane1 = pane1
  Calls = {c1, c2}
  Panes = {pane1}
  NoCall = NoCall
  NoPane = NoPane
  Window = 1
  MaxTime = 1
INVARIANTS
  TypeOK
  ClearedAtExit
  EveryCallIsAnswered
PROPERTIES
  IdleMeansQuiet
  HangUpWithdraws
  StopEndsService
CHECK_DEADLOCK FALSE
