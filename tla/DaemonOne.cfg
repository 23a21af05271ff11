\* Three daemons, one of which may be killed, and two CLI processes, all fair.
SPECIFICATION FairSpec
CONSTANTS
  d1 = d1
  d2 = d2
  d3 = d3
  c1 = c1
  c2 = c2
  c3 = c3
  Nobody = Nobody
  Daemons = {d1, d2, d3}
  Clients = {c1, c2}
  MaxKills = 1
INVARIANTS
  TypeOK
  OneDaemonPolls
  ServingIsReachable
  CleanExit
  StrandsNobody
PROPERTY
  StopEnds
CHECK_DEADLOCK FALSE
