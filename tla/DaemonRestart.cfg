\* A daemon that is shutting down while the next one is started; nobody is killed.
SPECIFICATION Spec
CONSTANTS
  d1 = d1
  d2 = d2
  d3 = d3
  c1 = c1
  c2 = c2
  c3 = c3
  Nobody = Nobody
  Daemons = {d1, d2}
  Clients = {c1, c2}
  MaxKills = 0
INVARIANT
  RedundantMeansRunning
CHECK_DEADLOCK FALSE
