\* Two processes; the loops they run differ from deployment to deployment.
SPECIFICATION FairSpec
CONSTANTS
  p1 = p1
  p2 = p2
  Procs = {p1, p2}
  Events = {e1}
  Setups = {s1}
  Days = 2
  None = None
  MaxX = 5
  XBatch = 2
  DailyCap = 1
  MaxAttempts = 3
  BcastBatch = 2
  BcastMax = 2
  MaxEmits = 3
  Deployments <- MCDeployments
  Faults = {"crash", "mark", "count", "lost", "insert"}
  MaxFaults = 1
INVARIANTS HeldOnce DeliveredOnce PostsBounded
PROPERTIES RowsAreQueued EveryRowEnds
