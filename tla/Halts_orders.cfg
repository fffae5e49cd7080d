\* Two processes; the loops they run differ from deployment to deployment.
SPECIFICATION FairSpec
CONSTANTS
  p1 = p1
  p2 = p2
  Procs = {p1, p2}
  MaxResets = 1
  Faults = {"persist", "crash", "mark", "enqueue", "claim", "lost"}
  MaxFaults = 1
  Subs = {s1}
  MaxFills = 2
  ScanLimit = 1
  MaxJobs = 1
  MaxEvents = 2
  RangeBatch = 2
  NoJob = NoJob
  Deployments <- MCDeployments
INVARIANTS HaltBoundsOrders OrderedOnce
PROPERTIES HaltFollows FillsAreCopied
\* Without the switch, the loops come to rest when nothing is left to place.
CHECK_DEADLOCK FALSE
