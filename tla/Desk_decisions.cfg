\* Two decisions, an entry by hand and a failure of every kind, over fifteen deployments.
SPECIFICATION FairSpec
CONSTANTS
  MaxDecisions = 2
  Unit = 2
  Configs <- MCConfigs
  MaxTrails = 2
  MaxFaults = 2
INVARIANTS NoStacking OncePerDecision VerdictsHold OneManagedStop
CHECK_DEADLOCK FALSE
PROPERTIES StopHolds
