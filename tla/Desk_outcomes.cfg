\* What an applied entry gets when its position has been closed at the stop.
SPECIFICATION FairSpec
CONSTANTS
  MaxDecisions = 1
  Unit = 2
  Configs <- MCDryConfig
  MaxTrails = 0
  MaxFaults = 0
PROPERTIES ClosedHasOutcome
CHECK_DEADLOCK FALSE
