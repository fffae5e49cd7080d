\* The user stream, the reconcilers and the cancel route on the same rows.
SPECIFICATION FairSpec
CONSTANTS
  o1 = o1
  o2 = o2
  Orders = {o1, o2}
  NoOrder = NoOrder
  Units = 2
  MaxWire = 3
  Deployments <- MCDeployments
INVARIANTS StatusTrue
PROPERTIES TerminalIsFinal SubmittedLeaves
CHECK_DEADLOCK FALSE
