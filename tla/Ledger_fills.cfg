\* One order and the user stream.
SPECIFICATION Spec
CONSTANTS
  o1 = o1
  o2 = o2
  Orders = {o1}
  NoOrder = NoOrder
  Units = 2
  MaxWire = 3
  Deployments <- MCStream
INVARIANTS FilledIsListed
CHECK_DEADLOCK FALSE
