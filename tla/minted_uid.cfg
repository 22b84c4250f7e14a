SPECIFICATION Spec
CONSTANTS
  Orders = {o1}
  Payments = {p1}
  Cents <- NoneOrTwo
  Amounts <- OneOrTwo
  Totals <- UpToFour
  LineUids <- Ahead
  FulfillmentUids = {}
  FulfillmentMoves <- Proposals
  MaxDraws = 5
  MaxEntries = 2
  MaxPatches = 1
  Keep = Keep
  None = None
  Opaque = Opaque
INVARIANTS
  NeverOverTendered
CHECK_DEADLOCK FALSE
