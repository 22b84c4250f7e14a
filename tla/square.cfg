SPECIFICATION Spec
CONSTANTS
  Orders = {o1, o2}
  Payments = {p1, p2}
  Cents <- NoneOrTwo
  Amounts <- OneOrTwo
  Totals <- UpToFour
  LineUids <- Elsewhere
  FulfillmentUids = {}
  FulfillmentMoves <- Proposals
  MaxDraws = 5
  MaxEntries = 2
  MaxPatches = 1
  Keep = Keep
  None = None
  Opaque = Opaque
SYMMETRY Symmetric
INVARIANTS
  NeverOverTendered
  TendersMatchCaptures
  LinesAddUp
PROPERTIES
  ClosedIsFinal
CHECK_DEADLOCK FALSE
