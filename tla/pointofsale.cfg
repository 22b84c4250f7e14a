SPECIFICATION UnitSpec
CONSTANTS
  Orders = {o1, o2}
  Payments = {p1, p2}
  Totals <- Refundable
  Amounts <- OneOrTwo
  MaxLineItems = 2
  BulkMax = 2
  None = None
  Vendors <- All
  Guids = {g1}
  Authorizations = {a1}
  Authorized <- ForOne
  CheckTotals <- UpToTwo
  TenderAmounts <- OneOrTwo
  MaxChecks = 2
  MaxBatch = 2
  Sales = {s1, s2}
  Registers = {r1}
  OpenAtFirst = {r1}
  SaleAmounts <- JustOne
  Quantities <- SoldOrTaken
  PageSize = 1
  MaxPayments = 2
  MaxMinted = 2
  MaxVersion = 8
  MaxTime = 1
SYMMETRY Symmetric
INVARIANTS
  PaidTellsTheMoney
  StatusTellsCoverage
  TillCountsOnce
  StockBalances
  WalkMissesNothing
PROPERTIES
  PaidOrderStands
  VoidedIsFinal
CHECK_DEADLOCK FALSE
