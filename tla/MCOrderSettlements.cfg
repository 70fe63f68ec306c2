SPECIFICATION Spec
CONSTANTS
  j1 = j1
  j2 = j2
  r1 = r1
  r2 = r2
  Jobs = {j1, j2}
  Refunds = {r1, r2}
  RefundAmount <- MCRefundAmount
  Disputes = {d1}
  DisputeAmount = 0
  Cash = 2
  Credit = 1
  MaxHandlings = 5
  None = None
SYMMETRY Symmetry
INVARIANTS
  TypeOK
  CreditMovesOnce
  EachEventBooksOnce
  ReversalsWithinPayment
  ShadowFollowsLedger
  CreditReturnedWithLastYen
CHECK_DEADLOCK FALSE
