CONSTANTS
  Requests <- MCRequests
  Refunds = {f1, f2}
  Procs = {p1, p2}
  Purchased = 2
  MaxDecisions = 2
  None = None
SPECIFICATION Spec
SYMMETRY MCSymmetry
CHECK_DEADLOCK FALSE
INVARIANTS TypeOK ReservationsWithinPurchase AllocationsAreCovered
