CONSTANTS
  Checkouts = {c1, c2}
  Keys = {k1, k2}
  Pilots = {p1, p2}
  Operators = {o1, o2}
  Balance = 1
  MaxRevisions = 6
  None = None
SPECIFICATION Spec
SYMMETRY MCSymmetry
CHECK_DEADLOCK FALSE
INVARIANTS TypeOK PilotSellsOnce InvoiceIsReserved CreditIsCovered
