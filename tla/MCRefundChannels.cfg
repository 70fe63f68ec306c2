SPECIFICATION Spec
CONSTANTS
  f1 = f1
  f2 = f2
  Jobs = {j1, j2}
  Refunds = {f1, f2}
  Amount <- MCAmount
  Manual = {f1}
  Succeeded = {}
  Strict = FALSE
  Paid = 2
  MaxHandlings = 5
SYMMETRY Symmetry
INVARIANTS
  TypeOK
  OneChannelPays
  AppliedIsBooked
CHECK_DEADLOCK FALSE
