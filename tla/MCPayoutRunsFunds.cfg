SPECIFICATION Spec
CONSTANTS
  Runs = {r1, r2}
  Operators = {ann, ben}
  Calls = {c1}
  Amounts = {1, 2}
  TransferIds = {t1}
  None = None
  MaxCredited = 3
  MaxVersion = 0
SYMMETRY Symmetry
INVARIANTS
  NeverOverpays
