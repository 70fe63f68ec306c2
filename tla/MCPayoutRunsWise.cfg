SPECIFICATION Spec
CONSTANTS
  Runs = {r1}
  Operators = {ann, ben}
  Calls = {c1, c2, c3}
  Amounts = {1}
  TransferIds = {t1}
  None = None
  MaxCredited = 1
  MaxVersion = 2
SYMMETRY Symmetry
INVARIANTS
  TypeOK
  OutgoingMoneyIsBooked
  DebitsFollowMoney
  ApprovedRecipientIsPaid
PROPERTIES
  KeepsPromise
