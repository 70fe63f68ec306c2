SPECIFICATION Spec
CONSTANTS
  Requests = {q1, q2, q3}
  Payloads = {b1, b2}
  Lease = 2
  MaxClock = 4
  MaxMishaps = 2
  None = None
SYMMETRY Symmetry
INVARIANTS
  TypeOK
  AcknowledgedIsAccountedFor
PROPERTIES
  ProcessedIsFinal
CHECK_DEADLOCK FALSE
