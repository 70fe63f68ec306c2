SPECIFICATION FairSpec
CONSTANTS
  Requests = {q1, q2}
  Payloads = {b1}
  Lease = 2
  MaxClock = 3
  MaxMishaps = 2
  None = None
PROPERTIES
  EventComesToAnEnd
  EventuallyHandled
CHECK_DEADLOCK FALSE
