CONSTANTS
  Mails <- MailsOfOne
  TypeOf <- TypesOfOne
  Workers = {w1, w2}
  Controls = {c1}
  Operators = {o1}
  Targets <- TargetsOfOne
  MaxAttempts = 2
  MaxMishaps = 1
  Holder = holder
  Notifier = notifier
  None = none
SPECIFICATION Spec
INVARIANTS
  TypeOK
  DeliveryRecordedOnce
  HoldLetsOneThrough
PROPERTIES
  SentIsFinal
CHECK_DEADLOCK FALSE
