CONSTANTS
  Mails <- MailsOfTwo
  TypeOf <- TypesOfTwo
  Workers = {w1}
  Controls = {c1}
  Operators = {}
  Targets <- TargetsOfOne
  MaxAttempts = 2
  MaxMishaps = 1
  Holder = holder
  Notifier = notifier
  None = none
SPECIFICATION FairSpec
PROPERTIES
  QueuedMailComesToAnEnd
  RecoveredHoldReleasesMail
CHECK_DEADLOCK FALSE
