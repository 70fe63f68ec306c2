CONSTANTS
  Shops = {s1}
  Primary = s1
  Staff = {ann, bob}
  Machines = {dog}
  Requests = {r1, r2}
  MaxStops = 2
  MaxRevision = 4
  MaxMishaps = 2
  None = None
SPECIFICATION Spec
SYMMETRY MCSymmetry
CHECK_DEADLOCK FALSE
INVARIANTS TypeOK ActiveMeansStopped RowsAgree RecoveryRepublishes ToldProtectedIsStopped
PROPERTIES OneStopIsResumedByAnother EmailHoldIsLiftedByAnother
