CONSTANTS
  IPs = {a}
  Requests = {r1, r2, r3}
  Salts = {s1, s2, s3}
  None = None
  Burst = 2
  Period = 2
  DayLength = 5
  MaxTime = 6
  WindowStart = 4
SPECIFICATION Spec
SYMMETRY Symmetry
INVARIANTS
  TypeOK
  WindowBound
PROPERTIES
  PatientAreAdmitted
CHECK_DEADLOCK FALSE
