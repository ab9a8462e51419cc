CONSTANTS
  IPs = {a}
  Requests = {r1, r2}
  Salts = {s1, s2, s3, s4}
  None = None
  Burst = 2
  Period = 2
  DayLength = 3
  MaxTime = 5
  WindowStart = 1
SPECIFICATION Spec
SYMMETRY Symmetry
INVARIANTS
  SaltsAreDaily
CHECK_DEADLOCK FALSE
