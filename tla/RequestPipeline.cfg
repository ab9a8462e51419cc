CONSTANTS
  Emails = {ann, bob}
  Nicknames = {}
  Slugs = {acme}
  Passwords = {p1}
  Requests = {r1, r2, r3, r4}
  None = None
  Kinds = {"signup", "totp", "logout", "invite", "accept"}
  Choices <- OwnNames
  MaxInFlight = 1
  Faults = TRUE
  Visits = {v1}
  Routes = {"me", "profile", "tables", "sessions", "projects"}
  MaxVisits = 2
  LocalRequired = TRUE
SPECIFICATION PipelineSpec
SYMMETRY Symmetry
INVARIANTS
  SecondFactorFirst
  ProfileIsFound
PROPERTIES
  EnrolledAreAdmitted
CHECK_DEADLOCK FALSE
