CONSTANTS
  Emails = {ann, bob}
  Nicknames = {}
  Slugs = {acme}
  Passwords = {p1}
  Requests = {r1, r2, r3, r4}
  None = None
  Kinds = {"signup", "invite", "accept"}
  Choices <- OwnNames
  MaxInFlight = 2
  Faults = FALSE
SPECIFICATION Spec
SYMMETRY Symmetry
INVARIANTS
  InviteAcceptedOnce
CHECK_DEADLOCK FALSE
