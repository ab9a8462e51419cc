CONSTANTS
  Emails = {ann, bob}
  Nicknames = {nick}
  Slugs = {acme}
  Passwords = {p1, p2}
  Requests = {r1, r2, r3, r4}
  None = None
  Kinds = {"signup", "login", "totp", "logout", "invite", "accept", "password"}
  Choices <- AllNames
  MaxInFlight = 2
  Faults = TRUE
SPECIFICATION Spec
SYMMETRY Symmetry
INVARIANTS
  TypeOK
  OneOwnerPerOrg
  SessionsAreMemberships
  RolesAreGranted
PROPERTIES
  InviteSpent
  AbandonedStays
  PasswordTakesEffect
CHECK_DEADLOCK FALSE
