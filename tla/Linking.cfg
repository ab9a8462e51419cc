CONSTANTS
  ann = ann
  bob = bob
  Emails = {ann, bob}
  Nicknames = {}
  Slugs = {acme}
  Passwords = {p1}
  Requests = {r1, r2, r3}
  None = None
  Kinds = {"signup", "totp"}
  Choices <- OwnNames
  MaxInFlight = 1
  Faults = TRUE
  xa = xa
  xb = xb
  Identities = {xa, xb}
  Claims <- ReportedClaims
  SignIns = {s1, s2, s3}
  MaxSignInsInFlight = 2
SPECIFICATION LinkingSpec
SYMMETRY Symmetry
INVARIANTS
  LinkingTypeOK
  LinksAreClaimed
  SignInIsClaimed
PROPERTIES
  TokenSpent
CHECK_DEADLOCK FALSE
