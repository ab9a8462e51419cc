CONSTANTS
  Emails = {ann, bob}
  Nicknames = {nick}
  Slugs = {acme, beta}
  Passwords = {p1}
  Requests = {r1, r2, r3}
  None = None
  Kinds = {"signup", "login"}
  Choices <- OwnNames
  MaxInFlight = 3
  Faults = FALSE
SPECIFICATION FairSpec
PROPERTIES
  SlugRaceHasWinner
CHECK_DEADLOCK FALSE
