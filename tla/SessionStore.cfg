CONSTANTS
  Ids = {i1, i2}
  Threads = {t1, t2}
  NoId = NoId
  TTL = 1
  MaxTime = 4
SPECIFICATION FairSpec
INVARIANT TypeOK
PROPERTIES
  OnlyLogoutEndsLive
  DeadStaysDead
  Refines
  ExpiredAreSwept
