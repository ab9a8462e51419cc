CONSTANTS
  ms = ms
  google = google
  t1 = t1
  t2 = t2
  g = g
  RefreshOrder <- Order
  Issuers = {t1, t2, g}
  Confs <- Settings
  Refresher = Refresher
  None = None
  Page = Page
  Cut = Cut
  MaxVersion = 2
SPECIFICATION FairSpec
INVARIANTS
  OidcTypeOK
  UpIsGenuine
  CachedStartsSucceed
PROPERTIES
  StartsEnd
  RefreshCatchesUp
