CONSTANTS
  Orgs = {A}
  people = people
  tasks = tasks
  Slugs = {people}
  gp = gp
  TableIds = {gp}
  gc = gc
  ColumnIds = {gc, c1}
  r1 = r1
  r2 = r2
  RowIds = {r1, r2, r3}
  Names = {1, 2}
  ColumnDefs <- LockDefs
  Payloads <- LockRows
  SeedTables <- Seeded
  SeedColumns <- SeededText
  Global = Global
  None = None
  Gone = Gone
SPECIFICATION FairSpec
PROPERTIES
  InsertionsEnd
CHECK_DEADLOCK FALSE
