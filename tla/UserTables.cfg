CONSTANTS
  Orgs = {A, B}
  people = people
  tasks = tasks
  Slugs = {people, tasks}
  gp = gp
  TableIds = {gp, t1, t2}
  gc = gc
  ColumnIds = {gc, c1}
  r1 = r1
  r2 = r2
  RowIds = {r1, r2}
  Names = {1, 2}
  ColumnDefs <- Defs
  Payloads <- Rows
  SeedTables <- Seeded
  SeedColumns <- SeededColumns
  Global = Global
  None = None
  Gone = Gone
SPECIFICATION Spec
SYMMETRY Symmetry
INVARIANTS
  TypeOK
  ValuesFit
  ReferencesHold
  RequiredFilled
PROPERTIES
  OrgsLeftAlone
CHECK_DEADLOCK FALSE
