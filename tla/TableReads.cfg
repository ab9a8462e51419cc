CONSTANTS
  Orgs = {A, B}
  people = people
  Slugs = {people}
  gp = gp
  TableIds = {gp, t1}
  ColumnIds = {c1, c2}
  r1 = r1
  r2 = r2
  RowIds = {r1, r2}
  Names = {1, 2}
  ColumnDefs <- Defs
  Payloads <- Rows
  SeedTables <- Seeded
  SeedColumns <- SeededColumns
  Global = Global
  None = None
  Gone = Gone
  Reads = {s1}
  ReadOrder <- Order
  Title = 1
  IdName = 2
  CreatedName = 3
SPECIFICATION ReadsSpec
SYMMETRY Symmetry
INVARIANTS
  ReadsTypeOK
  ReadsStayHome
PROPERTIES
  WholeOrEmpty
CHECK_DEADLOCK FALSE
