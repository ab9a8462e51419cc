-------------------------- MODULE TableReadsProofs --------------------------
(***************************************************************************)
(* Theorems about TableReads, for any tables, columns, payloads and        *)
(* readers and any order of the value tables.  A read relies on what it    *)
(* saw some statements ago: the invariant says that it stays true, or is   *)
(* gone, while others write, and which values row_to_json has by now.      *)
(***************************************************************************)
EXTENDS TableReads, UserTablesProofs

(* A row whose table a read may show.                                      *)
Shown(l, r) ==
    /\ rows[r] # None
    /\ HasRow(r) => \/ tables[rows[r]].org = l.org
                    \/ l.pc = "listed" /\ tables[rows[r]].org = Global

(* What a read has of rows, or is about to read, is shown by right.        *)
SeenOK(s) ==
    \A r \in RowIds :
        \/ look[s].content[r] # None \/ look[s].labels[r] # None
        \/ r \in look[s].todo \/ look[s].row = r
        => Shown(look[s], r)

(* A value table that has been read for the row.                           *)
IsRead(l, c) == \E j \in 1 .. Len(ReadOrder) :
                   j < l.at /\ columns[c].type = ReadOrder[j]

(* Of the row row_to_json is at, the values of the tables behind it are    *)
(* found under the names of their columns.                                 *)
RowOK(s) ==
    /\ look[s].pc = "new" => look[s].row = None
    /\ \A r \in RowIds : look[s].row = r =>
          /\ look[s].content[r] \in Content
          /\ \A c \in ColumnIds :
                HasRow(r) /\ HasColumn(c) /\ values[r][c] # None
                  /\ IsRead(look[s], c) =>
                      look[s].content[r][columns[c].name] = values[r][c]

(* row_to_json reads the value table of every column there is.             *)
OrderOK == \A c \in ColumnIds : HasColumn(c) =>
              \E j \in 1 .. Len(ReadOrder) : columns[c].type = ReadOrder[j]

(* A name stands for one column of a table.                                *)
NamesOK == \A c, d \in ColumnIds :
              /\ HasColumn(c) /\ HasColumn(d)
              /\ columns[c].table = columns[d].table
              /\ columns[c].name = columns[d].name
              => c = d

ReadsInv == /\ IInv /\ ReadsTypeOK /\ OrderOK /\ NamesOK
            /\ \A s \in Reads : SeenOK(s) /\ RowOK(s)

-----------------------------------------------------------------------------
(* An id is used once: what a statement of UserTables finds is as it was,  *)
(* is gone, or is new; and a row that stays keeps its values in the        *)
(* columns that stay.                                                      *)
Lasts ==
    /\ \A t \in TableIds : tables[t] # None => tables'[t] \in {tables[t], Gone}
    /\ \A c \in ColumnIds :
          columns[c] # None => columns'[c] \in {columns[c], Gone}
    /\ \A r \in RowIds : rows[r] # None => rows'[r] \in {rows[r], Gone}
    /\ \A r \in RowIds, c \in ColumnIds :
          HasRow(r) /\ HasColumn(c) /\ HasRow(r)' /\ HasColumn(c)'
             => values'[r][c] = values[r][c]
    /\ \A r \in RowIds, c \in ColumnIds :
          HasRow(r)' /\ columns[c] = None => values'[r][c] = None

LEMMA CreateLasts ==
  ASSUME IInv, NEW o \in Orgs, NEW s \in Slugs, CreateUserTable(o, s)
  PROVE  Lasts
<1>1. PICK t \in TableIds :
         tables[t] = None /\ tables' = [tables EXCEPT ![t] = [org |-> o, slug |-> s]]
  BY DEF CreateUserTable
<1>2. \A x \in TableIds \ {t} : tables'[x] = tables[x]
  BY <1>1 DEF IInv, TypeOK
<1>3. UNCHANGED <<columns, rows, values>>
  BY DEF CreateUserTable
<1>4. \A r \in RowIds, c \in ColumnIds : columns[c] = None => values[r][c] = None
  BY DEF IInv, CommittedOK, Fits, HasColumn
<1> QED BY <1>1, <1>2, <1>3, <1>4 DEF Lasts

LEMMA DeleteTableLasts ==
  ASSUME IInv, NEW o \in Orgs, NEW s \in Slugs, DeleteUserTable(o, s)
  PROVE  Lasts
<1>1. PICK t \in Own(o, s) :
        /\ tables' = [tables EXCEPT ![t] = Gone]
        /\ columns' = [c \in ColumnIds |->
                         IF c \in ColumnsOf(t) THEN Gone ELSE columns[c]]
        /\ rows' = [r \in RowIds |->
                      IF r \in RowsOf(t) THEN Gone ELSE rows[r]]
        /\ values' = [r \in RowIds |->
                        [c \in ColumnIds |->
                           IF c \in ColumnsOf(t) \/ r \in RowsOf(t)
                           THEN None ELSE values[r][c]]]
  BY DEF DeleteUserTable
<1>2. \A x \in TableIds : tables'[x] \in {tables[x], Gone}
  BY <1>1 DEF IInv, TypeOK
<1>3. \A r \in RowIds, c \in ColumnIds :
         HasRow(r)' /\ (HasColumn(c)' \/ columns[c] = None) =>
            values'[r][c] = values[r][c]
  BY <1>1, Marks DEF HasRow, HasColumn, ColumnsOf
<1>4. \A r \in RowIds, c \in ColumnIds : columns[c] = None => values[r][c] = None
  BY DEF IInv, CommittedOK, Fits, HasColumn
<1> QED BY <1>1, <1>2, <1>3, <1>4 DEF Lasts

LEMMA AddColumnLasts ==
  ASSUME IInv, NEW o \in Orgs, NEW s \in Slugs, NEW d \in ColumnDefs,
         AddUserTableColumn(o, s, d)
  PROVE  Lasts
<1>1. PICK c \in ColumnIds :
         columns[c] = None /\ \E x : columns' = [columns EXCEPT ![c] = x]
  BY DEF AddUserTableColumn
<1>2. \A x \in ColumnIds \ {c} : columns'[x] = columns[x]
  BY <1>1 DEF IInv, TypeOK
<1>3. UNCHANGED <<tables, rows, values>>
  BY DEF AddUserTableColumn
<1>4. \A r \in RowIds, x \in ColumnIds : columns[x] = None => values[r][x] = None
  BY DEF IInv, CommittedOK, Fits, HasColumn
<1> QED BY <1>1, <1>2, <1>3, <1>4 DEF Lasts

LEMMA RemoveColumnLasts ==
  ASSUME IInv, NEW o \in Orgs, NEW s \in Slugs, NEW n \in Names,
         RemoveUserTableColumn(o, s, n)
  PROVE  Lasts
<1>1. PICK c \in ColumnIds :
         /\ HasColumn(c)
         /\ columns' = [columns EXCEPT ![c] = Gone]
         /\ values' = [r \in RowIds |-> [values[r] EXCEPT ![c] = None]]
  BY DEF RemoveUserTableColumn, ColumnsOf
<1>2. UNCHANGED <<tables, rows>>
  BY DEF RemoveUserTableColumn
<1>3. columns'[c] = Gone /\ \A x \in ColumnIds \ {c} : columns'[x] = columns[x]
  BY <1>1 DEF IInv, TypeOK
<1>4. ASSUME NEW r \in RowIds, NEW x \in ColumnIds \ {c}
      PROVE  values'[r][x] = values[r][x]
  <2>1. values[r] \in [ColumnIds -> Stored \cup {None}]
    BY DEF IInv, TypeOK
  <2> QED BY <1>1, <2>1
<1>5. \A r \in RowIds, x \in ColumnIds : columns[x] = None => values[r][x] = None
  BY DEF IInv, CommittedOK, Fits, HasColumn
<1> QED BY <1>1, <1>2, <1>3, <1>4, <1>5 DEF Lasts, HasColumn

LEMMA DeleteRowLasts ==
  ASSUME IInv, NEW o \in Orgs, NEW s \in Slugs, NEW r \in RowIds,
         DeleteUserTableRow(o, s, r)
  PROVE  Lasts
<1>1. /\ rows'[r] = Gone
      /\ \A q \in RowIds \ {r} : rows'[q] = rows[q] /\ values'[q] = values[q]
      /\ UNCHANGED <<tables, columns>>
  BY DEF DeleteUserTableRow, IInv, TypeOK
<1>2. \A q \in RowIds, x \in ColumnIds : columns[x] = None => values[q][x] = None
  BY DEF IInv, CommittedOK, Fits, HasColumn
<1> QED BY <1>1, <1>2 DEF Lasts, HasRow

LEMMA CommitLasts ==
  ASSUME IInv, NEW r \in RowIds, InsertCommit(r)
  PROVE  Lasts
<1>1. rows[r] = None /\ WrittenOK(r)
  BY DEF IInv, InsertOK, InsertCommit
<1>2. /\ values'[r] = ins[r].vals
      /\ \A q \in RowIds \ {r} : rows'[q] = rows[q] /\ values'[q] = values[q]
      /\ UNCHANGED <<tables, columns>>
  BY DEF InsertCommit, IInv, TypeOK
<1>3. \A q \in RowIds, x \in ColumnIds : columns[x] = None => values'[q][x] = None
  BY <1>1, <1>2 DEF WrittenOK, IInv, CommittedOK, Fits, HasColumn
<1> QED BY <1>1, <1>2, <1>3 DEF Lasts, HasRow

LEMMA LastsStep == IInv /\ [Next]_vars => Lasts
<1> SUFFICES ASSUME IInv, [Next]_vars PROVE Lasts
  OBVIOUS
<1>1. CASE UNCHANGED data
  <2>1. \A r \in RowIds, c \in ColumnIds :
           columns[c] = None => values[r][c] = None
    BY DEF IInv, CommittedOK, Fits, HasColumn
  <2> QED BY <1>1, <2>1 DEF Lasts, data
<1>2. ASSUME NEW r \in RowIds, InsertSteps(r) \/ InsertCancelled(r)
      PROVE  UNCHANGED data \/ InsertCommit(r)
  BY <1>2 DEF InsertSteps, InsertCancelled, InsertRow, InsertRead, InsertValue,
     InsertIndex, InsertCheck, DeadlockVictim
<1>3. ASSUME NEW o \in Orgs, NEW s \in Slugs, NEW p \in Payloads,
             NEW r \in RowIds, InsertStart(o, s, p, r)
      PROVE  UNCHANGED data
  BY <1>3 DEF InsertStart
<1>4. ASSUME NEW o \in Orgs, Request(o) PROVE Lasts
  BY <1>1, <1>2, <1>3, <1>4, CreateLasts, DeleteTableLasts, AddColumnLasts,
     RemoveColumnLasts, DeleteRowLasts, CommitLasts DEF Request
<1>5. CASE UNCHANGED vars
  BY <1>1, <1>5 DEF vars, data
<1> QED BY <1>4, <1>5 DEF Next

-----------------------------------------------------------------------------
(* The data changes under a read: what the read has stays right.           *)
LEMMA OrderDomain ==
  /\ DOMAIN ReadOrder = 1 .. Len(ReadOrder) /\ Len(ReadOrder) \in Nat
  /\ \A d \in ColumnDefs : \E j \in 1 .. Len(ReadOrder) : d.type = ReadOrder[j]
  /\ \A c \in ColumnIds : SeedColumns[c] # None =>
        \E j \in 1 .. Len(ReadOrder) : SeedColumns[c].type = ReadOrder[j]
BY ReadOrderAssumption

LEMMA ColumnsStep ==
  ASSUME IInv, [Next]_vars
  PROVE  \/ \A c \in ColumnIds : columns'[c] \in {columns[c], Gone}
         \/ \E c \in ColumnIds, d \in ColumnDefs :
               /\ columns'[c].type = d.type
               /\ \A x \in ColumnIds \ {c} :
                     /\ columns'[x] = columns[x]
                     /\ HasColumn(x) /\ columns[x].table = columns'[c].table =>
                           columns[x].name # columns'[c].name
<1> DEFINE Goal ==
      \/ \A c \in ColumnIds : columns'[c] \in {columns[c], Gone}
      \/ \E c \in ColumnIds, d \in ColumnDefs :
            /\ columns'[c].type = d.type
            /\ \A x \in ColumnIds \ {c} :
                  /\ columns'[x] = columns[x]
                  /\ HasColumn(x) /\ columns[x].table = columns'[c].table =>
                        columns[x].name # columns'[c].name
<1>1. UNCHANGED columns => Goal
  OBVIOUS
<1>2. ASSUME NEW o \in Orgs, NEW s \in Slugs, DeleteUserTable(o, s)
      PROVE  Goal
  <2>1. \A c \in ColumnIds : columns'[c] \in {columns[c], Gone}
    BY <1>2 DEF DeleteUserTable
  <2> QED BY <2>1
<1>3. ASSUME NEW o \in Orgs, NEW s \in Slugs, NEW d \in ColumnDefs,
             AddUserTableColumn(o, s, d)
      PROVE  Goal
  <2>1. PICK t \in OwnOrGlobal(o, s), c \in ColumnIds,
             ref \in IF d.ref = None \/ OwnOrGlobal(o, d.ref) = {}
                     THEN {None} ELSE OwnOrGlobal(o, d.ref) :
           /\ \A x \in ColumnsOf(t) : columns[x].name # d.name
           /\ columns' = [columns EXCEPT ![c] =
                [table |-> t, name |-> d.name, type |-> d.type,
                 required |-> d.required, indexed |-> d.indexed,
                 isRef |-> d.isRef, refTable |-> ref,
                 different |-> d.different]]
    BY <1>3 DEF AddUserTableColumn
  <2>2. /\ columns'[c].type = d.type /\ columns'[c].table = t
        /\ columns'[c].name = d.name
        /\ \A x \in ColumnIds \ {c} : columns'[x] = columns[x]
    BY <2>1 DEF IInv, TypeOK
  <2>3. \A x \in ColumnIds : HasColumn(x) /\ columns[x].table = t =>
                                columns[x].name # d.name
    BY <2>1 DEF ColumnsOf
  <2> QED BY <2>2, <2>3
<1>4. ASSUME NEW o \in Orgs, NEW s \in Slugs, NEW n \in Names,
             RemoveUserTableColumn(o, s, n)
      PROVE  Goal
  <2>1. PICK c \in ColumnIds : columns' = [columns EXCEPT ![c] = Gone]
    BY <1>4 DEF RemoveUserTableColumn, ColumnsOf
  <2>2. \A x \in ColumnIds : columns'[x] \in {columns[x], Gone}
    BY <2>1 DEF IInv, TypeOK
  <2> QED BY <2>2
<1>5. ASSUME Next PROVE Goal
  <2> HIDE DEF Goal
  <2>1. PICK o \in Orgs : Request(o)
    BY <1>5 DEF Next
  <2>2. ASSUME NEW s \in Slugs, CreateUserTable(o, s) PROVE Goal
    BY <1>1, <2>2 DEF CreateUserTable
  <2>3. ASSUME NEW s \in Slugs, NEW r \in RowIds,
               \/ DeleteUserTableRow(o, s, r)
               \/ \E p \in Payloads : InsertStart(o, s, p, r)
        PROVE  Goal
    BY <1>1, <2>3 DEF DeleteUserTableRow, InsertStart, data
  <2>4. ASSUME NEW r \in RowIds, InsertSteps(r) \/ InsertCancelled(r)
        PROVE  Goal
    BY <1>1, <2>4 DEF InsertSteps, InsertCancelled, InsertRow, InsertRead,
       InsertValue, InsertIndex, InsertCheck, InsertCommit, DeadlockVictim, data
  <2> QED BY <1>2, <1>3, <1>4, <2>1, <2>2, <2>3, <2>4 DEF Request
<1>6. Goal
  BY <1>1, <1>5 DEF vars
<1> QED BY <1>6

LEMMA OrderStep ==
  ASSUME IInv, OrderOK, NamesOK, [Next]_vars
  PROVE  OrderOK' /\ NamesOK'
<1>1. CASE \A c \in ColumnIds : columns'[c] \in {columns[c], Gone}
  BY <1>1 DEF OrderOK, NamesOK, HasColumn
<1>2. ASSUME NEW c \in ColumnIds, NEW d \in ColumnDefs,
             columns'[c].type = d.type,
             \A x \in ColumnIds \ {c} :
                /\ columns'[x] = columns[x]
                /\ HasColumn(x) /\ columns[x].table = columns'[c].table =>
                      columns[x].name # columns'[c].name
      PROVE  OrderOK' /\ NamesOK'
  <2>1. OrderOK'
    BY <1>2, OrderDomain DEF OrderOK, HasColumn
  <2>2. NamesOK'
    BY <1>2 DEF NamesOK, HasColumn
  <2> QED BY <2>1, <2>2
<1> QED BY <1>1, <1>2, ColumnsStep

LEMMA WritesKeepReads ==
  ASSUME ReadsInv, [Next]_vars, UNCHANGED look
  PROVE  ReadsInv'
<1> USE DEF ReadsInv
<1>1. IInv' /\ Lasts /\ OrderOK' /\ NamesOK' /\ ReadsTypeOK'
  BY StepInv, LastsStep, OrderStep DEF ReadsTypeOK
<1>2. ASSUME NEW s \in Reads PROVE SeenOK(s)'
  <2>1. ASSUME NEW r \in RowIds, Shown(look[s], r) PROVE Shown(look[s], r)'
    <3>1. /\ rows'[r] # None
          /\ HasRow(r)' => HasRow(r) /\ rows'[r] = rows[r]
                             /\ rows[r] \in TableIds /\ HasTable(rows[r])
                             /\ HasTable(rows[r])'
      <4>1. rows'[r] \in {rows[r], Gone} /\ rows[r] # None
        BY <1>1, <2>1 DEF Lasts, Shown
      <4>2. HasRow(r) => rows[r] \in TableIds /\ HasTable(rows[r])
        BY DEF IInv, RowsOK, TypeOK, HasRow
      <4>3. HasRow(r)' => HasTable(rows[r])'
        BY <1>1 DEF IInv, RowsOK
      <4> QED BY <4>1, <4>2, <4>3, Marks DEF HasRow, HasTable
    <3>2. HasRow(r)' => tables'[rows[r]] = tables[rows[r]]
      BY <1>1, <3>1 DEF Lasts, HasTable
    <3> QED BY <2>1, <3>1, <3>2 DEF Shown
  <2>2. SeenOK(s)
    OBVIOUS
  <2> QED BY <2>1, <2>2 DEF SeenOK, Shown
<1>3. ASSUME NEW s \in Reads PROVE RowOK(s)'
  <2>1. RowOK(s) /\ SeenOK(s)
    OBVIOUS
  <2>2. ASSUME NEW r \in RowIds, look[s].row = r, NEW c \in ColumnIds,
               HasRow(r)', HasColumn(c)', values'[r][c] # None,
               IsRead(look[s], c)'
        PROVE  look[s].content[r][columns'[c].name] = values'[r][c]
    <3>1. HasRow(r)
      BY <1>1, <2>1, <2>2 DEF Lasts, SeenOK, Shown, HasRow
    <3>2. HasColumn(c) /\ columns'[c] = columns[c]
      BY <1>1, <2>2, Marks DEF Lasts, HasColumn
    <3>3. values'[r][c] = values[r][c]
      BY <1>1, <2>2, <3>1, <3>2 DEF Lasts
    <3>4. IsRead(look[s], c)
      BY <2>2, <3>2 DEF IsRead
    <3> QED BY <2>1, <2>2, <3>1, <3>2, <3>3, <3>4 DEF RowOK
  <2> QED BY <2>1, <2>2 DEF RowOK
<1> QED BY <1>1, <1>2, <1>3

-----------------------------------------------------------------------------
(* A read goes on, over data that stands still.                            *)
LEMMA OneRead ==
  ASSUME ReadsInv, NEW s \in Reads, UNCHANGED vars, NEW l \in Read,
         look' = [look EXCEPT ![s] = l], SeenOK(s)', RowOK(s)'
  PROVE  ReadsInv'
<1>1. IInv'
  BY StepInv DEF ReadsInv
<1>2. ReadsTypeOK' /\ OrderOK' /\ NamesOK'
  BY DEF ReadsInv, ReadsTypeOK, OrderOK, NamesOK, HasColumn, vars
<1>3. ASSUME NEW q \in Reads, q # s PROVE SeenOK(q)' /\ RowOK(q)'
  <2>1. look'[q] = look[q] /\ SeenOK(q) /\ RowOK(q)
    BY <1>3 DEF ReadsInv, ReadsTypeOK
  <2> QED
    BY <2>1 DEF SeenOK, RowOK, Shown, IsRead, HasRow, HasColumn, vars
<1> QED BY <1>1, <1>2, <1>3 DEF ReadsInv

LEMMA NewReadFacts ==
  /\ NewRead \in Read /\ NewRead.row = None /\ NewRead.todo = {}
  /\ \A r \in RowIds : NewRead.content[r] = None /\ NewRead.labels[r] = None
BY OrderDomain DEF NewRead, NobodyAsked, Read, Reading

LEMMA NoContentFacts == NoContent \in Content
BY DEF NoContent, Content

LEMMA ReadFacts ==
  ASSUME ReadsInv, NEW s \in Reads
  PROVE  look[s] \in Read /\ SeenOK(s) /\ RowOK(s)
BY DEF ReadsInv, ReadsTypeOK

(* What happens to the rest of a read does not touch row_to_json.          *)
LEMMA RowStays ==
  ASSUME ReadsInv, NEW s \in Reads, UNCHANGED vars, look'[s].pc # "new",
         look'[s].row = look[s].row, look'[s].at = look[s].at,
         look'[s].content = look[s].content
  PROVE  RowOK(s)'
BY ReadFacts DEF RowOK, IsRead, HasRow, HasColumn, vars

LEMMA SearchSchemaInv ==
  ASSUME ReadsInv, NEW s \in Reads, SearchSchema(s)
  PROVE  ReadsInv'
<1>1. PICK o \in Orgs, slug \in Slugs :
         LET there == UNION {ColumnsOf(t) : t \in OwnOrGlobal(o, slug)}
             uuids == {c \in there : columns[c].type = "uuid"}
         IN Goes(s, [NewRead EXCEPT !.pc = "rows", !.org = o, !.slug = slug,
                        !.schema = {<<columns[c].name, columns[c].refTable>> :
                                       c \in uuids}])
  BY DEF SearchSchema
<1> DEFINE there == UNION {ColumnsOf(t) : t \in OwnOrGlobal(o, slug)}
           uuids == {c \in there : columns[c].type = "uuid"}
           schema == {<<columns[c].name, columns[c].refTable>> : c \in uuids}
           l == [NewRead EXCEPT !.pc = "rows", !.org = o, !.slug = slug,
                                !.schema = schema]
<1>2. look' = [look EXCEPT ![s] = l] /\ UNCHANGED vars
  BY <1>1 DEF Goes, SearchSchema, OnlyReads
<1>3. \A c \in uuids : columns[c].name \in Names
                        /\ columns[c].refTable \in TableIds \cup {None}
  BY DEF ColumnsOf, HasColumn, ReadsInv, IInv, TypeOK, Column
<1>4. schema \in SUBSET (Names \X (TableIds \cup {None}))
  BY <1>3
<1> HIDE DEF schema
<1>6. /\ l \in Read /\ l.pc = "rows" /\ l.row = None /\ l.todo = {}
      /\ \A r \in RowIds : l.content[r] = None /\ l.labels[r] = None
  BY <1>4, NewReadFacts DEF Read, Reading
<1> HIDE DEF l
<1>7. look'[s] = l
  BY <1>2 DEF ReadsInv, ReadsTypeOK
<1>8. SeenOK(s)' /\ RowOK(s)'
  BY <1>6, <1>7, Marks DEF SeenOK, RowOK
<1> QED BY <1>2, <1>6, <1>8, OneRead

LEMMA SearchRowsInv ==
  ASSUME ReadsInv, NEW s \in Reads, SearchRows(s)
  PROVE  ReadsInv'
<1>1. PICK filters \in SUBSET Names, alike \in SUBSET RowIds, lax \in SUBSET Names :
         Starts(s, UNION {Found(t, filters, alike, lax) :
                             t \in Own(look[s].org, look[s].slug)})
  BY DEF SearchRows
<1> DEFINE found == UNION {Found(t, filters, alike, lax) :
                              t \in Own(look[s].org, look[s].slug)}
           l == [look[s] EXCEPT !.pc = "values", !.todo = found]
<1>2. look' = [look EXCEPT ![s] = l] /\ UNCHANGED vars /\ look[s].pc = "rows"
  BY <1>1 DEF Goes, Starts, SearchRows, OnlyReads
<1>3. \A r \in found : /\ r \in RowIds /\ rows[r] \in TableIds
                       /\ tables[rows[r]].org = look[s].org
  BY DEF Found, RowsOf, Own
<1>4. \A r \in found : rows[r] # None
  BY <1>3, Marks
<1>5. found \subseteq RowIds
  BY <1>3
<1> HIDE DEF found
<1>6. /\ l \in Read /\ l.pc = "values" /\ l.row = look[s].row
      /\ l.todo = found /\ l.org = look[s].org /\ l.at = look[s].at
      /\ l.content = look[s].content /\ l.labels = look[s].labels
  BY <1>5, ReadFacts DEF Read, Reading
<1> HIDE DEF l
<1>7. look'[s] = l
  BY <1>2 DEF ReadsInv, ReadsTypeOK
<1>8. SeenOK(s)'
  BY <1>2, <1>3, <1>4, <1>6, <1>7, ReadFacts DEF SeenOK, Shown, HasRow, vars
<1>9. RowOK(s)'
  BY <1>2, <1>6, <1>7, RowStays
<1> QED BY <1>2, <1>6, <1>8, <1>9, OneRead

LEMMA NextRowInv ==
  ASSUME ReadsInv, NEW s \in Reads, NextRow(s)
  PROVE  ReadsInv'
<1>1. PICK r \in look[s].todo :
         Goes(s, [look[s] EXCEPT !.todo = @ \ {r}, !.row = r, !.at = 1,
                                 !.content[r] = NoContent])
  BY DEF NextRow
<1> DEFINE l == [look[s] EXCEPT !.todo = @ \ {r}, !.row = r, !.at = 1,
                                !.content[r] = NoContent]
<1>2. look' = [look EXCEPT ![s] = l] /\ UNCHANGED vars /\ look[s].pc = "values"
  BY <1>1 DEF Goes, NextRow, OnlyReads
<1>3. r \in RowIds
  BY ReadFacts DEF Read
<1>4. /\ l \in Read /\ l.pc = "values" /\ l.row = r /\ l.at = 1
      /\ l.todo = look[s].todo \ {r} /\ l.org = look[s].org
      /\ l.labels = look[s].labels /\ l.content[r] = NoContent
      /\ \A q \in RowIds \ {r} : l.content[q] = look[s].content[q]
  <2>1. look[s] \in Read /\ NoContent \in Content
    BY ReadFacts, NoContentFacts
  <2>2. 1 \in 1 .. Len(ReadOrder) + 1
    BY OrderDomain
  <2> HIDE DEF NoContent
  <2> QED BY <1>2, <1>3, <2>1, <2>2 DEF Read
<1> HIDE DEF l
<1>5. look'[s] = l
  BY <1>2 DEF ReadsInv, ReadsTypeOK
<1>6. SeenOK(s)'
  BY <1>2, <1>4, <1>5, ReadFacts DEF SeenOK, Shown, HasRow, vars
<1>7. \A c \in ColumnIds : ~IsRead(look[s], c)'
  BY <1>4, <1>5 DEF IsRead
<1>8. RowOK(s)'
  BY <1>4, <1>5, <1>7, NoContentFacts DEF RowOK
<1> QED BY <1>2, <1>4, <1>6, <1>8, OneRead

(* What ReadValues finds under a key.                                      *)
Merged(l, k) ==
    LET found == ValuesNamed(l.row, ReadOrder[l.at], k)
    IN IF found = {} THEN l.content[l.row][k] ELSE CHOOSE v \in found : TRUE

(* Under the name of a column it is the value of that column, or what was  *)
(* there.                                                                  *)
LEMMA NamedValue ==
  ASSUME ReadsInv, NEW r \in RowIds, NEW c \in ColumnIds, HasColumn(c),
         values[r][c] # None, NEW ty
  PROVE  ValuesNamed(r, ty, columns[c].name) =
            IF columns[c].type = ty THEN {values[r][c]} ELSE {}
<1>1. ASSUME NEW d \in ColumnIds, HasColumn(d), values[r][d] # None,
             columns[d].name = columns[c].name
      PROVE  d = c
  <2>1. columns[c].table = rows[r] /\ columns[d].table = rows[r]
    BY <1>1 DEF ReadsInv, IInv, CommittedOK, Fits
  <2> QED BY <1>1, <2>1 DEF ReadsInv, NamesOK
<1> QED BY <1>1 DEF ValuesNamed

LEMMA ReadValuesInv ==
  ASSUME ReadsInv, NEW s \in Reads, ReadValues(s)
  PROVE  ReadsInv'
<1> DEFINE r == look[s].row
           i == look[s].at
           x == [k \in Keys |-> Merged(look[s], k)]
           l == [look[s] EXCEPT !.at = i + 1, !.content[r] = x]
<1>1. r \in RowIds /\ i \in 1 .. Len(ReadOrder) /\ look[s].content[r] \in Content
      /\ look[s].pc = "values"
  <2>1. look[s].pc = "values" /\ r # None /\ i <= Len(ReadOrder)
    BY DEF ReadValues
  <2>2. r \in RowIds /\ i \in 1 .. Len(ReadOrder) + 1
    BY <2>1, ReadFacts DEF Read
  <2>3. look[s].content[r] \in Content
    BY <2>2, ReadFacts DEF RowOK
  <2> QED BY <2>1, <2>2, <2>3, OrderDomain
<1>2. x \in Content
  <2>1. ASSUME NEW k \in Keys PROVE Merged(look[s], k) \in Stored \cup {None}
    <3>1. look[s].content[r][k] \in Stored \cup {None}
      BY <1>1 DEF Content
    <3>2. ValuesNamed(r, ReadOrder[i], k) \subseteq Stored \cup {None}
      BY <1>1 DEF ValuesNamed, ReadsInv, IInv, TypeOK
    <3> QED BY <3>1, <3>2 DEF Merged
  <2> QED BY <2>1 DEF Content
<1>3. look' = [look EXCEPT ![s] = l] /\ UNCHANGED vars
  <2> DEFINE found == [k \in Keys |-> ValuesNamed(r, ReadOrder[i], k)]
             y == [k \in Keys |->
                     IF found[k] = {} THEN look[s].content[r][k]
                     ELSE CHOOSE v \in found[k] : TRUE]
  <2>1. y = x
    BY DEF Merged
  <2>2. look[s].content \in [RowIds -> Content \cup {None}] /\ look[s] \in Read
    BY ReadFacts DEF Read
  <2>3. [look[s] EXCEPT !.at = i + 1,
                        !.content[r] = [k \in Keys |->
                           IF found[k] = {} THEN @[k]
                           ELSE CHOOSE v \in found[k] : TRUE]] =
        [look[s] EXCEPT !.at = i + 1, !.content[r] = y]
    BY <1>1, <2>2 DEF Read
  <2> QED BY <2>1, <2>3 DEF ReadValues, Goes, OnlyReads
<1> HIDE DEF x, l
<1>5. l = [look[s] EXCEPT !.at = i + 1, !.content[r] = x]
  BY DEF l
<1>6. /\ l \in Read /\ l.pc = "values" /\ l.row = r /\ l.at = i + 1
      /\ l.todo = look[s].todo /\ l.org = look[s].org
      /\ l.labels = look[s].labels
      /\ l.content[r] = x
      /\ \A q \in RowIds \ {r} : l.content[q] = look[s].content[q]
  <2>1. look[s] \in Read
    BY ReadFacts
  <2>2. i + 1 \in 1 .. Len(ReadOrder) + 1
    BY <1>1, OrderDomain
  <2> QED BY <1>1, <1>2, <1>5, <2>1, <2>2 DEF Read
<1>7. look'[s] = l
  BY <1>3 DEF ReadsInv, ReadsTypeOK
<1>8. SeenOK(s)'
  BY <1>1, <1>3, <1>6, <1>7, ReadFacts DEF SeenOK, Shown, HasRow, vars
<1>9. ASSUME NEW c \in ColumnIds, HasRow(r), HasColumn(c), values[r][c] # None,
             IsRead(l, c)
      PROVE  x[columns[c].name] = values[r][c]
  <2>1. IsRead(look[s], c) =>
           look[s].content[r][columns[c].name] = values[r][c]
    BY <1>1, <1>9, ReadFacts DEF RowOK
  <2>2. IsRead(look[s], c) \/ columns[c].type = ReadOrder[i]
    BY <1>1, <1>6, <1>9 DEF IsRead
  <2>3. columns[c].name \in Keys
    BY <1>9 DEF HasColumn, ReadsInv, IInv, TypeOK, Column, Keys
  <2>4. ValuesNamed(r, ReadOrder[i], columns[c].name) =
           IF columns[c].type = ReadOrder[i] THEN {values[r][c]} ELSE {}
    BY <1>1, <1>9, NamedValue
  <2>5. Merged(look[s], columns[c].name) = values[r][c]
    BY <2>1, <2>2, <2>4 DEF Merged
  <2> QED BY <2>3, <2>5 DEF x
<1>10. RowOK(s)'
  <2>1. \A c \in ColumnIds : IsRead(look[s], c)' <=> IsRead(l, c)
    BY <1>3, <1>7 DEF IsRead, vars
  <2> HIDE DEF r, i
  <2> QED BY <1>2, <1>3, <1>6, <1>7, <1>9, <2>1 DEF RowOK, HasRow, HasColumn, vars
<1> QED BY <1>3, <1>5, <1>6, <1>8, <1>10, OneRead

(* What is left of a row at the end of row_to_json.                        *)
Left(l, r) ==
    IF HasRow(r) THEN WithMetadata(l.content[r], r) ELSE NoContent

LEMMA ReadIdLeaves ==
  ASSUME ReadsInv, NEW s \in Reads, ReadId(s), NEW r, r = look[s].row
  PROVE  /\ r \in RowIds /\ look[s].at > Len(ReadOrder) /\ look[s].pc = "values"
         /\ look[s].content[r] \in Content /\ Left(look[s], r) \in Content
         /\ look' = [look EXCEPT ![s] =
                        [look[s] EXCEPT !.row = None,
                                        !.content[r] = Left(look[s], r)]]
<1>1. r # None /\ look[s].at > Len(ReadOrder) /\ look[s].pc = "values"
  BY DEF ReadId
<1>2. r \in RowIds /\ look[s].content[r] \in Content
  BY <1>1, ReadFacts DEF Read, RowOK
<1>3. WithMetadata(look[s].content[r], r) \in Content
  BY <1>2 DEF Content, WithMetadata, Stored
<1>4. Left(look[s], r) \in Content
  BY <1>3, NoContentFacts DEF Left
<1>5. look' = [look EXCEPT ![s] =
                 [look[s] EXCEPT
                    !.row = None,
                    !.content[r] = IF HasRow(r)
                                   THEN WithMetadata(look[s].content[r], r)
                                   ELSE NoContent]]
  <2>1. look[s].content \in [RowIds -> Content \cup {None}] /\ look[s] \in Read
    BY ReadFacts DEF Read
  <2> QED BY <1>2, <2>1 DEF ReadId, Goes, Read
<1> QED BY <1>1, <1>2, <1>4, <1>5 DEF Left

LEMMA ReadIdInv ==
  ASSUME ReadsInv, NEW s \in Reads, ReadId(s)
  PROVE  ReadsInv'
<1>1. PICK r : r = look[s].row
  OBVIOUS
<1>2. PICK x : x = Left(look[s], r)
  OBVIOUS
<1> DEFINE l == [look[s] EXCEPT !.row = None, !.content[r] = x]
<1>3. /\ r \in RowIds /\ x \in Content /\ look[s].pc = "values"
      /\ look[s].content[r] \in Content
      /\ look' = [look EXCEPT ![s] = l] /\ UNCHANGED vars
  BY <1>1, <1>2, ReadIdLeaves DEF ReadId, OnlyReads
<1>4. /\ l \in Read /\ l.pc = "values" /\ l.row = None
      /\ l.todo = look[s].todo /\ l.org = look[s].org
      /\ l.labels = look[s].labels
      /\ \A q \in RowIds \ {r} : l.content[q] = look[s].content[q]
  BY <1>3, ReadFacts DEF Read
<1> HIDE DEF l
<1>5. look'[s] = l
  BY <1>3 DEF ReadsInv, ReadsTypeOK
<1>6. SeenOK(s)'
  BY <1>1, <1>3, <1>4, <1>5, Marks, ReadFacts DEF SeenOK, Shown, HasRow, vars
<1>7. RowOK(s)'
  BY <1>4, <1>5, Marks DEF RowOK
<1> QED BY <1>3, <1>4, <1>6, <1>7, OneRead

LEMMA SearchBatchesInv ==
  ASSUME ReadsInv, NEW s \in Reads, SearchBatches(s)
  PROVE  ReadsInv'
<1>1. PICK parsed \in [TableIds \cup {None} -> SUBSET RowIds] :
         Goes(s, [look[s] EXCEPT
                    !.pc = "labels",
                    !.asked = [b \in TableIds \cup {None} |->
                                  Referred(look[s], b) \cup parsed[b]]])
  BY DEF SearchBatches
<1> DEFINE asked == [b \in TableIds \cup {None} |->
                        Referred(look[s], b) \cup parsed[b]]
           l == [look[s] EXCEPT !.pc = "labels", !.asked = asked]
<1>2. look[s].pc = "values" /\ look[s].row = None
  BY DEF SearchBatches
<1>3. asked \in [TableIds \cup {None} -> SUBSET RowIds]
  BY DEF Referred
<1>4. look' = [look EXCEPT ![s] = l] /\ UNCHANGED vars
  BY <1>1 DEF Goes, SearchBatches, OnlyReads
<1> HIDE DEF asked
<1>5. /\ l \in Read /\ l.pc = "labels" /\ l.row = look[s].row
      /\ l.todo = look[s].todo /\ l.org = look[s].org
      /\ l.labels = look[s].labels /\ l.content = look[s].content
  BY <1>3, ReadFacts DEF Read, Reading
<1> HIDE DEF l
<1>6. look'[s] = l
  BY <1>4 DEF ReadsInv, ReadsTypeOK
<1>7. SeenOK(s)'
  BY <1>2, <1>5, <1>6, <1>4, ReadFacts DEF SeenOK, Shown, HasRow, vars
<1>8. RowOK(s)'
  BY <1>2, <1>5, <1>6, Marks DEF RowOK
<1> QED BY <1>5, <1>7, <1>8, <1>4, OneRead

(* The labels of a batch are of rows the organisation's tables hold.       *)
LEMMA LabelsRead ==
  ASSUME ReadsInv, NEW s \in Reads, SearchLabels(s)
  PROVE  \E asked \in [TableIds \cup {None} -> SUBSET RowIds],
            labels \in [RowIds -> {"label", "null", "", None}] :
           /\ look' = [look EXCEPT ![s] = [look[s] EXCEPT !.asked = asked,
                                                          !.labels = labels]]
           /\ \A q \in RowIds : labels[q] # None =>
                 \/ look[s].labels[q] # None
                 \/ HasRow(q) /\ tables[rows[q]].org = look[s].org
<1> DEFINE Has(b) == {q \in look[s].asked[b] :
                        /\ HasRow(q) /\ Owned(look[s].org, rows[q])
                        /\ b # None => rows[q] = b}
<1>1. PICK b \in TableIds \cup {None} :
         \/ Goes(s, [look[s] EXCEPT !.asked[b] = {}])
         \/ \E text \in [Has(b) -> UNION {LabelOf(q) : q \in Has(b)}] :
               /\ \A q \in Has(b) : text[q] \in LabelOf(q)
               /\ Goes(s, [look[s] EXCEPT
                     !.asked[b] = {},
                     !.labels = [q \in RowIds |->
                        IF q \in Has(b) THEN text[q] ELSE @[q]]])
  BY DEF SearchLabels
<1> DEFINE has == Has(b)
           asked == [look[s].asked EXCEPT ![b] = {}]
<1>2. look[s] \in Read /\ look[s].labels \in [RowIds -> {"label", "null", "", None}]
  BY ReadFacts DEF Read
<1>3. asked \in [TableIds \cup {None} -> SUBSET RowIds]
  BY <1>2 DEF Read
<1>4. CASE Goes(s, [look[s] EXCEPT !.asked[b] = {}])
  <2>1. [look[s] EXCEPT !.asked[b] = {}] =
           [look[s] EXCEPT !.asked = asked, !.labels = look[s].labels]
    BY <1>2 DEF Read
  <2>2. look' = [look EXCEPT ![s] = [look[s] EXCEPT !.asked = asked,
                                                    !.labels = look[s].labels]]
    BY <1>4, <2>1 DEF Goes
  <2> HIDE DEF asked
  <2> QED BY <1>2, <1>3, <2>2
<1>5. ASSUME NEW text \in [has -> UNION {LabelOf(q) : q \in has}],
             \A q \in has : text[q] \in LabelOf(q),
             Goes(s, [look[s] EXCEPT
                        !.asked[b] = {},
                        !.labels = [q \in RowIds |->
                           IF q \in has THEN text[q] ELSE @[q]]])
      PROVE  \E labels \in [RowIds -> {"label", "null", "", None}] :
                /\ look' = [look EXCEPT ![s] = [look[s] EXCEPT
                                !.asked = asked, !.labels = labels]]
                /\ \A q \in RowIds : labels[q] # None =>
                      \/ look[s].labels[q] # None
                      \/ HasRow(q) /\ tables[rows[q]].org = look[s].org
  <2> DEFINE labels == [q \in RowIds |->
                          IF q \in has THEN text[q] ELSE look[s].labels[q]]
  <2>1. \A q \in has : LabelOf(q) \subseteq {"label", "null"}
    BY DEF LabelOf, LabelText
  <2>2. labels \in [RowIds -> {"label", "null", "", None}]
    <3> HIDE DEF has
    <3> QED BY <1>2, <1>5, <2>1
  <2>3. \A q \in RowIds : labels[q] # None =>
           \/ look[s].labels[q] # None
           \/ HasRow(q) /\ tables[rows[q]].org = look[s].org
    BY DEF Owned
  <2>4. look' = [look EXCEPT ![s] = [look[s] EXCEPT !.asked = asked,
                                                    !.labels = labels]]
    <3>1. [look[s] EXCEPT !.asked[b] = {},
                          !.labels = [q \in RowIds |->
                             IF q \in has THEN text[q] ELSE @[q]]] =
          [look[s] EXCEPT !.asked = asked, !.labels = labels]
      <4> HIDE DEF has
      <4> QED BY <1>2 DEF Read
    <3> QED BY <1>5, <3>1 DEF Goes
  <2> HIDE DEF labels
  <2> QED BY <2>2, <2>3, <2>4
<1> HIDE DEF asked
<1> QED BY <1>1, <1>3, <1>4, <1>5

LEMMA SearchLabelsInv ==
  ASSUME ReadsInv, NEW s \in Reads, SearchLabels(s)
  PROVE  ReadsInv'
<1>2. PICK asked \in [TableIds \cup {None} -> SUBSET RowIds],
           labels \in [RowIds -> {"label", "null", "", None}] :
         /\ look' = [look EXCEPT ![s] = [look[s] EXCEPT !.asked = asked,
                                                        !.labels = labels]]
         /\ \A q \in RowIds : labels[q] # None =>
               \/ look[s].labels[q] # None
               \/ HasRow(q) /\ tables[rows[q]].org = look[s].org
  BY LabelsRead
<1> DEFINE l == [look[s] EXCEPT !.asked = asked, !.labels = labels]
<1>3. UNCHANGED vars /\ look[s].pc = "labels"
  BY DEF SearchLabels, OnlyReads
<1>4. /\ l \in Read /\ l.pc = "labels" /\ l.row = look[s].row
      /\ l.todo = look[s].todo /\ l.org = look[s].org /\ l.at = look[s].at
      /\ l.labels = labels /\ l.content = look[s].content
  BY <1>3, ReadFacts DEF Read
<1> HIDE DEF l
<1>5. look'[s] = l
  BY <1>2 DEF l, ReadsInv, ReadsTypeOK
<1>6. SeenOK(s)'
  <2>1. SeenOK(s)
    BY ReadFacts
  <2>2. \A q \in RowIds : labels[q] # None =>
           \/ look[s].labels[q] # None
           \/ HasRow(q) /\ tables[rows[q]].org = look[s].org
    BY <1>2
  <2>3. ASSUME NEW q \in RowIds,
               \/ look[s].content[q] # None \/ look[s].labels[q] # None
               \/ q \in look[s].todo \/ look[s].row = q \/ labels[q] # None
        PROVE  rows[q] # None /\ (HasRow(q) => tables[rows[q]].org = look[s].org)
    BY <1>3, <2>1, <2>2, <2>3 DEF SeenOK, Shown, HasRow
  <2> QED BY <1>3, <1>4, <1>5, <2>3 DEF SeenOK, Shown, HasRow, vars
<1>7. RowOK(s)'
  BY <1>3, <1>4, <1>5, RowStays
<1>8. look' = [look EXCEPT ![s] = l]
  BY <1>2 DEF l
<1> QED BY <1>3, <1>4, <1>6, <1>7, <1>8, OneRead

LEMMA SearchAnswerInv ==
  ASSUME ReadsInv, NEW s \in Reads, SearchAnswer(s)
  PROVE  ReadsInv'
<1> DEFINE l == [look[s] EXCEPT !.pc = "ok"]
<1>1. look' = [look EXCEPT ![s] = l] /\ UNCHANGED vars /\ look[s].pc = "labels"
  BY DEF SearchAnswer, Goes, OnlyReads
<1>2. /\ l \in Read /\ l.pc = "ok" /\ l.row = look[s].row
      /\ l.todo = look[s].todo /\ l.org = look[s].org /\ l.at = look[s].at
      /\ l.labels = look[s].labels /\ l.content = look[s].content
  BY ReadFacts DEF Read
<1> HIDE DEF l
<1>3. look'[s] = l
  BY <1>1 DEF ReadsInv, ReadsTypeOK
<1>4. SeenOK(s)'
  BY <1>1, <1>2, <1>3, ReadFacts DEF SeenOK, Shown, HasRow, vars
<1>5. RowOK(s)'
  BY <1>1, <1>2, <1>3, RowStays
<1> QED BY <1>1, <1>2, <1>4, <1>5, OneRead

LEMMA LookupRowInv ==
  ASSUME ReadsInv, NEW s \in Reads, LookupRow(s)
  PROVE  ReadsInv'
<1>1. PICK o \in Orgs, r \in RowIds :
         Goes(s, IF HasRow(r) /\ Owned(o, rows[r])
                 THEN [NewRead EXCEPT !.pc = "values", !.org = o, !.todo = {r}]
                 ELSE [NewRead EXCEPT !.pc = "missing"])
  BY DEF LookupRow
<1> DEFINE l == IF HasRow(r) /\ Owned(o, rows[r])
                THEN [NewRead EXCEPT !.pc = "values", !.org = o, !.todo = {r}]
                ELSE [NewRead EXCEPT !.pc = "missing"]
<1>2. look' = [look EXCEPT ![s] = l] /\ UNCHANGED vars
  BY <1>1 DEF Goes, LookupRow, OnlyReads
<1>3. /\ l \in Read /\ l.pc # "new" /\ l.row = None
      /\ \A q \in RowIds : l.content[q] = None /\ l.labels[q] = None
      /\ \A q \in l.todo : HasRow(q) /\ tables[rows[q]].org = l.org
  <2>1. CASE HasRow(r) /\ Owned(o, rows[r])
    <3>1. l = [NewRead EXCEPT !.pc = "values", !.org = o, !.todo = {r}]
      BY <2>1
    <3> HIDE DEF l
    <3> QED BY <2>1, <3>1, NewReadFacts DEF Read, Reading, Owned
  <2>2. CASE ~(HasRow(r) /\ Owned(o, rows[r]))
    <3>1. l = [NewRead EXCEPT !.pc = "missing"]
      BY <2>2
    <3> HIDE DEF l
    <3> QED BY <3>1, NewReadFacts DEF Read
  <2> QED BY <2>1, <2>2
<1> HIDE DEF l
<1>4. look'[s] = l
  BY <1>2 DEF ReadsInv, ReadsTypeOK
<1>5. SeenOK(s)' /\ RowOK(s)'
  BY <1>2, <1>3, <1>4, Marks DEF SeenOK, RowOK, Shown, HasRow, vars
<1> QED BY <1>2, <1>3, <1>5, OneRead

LEMMA LookupIndexedInv ==
  ASSUME ReadsInv, NEW s \in Reads, LookupIndexed(s)
  PROVE  ReadsInv'
<1>1. PICK o \in Orgs, slug \in Slugs, field \in Names \cup {None},
           like \in BOOLEAN :
         LET best == UNION {BestLabels(t, field) : t \in OwnOrGlobal(o, slug)}
         IN \E col \in best \cup {None} :
               /\ col = None => best = {}
               /\ Goes(s, [NewRead EXCEPT !.pc = "listed", !.org = o,
                     !.labels = [q \in RowIds |->
                        IF \/ col = None \/ values[q][col] = None
                           \/ like /\ values[q][col] # "scalar"
                        THEN None ELSE IndexedText(values[q][col])]])
  BY DEF LookupIndexed
<1> DEFINE best == UNION {BestLabels(t, field) : t \in OwnOrGlobal(o, slug)}
<1>2. PICK col \in best \cup {None} :
         Goes(s, [NewRead EXCEPT !.pc = "listed", !.org = o,
                    !.labels = [q \in RowIds |->
                       IF \/ col = None \/ values[q][col] = None
                          \/ like /\ values[q][col] # "scalar"
                       THEN None ELSE IndexedText(values[q][col])]])
  BY <1>1
<1> DEFINE labels == [q \in RowIds |->
                        IF \/ col = None \/ values[q][col] = None
                           \/ like /\ values[q][col] # "scalar"
                        THEN None ELSE IndexedText(values[q][col])]
           l == [NewRead EXCEPT !.pc = "listed", !.org = o, !.labels = labels]
<1>3. look' = [look EXCEPT ![s] = l] /\ UNCHANGED vars
  BY <1>2 DEF Goes, LookupIndexed, OnlyReads
<1>4. labels \in [RowIds -> {"label", "null", "", None}]
  BY DEF IndexedText
<1>5. ASSUME NEW q \in RowIds, labels[q] # None
      PROVE  HasRow(q) /\ tables[rows[q]].org \in {o, Global}
  <2>1. col # None /\ values[q][col] # None
    BY <1>5
  <2>2. PICK t \in OwnOrGlobal(o, slug) : col \in ColumnsOf(t)
    BY <2>1 DEF BestLabels, LabelColumns
  <2>3. tables[t].org \in {o, Global}
    BY DEF OwnOrGlobal, Own
  <2>4. HasRow(q) /\ rows[q] = t
    BY <2>1, <2>2 DEF ColumnsOf, ReadsInv, IInv, CommittedOK, Fits
  <2> QED BY <2>3, <2>4
<1> HIDE DEF labels
<1>6. /\ l \in Read /\ l.pc = "listed" /\ l.org = o /\ l.row = None
      /\ l.todo = {} /\ l.labels = labels
      /\ \A q \in RowIds : l.content[q] = None
  BY <1>4, NewReadFacts DEF Read, Reading
<1> HIDE DEF l
<1>7. look'[s] = l
  BY <1>3 DEF ReadsInv, ReadsTypeOK
<1>8. SeenOK(s)'
  BY <1>3, <1>5, <1>6, <1>7, Marks DEF SeenOK, Shown, HasRow, vars
<1>9. RowOK(s)'
  BY <1>6, <1>7, Marks DEF RowOK
<1> QED BY <1>3, <1>6, <1>8, <1>9, OneRead

-----------------------------------------------------------------------------
LEMMA ReadsInitInv == ReadsInit => ReadsInv
<1> SUFFICES ASSUME ReadsInit PROVE ReadsInv
  OBVIOUS
<1>1. IInv
  BY InitInv DEF ReadsInit
<1>2. ReadsTypeOK /\ \A s \in Reads : look[s] = NewRead
  BY NewReadFacts DEF ReadsInit, ReadsTypeOK
<1>3. OrderOK
  BY OrderDomain DEF ReadsInit, Init, OrderOK, HasColumn
<1>4. NamesOK
  BY SeedAssumption DEF ReadsInit, Init, NamesOK, HasColumn
<1>5. \A s \in Reads : SeenOK(s) /\ RowOK(s)
  BY <1>2, NewReadFacts, Marks DEF SeenOK, RowOK
<1> QED BY <1>1, <1>2, <1>3, <1>4, <1>5 DEF ReadsInv

LEMMA ReadsStepInv == ReadsInv /\ [ReadsNext]_readVars => ReadsInv'
<1> SUFFICES ASSUME ReadsInv, [ReadsNext]_readVars PROVE ReadsInv'
  OBVIOUS
<1>1. CASE Next /\ UNCHANGED look
  BY <1>1, WritesKeepReads
<1>2. CASE UNCHANGED readVars
  BY <1>2, WritesKeepReads DEF readVars
<1>3. ASSUME NEW s \in Reads, ReadStep(s) PROVE ReadsInv'
  BY <1>3, SearchSchemaInv, SearchRowsInv, NextRowInv, ReadValuesInv, ReadIdInv,
     SearchBatchesInv, SearchLabelsInv, SearchAnswerInv, LookupRowInv,
     LookupIndexedInv DEF ReadStep
<1> QED BY <1>1, <1>2, <1>3 DEF ReadsNext

(* What a reader remembers fits the tables, however often they change      *)
(* between its statements.                                                 *)
THEOREM ReadsInvHolds == ReadsSpec => []ReadsInv
BY ReadsInitInv, ReadsStepInv, PTL DEF ReadsSpec

(* What readers do leaves the tables alone: what is proved of UserTables   *)
(* holds while others read.                                                *)
THEOREM ReadersOnlyRead == ReadsSpec => Spec
<1>1. ReadsInit => Init
  BY DEF ReadsInit
<1>2. [ReadsNext]_readVars => [Next]_vars
  BY DEF ReadsNext, readVars, ReadStep, SearchSchema, SearchRows, NextRow,
     ReadValues, ReadId, SearchBatches, SearchLabels, SearchAnswer, LookupRow,
     LookupIndexed, OnlyReads
<1> QED BY <1>1, <1>2, PTL DEF ReadsSpec, Spec

(* What a handler under /tables has read keeps its type.                   *)
THEOREM ReadsTypeCorrect == ReadsSpec => []ReadsTypeOK
<1>1. ReadsInv => ReadsTypeOK
  BY DEF ReadsInv
<1> QED BY <1>1, ReadsInvHolds, PTL

(* Whatever is created and deleted between the statements of a search, it  *)
(* shows rows, and labels of rows, of the organisation that asked; only    *)
(* the look-up by an index shows rows of no organisation.                  *)
THEOREM ReadsShowTheirOwn == ReadsSpec => []ReadsStayHome
<1>1. ReadsInv => ReadsStayHome
  <2> SUFFICES ASSUME ReadsInv, NEW s \in Reads, NEW r \in RowIds,
                      look[s].content[r] # None \/ look[s].labels[r] # None,
                      HasRow(r)
               PROVE  \/ Owned(look[s].org, rows[r])
                      \/ look[s].pc = "listed" /\ Owned(Global, rows[r])
    BY DEF ReadsStayHome
  <2>1. HasTable(rows[r])
    BY DEF ReadsInv, IInv, RowsOK
  <2>2. Shown(look[s], r)
    BY ReadFacts DEF SeenOK
  <2> QED BY <2>1, <2>2 DEF Shown, Owned
<1> QED BY <1>1, ReadsInvHolds, PTL

(* A row that is there when row_to_json has run is read with its id and    *)
(* with the value of every column there is by then, under the column's     *)
(* name, unless that is the name of the id or of the time of creation; a   *)
(* row that is gone leaves nothing.  So it is although one value table is  *)
(* read after the other while columns and rows come and go.                *)
THEOREM RowsAreReadWhole == ReadsSpec => WholeOrEmpty
<1> DEFINE Ends(s, r) == IF HasRow(r) THEN Whole(look'[s].content[r], r)
                                      ELSE look'[s].content[r] = NoContent
           Readings == \A s \in Reads, r \in RowIds :
                          look[s].row = r /\ look'[s].row # r => Ends(s, r)
<1>1. ReadsInv /\ [ReadsNext]_readVars => Readings
  <2> SUFFICES ASSUME ReadsInv, [ReadsNext]_readVars, NEW s \in Reads,
                      NEW r \in RowIds, look[s].row = r, look'[s].row # r
               PROVE  Ends(s, r)
    OBVIOUS
  <2>1. ReadId(s)
    <3>1. PICK q \in Reads : ReadStep(q)
      BY DEF ReadsNext, readVars
    <3>2. q = s
      BY <3>1 DEF ReadStep, SearchSchema, SearchRows, Starts, NextRow, ReadValues,
         ReadId, SearchBatches, SearchLabels, SearchAnswer, LookupRow,
         LookupIndexed, Goes, ReadsInv, ReadsTypeOK
    <3>3. look[s].pc # "new" /\ r # None /\ look[s] \in Read /\ look \in [Reads -> Read]
      BY ReadFacts, Marks DEF RowOK, ReadsInv, ReadsTypeOK
    <3>4. ~SearchRows(s)
      <4> SUFFICES ASSUME SearchRows(s) PROVE FALSE
        OBVIOUS
      <4>1. PICK found : look' = [look EXCEPT ![s] =
                                    [look[s] EXCEPT !.pc = "values", !.todo = found]]
        BY DEF SearchRows, Starts, Goes
      <4> QED BY <3>3, <4>1 DEF Read
    <3>5. ~SearchAnswer(s)
      <4> SUFFICES ASSUME SearchAnswer(s) PROVE FALSE
        OBVIOUS
      <4>1. look'[s] = [look[s] EXCEPT !.pc = "ok"]
        BY <3>3 DEF SearchAnswer, Goes
      <4> QED BY <3>3, <4>1 DEF Read
    <3>6. ~SearchLabels(s)
      <4> SUFFICES ASSUME SearchLabels(s) PROVE FALSE
        OBVIOUS
      <4>1. PICK asked \in [TableIds \cup {None} -> SUBSET RowIds],
                 labels \in [RowIds -> {"label", "null", "", None}] :
               look' = [look EXCEPT ![s] = [look[s] EXCEPT !.asked = asked,
                                                           !.labels = labels]]
        BY LabelsRead
      <4> QED BY <3>3, <4>1 DEF Read
    <3>7. ~ReadValues(s)
      <4> SUFFICES ASSUME ReadValues(s) PROVE FALSE
        OBVIOUS
      <4>1. PICK x : look' = [look EXCEPT ![s] =
                                [look[s] EXCEPT !.at = look[s].at + 1,
                                                !.content[r] = x]]
        BY DEF ReadValues, Goes
      <4> QED BY <3>3, <4>1 DEF Read
    <3> QED
      BY <3>1, <3>2, <3>3, <3>4, <3>5, <3>6, <3>7
      DEF ReadStep, SearchSchema, NextRow, SearchBatches, LookupRow, LookupIndexed
  <2>2. /\ look'[s].content[r] = Left(look[s], r)
        /\ look[s].at > Len(ReadOrder) /\ look[s].content[r] \in Content
    <3>1. /\ look[s].at > Len(ReadOrder) /\ look[s].content[r] \in Content
          /\ look' = [look EXCEPT ![s] =
                         [look[s] EXCEPT !.row = None,
                                         !.content[r] = Left(look[s], r)]]
      BY <2>1, ReadIdLeaves
    <3>2. look[s] \in Read /\ look \in [Reads -> Read]
      BY ReadFacts DEF ReadsInv, ReadsTypeOK
    <3> QED BY <3>1, <3>2 DEF Read
  <2>3. CASE HasRow(r)
    <3>1. look'[s].content[r] = WithMetadata(look[s].content[r], r)
      BY <2>2, <2>3 DEF Left
    <3>2. look'[s].content[r][IdName] = r
      BY <2>2, <3>1, KeysAssumption DEF WithMetadata, Content, Keys
    <3>3. ASSUME NEW c \in ColumnIds, HasColumn(c), values[r][c] # None,
                 columns[c].name \notin {IdName, CreatedName}
          PROVE  look'[s].content[r][columns[c].name] = values[r][c]
      <4>1. IsRead(look[s], c)
        <5>1. look[s].at \in 1 .. Len(ReadOrder) + 1
          BY ReadFacts DEF Read
        <5> QED BY <2>2, <3>3, <5>1, OrderDomain DEF ReadsInv, OrderOK, IsRead
      <4>2. look[s].content[r][columns[c].name] = values[r][c]
        BY <2>3, <3>3, <4>1, ReadFacts DEF RowOK
      <4>3. columns[c].name \in Keys
        BY <3>3 DEF HasColumn, ReadsInv, IInv, TypeOK, Column, Keys
      <4> QED BY <2>2, <3>1, <3>3, <4>2, <4>3 DEF WithMetadata, Content
    <3> QED BY <2>3, <3>2, <3>3 DEF Whole
  <2>4. CASE ~HasRow(r)
    BY <2>2, <2>4 DEF Left
  <2> QED BY <2>3, <2>4
<1> QED BY <1>1, ReadsInvHolds, PTL DEF ReadsSpec, WholeOrEmpty
=============================================================================
