-------------------------- MODULE UserTablesProofs --------------------------
(***************************************************************************)
(* Theorems about UserTables, for any organisations, ids, names, column    *)
(* definitions and payloads.  An insertion reads a column, a referenced    *)
(* row or its own table once and relies on it until it commits: the        *)
(* invariant says which locks make that right, and that an id is used      *)
(* once, so that what was read stays as it was or is gone.                 *)
(***************************************************************************)
EXTENDS UserTables, TLAPS

(* A value that belongs into column c of a row of table t.                 *)
Fits(t, c, v) ==
    /\ HasColumn(c) /\ columns[c].table = t
    /\ v = "scalar" => columns[c].type # "uuid"
    /\ v = "null" => ~columns[c].required
    /\ v \in RowIds => /\ columns[c].type = "uuid" /\ HasRow(v)
                       /\ ReferenceAllowed(c, t, v)

RowsOK == \A r \in RowIds : HasRow(r) => HasTable(rows[r])

CommittedOK ==
    \A r \in RowIds, c \in ColumnIds :
        values[r][c] # None => HasRow(r) /\ Fits(rows[r], c, values[r][c])

(* What an insertion knows of its table, ...                               *)
TableOK(r) ==
    /\ ins[r].pc \in Busy =>
          /\ ins[r].org \in Orgs /\ ins[r].table \in TableIds
          /\ tables[ins[r].table] # None
          /\ HasTable(ins[r].table) =>
                tables[ins[r].table].org \in {ins[r].org, Global}
    /\ Open(r) => HasTable(ins[r].table)

(* ... of the column it is at, ...                                         *)
ColumnOK(r) ==
    ins[r].pc \in {"write", "index"} =>
        /\ ins[r].col \in ColumnIds /\ columns[ins[r].col] # None
        /\ HasColumn(ins[r].col) =>
              /\ columns[ins[r].col].table = ins[r].table
              /\ ins[r].pc = "write" /\ columns[ins[r].col].required =>
                    Input(r) # "null"

(* ... of the values it has written, ...                                   *)
WrittenOK(r) ==
    /\ ~Open(r) => ins[r].vals = NoValues
    /\ \A c \in ColumnIds :
          ins[r].vals[c] # None => Fits(ins[r].table, c, ins[r].vals[c])

(* ... and of the columns it has to fill.                                  *)
DueOK(r) ==
    \A c \in ins[r].due :
        /\ columns[c] # None
        /\ HasColumn(c) =>
              /\ columns[c].required
              /\ ins[r].pc \in Busy => columns[c].table = ins[r].table
              /\ ins[r].pc = "commit" => ins[r].vals[c] # None
              /\ HasRow(r) => values[r][c] # None

InsertOK(r) == /\ ins[r].pc # "committed" => rows[r] = None
               /\ TableOK(r) /\ ColumnOK(r) /\ WrittenOK(r) /\ DueOK(r)

IInv == TypeOK /\ RowsOK /\ CommittedOK /\ \A r \in RowIds : InsertOK(r)

-----------------------------------------------------------------------------
(* The input of the next name, of the state of an insertion.               *)
InputOf(i) == i.payload[CHOOSE n \in i.todo : \A m \in i.todo : n <= m]

LEMMA InputFromInsertion ==
  ASSUME NEW r
  PROVE  Input(r) = InputOf(ins[r]) /\ Input(r)' = InputOf(ins'[r])
BY DEF Input, InputOf, Key

LEMMA Marks ==
  /\ \A t \in TableIds : t # None /\ t # Gone
  /\ \A c \in ColumnIds : c # None /\ c # Gone
  /\ \A r \in RowIds : r \notin {None, Gone, "null", "scalar"}
  /\ None # "null" /\ None # "scalar" /\ None # Gone
  /\ \A x \in Table \cup Column : x # None /\ x # Gone
  /\ \A o \in Orgs : o # Global
BY MarksAssumption

LEMMA NewIsInsertion == New \in Insertion
BY DEF New, NoValues, Insertion

LEMMA InitInv == Init => IInv
<1> SUFFICES ASSUME Init PROVE IInv
  OBVIOUS
<1> USE DEF Init
<1>1. TypeOK
  BY SeedAssumption, NewIsInsertion DEF TypeOK, NoValues, Stored
<1>2. RowsOK /\ CommittedOK
  BY DEF RowsOK, CommittedOK, HasRow, NoValues
<1>3. ASSUME NEW r \in RowIds PROVE InsertOK(r)
  BY DEF InsertOK, TableOK, ColumnOK, WrittenOK, DueOK, New, NoValues, Busy,
     Open
<1> QED BY <1>1, <1>2, <1>3 DEF IInv

-----------------------------------------------------------------------------
(* Steps of an insertion that leave the data alone.  Only the insertion    *)
(* that moves has to be looked at.                                         *)
LEMMA OneInsertion ==
  ASSUME IInv, UNCHANGED data, NEW r \in RowIds, NEW i \in Insertion,
         ins' = [ins EXCEPT ![r] = i], InsertOK(r)'
  PROVE  IInv'
<1>1. TypeOK'
  BY DEF IInv, TypeOK, data
<1>2. RowsOK' /\ CommittedOK'
  BY DEF IInv, RowsOK, CommittedOK, Fits, ReferenceAllowed, HasRow, HasTable,
     HasColumn, data
<1>3. ASSUME NEW q \in RowIds, q # r PROVE InsertOK(q)'
  <2>1. ins'[q] = ins[q]
    BY <1>3 DEF IInv, TypeOK
  <2>2. Input(q)' = Input(q)
    BY <2>1, InputFromInsertion
  <2>3. InsertOK(q)
    BY DEF IInv
  <2>4. TableOK(q)'
    BY <2>1, <2>3 DEF InsertOK, TableOK, Open, HasTable, data
  <2>5. ColumnOK(q)'
    BY <2>1, <2>2, <2>3 DEF InsertOK, ColumnOK, HasColumn, data
  <2>6. WrittenOK(q)'
    BY <2>1, <2>3 DEF InsertOK, WrittenOK, Open, Fits, ReferenceAllowed,
       HasColumn, HasRow, data
  <2>7. DueOK(q)'
    BY <2>1, <2>3 DEF InsertOK, DueOK, HasColumn, HasRow, data
  <2> QED BY <2>1, <2>3, <2>4, <2>5, <2>6, <2>7 DEF InsertOK, data
<1> QED BY <1>1, <1>2, <1>3 DEF IInv

LEMMA FailsInv ==
  ASSUME IInv, UNCHANGED data, NEW r \in RowIds, ins[r].pc \in Busy, Fails(r)
  PROVE  IInv'
<1> DEFINE i == [New EXCEPT !.pc = "failed"]
<1>1. /\ i \in Insertion /\ i.pc = "failed" /\ i.vals = NoValues /\ i.due = {}
  BY DEF New, NoValues, Insertion
<1>2. ins' = [ins EXCEPT ![r] = i]
  BY DEF Fails, Step
<1> HIDE DEF i
<1>3. ins'[r] = i
  BY <1>2 DEF IInv, TypeOK
<1>4. rows'[r] = None
  BY DEF IInv, InsertOK, Busy, data
<1>5. InsertOK(r)'
  BY <1>1, <1>3, <1>4 DEF InsertOK, TableOK, ColumnOK, WrittenOK, DueOK, Open,
     Busy, NoValues
<1> QED BY <1>1, <1>2, <1>5, OneInsertion

LEMMA InsertStartInv ==
  ASSUME IInv, NEW o \in Orgs, NEW s \in Slugs, NEW p \in Payloads,
         NEW r \in RowIds, InsertStart(o, s, p, r)
  PROVE  IInv'
<1>1. PICK t \in OwnOrGlobal(o, s) :
         Step(r, [New EXCEPT !.pc = "row", !.org = o, !.table = t,
                             !.payload = p, !.todo = DOMAIN p,
                             !.due = Required(t)])
  BY DEF InsertStart
<1> DEFINE i == [New EXCEPT !.pc = "row", !.org = o, !.table = t,
                            !.payload = p, !.todo = DOMAIN p,
                            !.due = Required(t)]
<1>2. t \in TableIds /\ HasTable(t) /\ tables[t].org \in {o, Global}
  BY DEF OwnOrGlobal, Own
<1>3. DOMAIN p \subseteq Names /\ Required(t) \subseteq ColumnIds
  BY ClientsAssumption DEF Required, ColumnsOf
<1>4. /\ i \in Insertion /\ i.pc = "row" /\ i.org = o /\ i.table = t
      /\ i.vals = NoValues /\ i.due = Required(t)
  BY <1>2, <1>3 DEF New, NoValues, Insertion, Busy
<1>5. ins' = [ins EXCEPT ![r] = i] /\ UNCHANGED data
  BY <1>1 DEF InsertStart, Step
<1> HIDE DEF i
<1>6. ins'[r] = i /\ ins[r].pc = "new"
  BY <1>5 DEF IInv, TypeOK, InsertStart
<1>7. rows'[r] = None /\ UNCHANGED <<tables, columns, rows, values>>
  BY <1>5, <1>6 DEF IInv, InsertOK, data
<1>8. TableOK(r)'
  BY <1>2, <1>4, <1>6, <1>7 DEF TableOK, HasTable, Open
<1>9. ColumnOK(r)' /\ WrittenOK(r)'
  BY <1>4, <1>6 DEF ColumnOK, WrittenOK, NoValues
<1>10. DueOK(r)'
  BY <1>4, <1>6, <1>7 DEF DueOK, Required, ColumnsOf, HasColumn, HasRow
<1>11. InsertOK(r)'
  BY <1>7, <1>8, <1>9, <1>10 DEF InsertOK
<1> QED BY <1>4, <1>5, <1>11, OneInsertion

LEMMA InsertRowInv ==
  ASSUME IInv, NEW r \in RowIds, InsertRow(r)
  PROVE  IInv'
<1> DEFINE i == [ins[r] EXCEPT !.pc = NextKey(ins[r])]
<1>1. ins[r] \in Insertion /\ ins[r].pc = "row" /\ InsertOK(r)
  BY DEF IInv, TypeOK, InsertRow
<1>2. CASE HasTable(ins[r].table) /\ Step(r, i)
  <2>1. NextKey(ins[r]) \in {"read", "check"}
    BY DEF NextKey
  <2>2. /\ i \in Insertion /\ i.pc \in {"read", "check"}
        /\ i.table = ins[r].table /\ i.org = ins[r].org
        /\ i.vals = ins[r].vals /\ i.due = ins[r].due
    BY <1>1, <2>1 DEF Insertion, Busy
  <2>3. ins' = [ins EXCEPT ![r] = i] /\ UNCHANGED data
    BY <1>2 DEF Step, InsertRow
  <2> HIDE DEF i
  <2>4. ins'[r] = i
    BY <2>3 DEF IInv, TypeOK
  <2>5. ins[r].vals = NoValues
    BY <1>1 DEF InsertOK, WrittenOK, Open
  <2>6. InsertOK(r)'
    BY <1>1, <1>2, <2>2, <2>3, <2>4, <2>5
    DEF InsertOK, TableOK, ColumnOK, WrittenOK, DueOK, Open, Busy, NoValues,
        HasTable, HasColumn, HasRow, data
  <2> QED BY <2>2, <2>3, <2>6, OneInsertion
<1>3. CASE Fails(r)
  BY <1>1, <1>3, FailsInv DEF InsertRow, Busy
<1> QED BY <1>2, <1>3 DEF InsertRow

LEMMA InsertReadInv ==
  ASSUME IInv, NEW r \in RowIds, InsertRead(r)
  PROVE  IInv'
<1>1. ins[r] \in Insertion /\ ins[r].pc = "read" /\ InsertOK(r)
  BY DEF IInv, TypeOK, InsertRead
<1>2. ASSUME NEW c \in ColumnIds, HasColumn(c),
             columns[c].table = ins[r].table,
             ~(columns[c].required /\ Input(r) = "null"),
             Step(r, [ins[r] EXCEPT !.pc = "write", !.col = c])
      PROVE  IInv'
  <2> DEFINE i == [ins[r] EXCEPT !.pc = "write", !.col = c]
  <2>1. /\ i \in Insertion /\ i.pc = "write" /\ i.col = c
        /\ i.table = ins[r].table /\ i.org = ins[r].org
        /\ i.vals = ins[r].vals /\ i.due = ins[r].due
        /\ i.todo = ins[r].todo /\ i.payload = ins[r].payload
    BY <1>1 DEF Insertion, Busy
  <2>2. ins' = [ins EXCEPT ![r] = i] /\ UNCHANGED data
    BY <1>2 DEF Step, InsertRead
  <2>3. InputOf(i) = InputOf(ins[r])
    BY <2>1 DEF InputOf
  <2> HIDE DEF i
  <2>4. ins'[r] = i
    BY <2>2 DEF IInv, TypeOK
  <2>5. Input(r)' = Input(r)
    BY <2>3, <2>4, InputFromInsertion
  <2>6. TableOK(r)' /\ ColumnOK(r)'
    BY <1>1, <1>2, <2>1, <2>2, <2>4, <2>5
    DEF InsertOK, TableOK, ColumnOK, Open, Busy, HasTable, HasColumn, data
  <2>7. WrittenOK(r)' /\ DueOK(r)'
    BY <1>1, <2>1, <2>2, <2>4
    DEF InsertOK, WrittenOK, DueOK, Open, Busy, Fits, ReferenceAllowed,
        HasColumn, HasRow, data
  <2>8. InsertOK(r)'
    BY <1>1, <2>1, <2>2, <2>4, <2>6, <2>7 DEF InsertOK, data
  <2> QED BY <2>1, <2>2, <2>8, OneInsertion
<1>3. CASE Fails(r)
  BY <1>1, <1>3, FailsInv DEF InsertRead, Busy
<1> QED BY <1>2, <1>3 DEF InsertRead, ColumnsOf

(* What is written fits: the cast, the triggers and the foreign key have   *)
(* seen to it.                                                             *)
LEMMA AcceptedFits ==
  ASSUME TypeOK, NEW c \in ColumnIds, NEW t \in TableIds, NEW v,
         HasColumn(c), columns[c].table = t, Accepts(c, t, v),
         columns[c].required => v # "null"
  PROVE  /\ Fits(t, c, StoredAs(c, v))
         /\ StoredAs(c, v) \in Stored
BY Marks DEF Accepts, StoredAs, Fits, Stored, TypeOK

LEMMA InsertValueInv ==
  ASSUME IInv, NEW r \in RowIds, InsertValue(r)
  PROVE  IInv'
<1> DEFINE c == ins[r].col
           v == StoredAs(c, Input(r))
           todo == ins[r].todo \ {Key(r)}
<1>1. ins[r] \in Insertion /\ ins[r].pc = "write" /\ InsertOK(r) /\ TypeOK
  BY DEF IInv, TypeOK, InsertValue
<1>2. c \in ColumnIds /\ ins[r].table \in TableIds /\ ins[r].org \in Orgs
  BY <1>1 DEF InsertOK, ColumnOK, TableOK, Busy
<1>3. ASSUME HasColumn(c), Accepts(c, ins[r].table, Input(r)),
             NEW pc \in {"index", "read", "check"}, NEW col \in {c, None},
             pc = "index" => col = c,
             ins' = [ins EXCEPT ![r] =
                       [ins[r] EXCEPT !.vals[c] = v, !.todo = todo,
                                      !.pc = pc, !.col = col]]
      PROVE  IInv'
  <2> DEFINE i == [ins[r] EXCEPT !.vals[c] = v, !.todo = todo,
                                 !.pc = pc, !.col = col]
  <2>1. Fits(ins[r].table, c, v) /\ v \in Stored
    BY <1>1, <1>2, <1>3, AcceptedFits DEF InsertOK, ColumnOK
  <2>2. ins[r].vals \in [ColumnIds -> Stored \cup {None}]
    BY <1>1 DEF Insertion
  <2> HIDE DEF v, c, todo
  <2>3. /\ i.pc = pc /\ i.col = col
        /\ i.table = ins[r].table /\ i.org = ins[r].org
        /\ i.vals = [ins[r].vals EXCEPT ![c] = v] /\ i.due = ins[r].due
    BY <1>1 DEF Insertion
  <2>4. i \in Insertion
    <3>1. /\ [ins[r].vals EXCEPT ![c] = v] \in [ColumnIds -> Stored \cup {None}]
          /\ todo \in SUBSET Names /\ pc \in Busy
          /\ col \in ColumnIds \cup {None}
      BY <1>1, <1>2, <2>1, <2>2 DEF Insertion, Busy, todo
    <3> QED BY <1>1, <3>1 DEF Insertion
  <2>5. UNCHANGED data
    BY DEF InsertValue
  <2> HIDE DEF i
  <2>6. ins'[r] = i
    BY <1>3 DEF IInv, TypeOK, i
  <2>7. TableOK(r)'
    BY <1>1, <2>3, <2>5, <2>6
    DEF InsertOK, TableOK, Open, Busy, HasTable, data
  <2>8. ColumnOK(r)'
    BY <1>1, <1>2, <1>3, <2>3, <2>5, <2>6
    DEF InsertOK, ColumnOK, HasColumn, data, c
  <2>9. \A d \in ColumnIds : i.vals[d] # None => Fits(i.table, d, i.vals[d])
    BY <1>1, <2>1, <2>2, <2>3 DEF InsertOK, WrittenOK
  <2>10. WrittenOK(r)'
    BY <2>3, <2>5, <2>6, <2>9
    DEF WrittenOK, Open, Busy, Fits, ReferenceAllowed, HasColumn, HasRow, data
  <2>11. DueOK(r)'
    BY <1>1, <2>3, <2>5, <2>6
    DEF InsertOK, DueOK, Busy, HasColumn, HasRow, data
  <2>12. InsertOK(r)'
    BY <1>1, <2>3, <2>5, <2>6, <2>7, <2>8, <2>10, <2>11 DEF InsertOK, data
  <2> QED BY <1>3, <2>4, <2>5, <2>12, OneInsertion DEF i
<1>4. CASE Fails(r)
  BY <1>1, <1>4, FailsInv DEF InsertValue, Busy
<1>5. ASSUME ~Fails(r) PROVE IInv'
  <2> DEFINE done == [ins[r] EXCEPT !.vals[c] = v, !.todo = todo]
  <2>1. HasColumn(c) /\ Accepts(c, ins[r].table, Input(r))
    BY <1>5 DEF InsertValue
  <2>2. \/ Step(r, [done EXCEPT !.pc = "index"])
        \/ Step(r, [done EXCEPT !.pc = NextKey(done), !.col = None])
    BY <1>5 DEF InsertValue
  <2>3. NextKey(done) \in {"read", "check"}
    BY DEF NextKey
  <2>4. /\ [done EXCEPT !.pc = "index"]
             = [ins[r] EXCEPT !.vals[c] = v, !.todo = todo,
                              !.pc = "index", !.col = c]
        /\ [done EXCEPT !.pc = NextKey(done), !.col = None]
             = [ins[r] EXCEPT !.vals[c] = v, !.todo = todo,
                              !.pc = NextKey(done), !.col = None]
    <3> HIDE DEF v, todo
    <3> QED BY <1>1 DEF Insertion
  <2> HIDE DEF v, todo, done, c
  <2> QED BY <1>3, <2>1, <2>2, <2>3, <2>4 DEF Step
<1> QED BY <1>4, <1>5

LEMMA InsertIndexInv ==
  ASSUME IInv, NEW r \in RowIds, InsertIndex(r)
  PROVE  IInv'
<1>1. ins[r] \in Insertion /\ ins[r].pc = "index" /\ InsertOK(r)
  BY DEF IInv, TypeOK, InsertIndex
<1>2. ASSUME HasColumn(ins[r].col),
             Step(r, [ins[r] EXCEPT !.pc = NextKey(ins[r]), !.col = None,
                                    !.share = @ \cup {columns[ins[r].col].type}])
      PROVE  IInv'
  <2> DEFINE i == [ins[r] EXCEPT !.pc = NextKey(ins[r]), !.col = None,
                                 !.share = @ \cup {columns[ins[r].col].type}]
  <2>1. NextKey(ins[r]) \in {"read", "check"}
    BY DEF NextKey
  <2>2. columns[ins[r].col].type \in Types
    BY <1>1, <1>2 DEF IInv, TypeOK, InsertOK, ColumnOK, HasColumn, Column
  <2>3. /\ i \in Insertion /\ i.pc \in {"read", "check"}
        /\ i.table = ins[r].table /\ i.org = ins[r].org
        /\ i.vals = ins[r].vals /\ i.due = ins[r].due
    BY <1>1, <2>1, <2>2 DEF Insertion, Busy
  <2>4. ins' = [ins EXCEPT ![r] = i] /\ UNCHANGED data
    BY <1>2 DEF Step, InsertIndex
  <2> HIDE DEF i
  <2>5. ins'[r] = i
    BY <2>4 DEF IInv, TypeOK
  <2>6. TableOK(r)' /\ ColumnOK(r)' /\ DueOK(r)'
    BY <1>1, <2>3, <2>4, <2>5
    DEF InsertOK, TableOK, ColumnOK, DueOK, Open, Busy, HasTable, HasColumn,
        HasRow, data
  <2>7. WrittenOK(r)'
    BY <1>1, <2>3, <2>4, <2>5
    DEF InsertOK, WrittenOK, Open, Busy, Fits, ReferenceAllowed, HasColumn,
        HasRow, data
  <2>8. InsertOK(r)'
    BY <1>1, <2>3, <2>4, <2>5, <2>6, <2>7 DEF InsertOK, data
  <2> QED BY <2>3, <2>4, <2>8, OneInsertion
<1>3. CASE Fails(r)
  BY <1>1, <1>3, FailsInv DEF InsertIndex, Busy
<1> QED BY <1>2, <1>3 DEF InsertIndex

(* What was required when the insertion began and is still there is among  *)
(* what the final pass looks at.                                           *)
LEMMA InsertCheckInv ==
  ASSUME IInv, NEW r \in RowIds, InsertCheck(r)
  PROVE  IInv'
<1>1. ins[r] \in Insertion /\ ins[r].pc = "check" /\ InsertOK(r)
  BY DEF IInv, TypeOK, InsertCheck
<1>2. ASSUME \A c \in Required(ins[r].table) : ins[r].vals[c] # None,
             Step(r, [ins[r] EXCEPT !.pc = "commit",
                                    !.due = @ \cup Required(ins[r].table)])
      PROVE  IInv'
  <2> DEFINE i == [ins[r] EXCEPT !.pc = "commit",
                                 !.due = @ \cup Required(ins[r].table)]
  <2>0. Required(ins[r].table) \subseteq ColumnIds
    BY DEF Required, ColumnsOf
  <2>1. /\ i \in Insertion /\ i.pc = "commit"
        /\ i.table = ins[r].table /\ i.org = ins[r].org
        /\ i.vals = ins[r].vals
        /\ i.due = ins[r].due \cup Required(ins[r].table)
    BY <1>1, <2>0 DEF Insertion, Busy
  <2>2. ins' = [ins EXCEPT ![r] = i] /\ UNCHANGED data
    BY <1>2 DEF Step, InsertCheck
  <2> HIDE DEF i
  <2>3. ins'[r] = i
    BY <2>2 DEF IInv, TypeOK
  <2>4. TableOK(r)' /\ ColumnOK(r)'
    BY <1>1, <2>1, <2>2, <2>3
    DEF InsertOK, TableOK, ColumnOK, Open, Busy, HasTable, data
  <2>5. WrittenOK(r)'
    BY <1>1, <2>1, <2>2, <2>3
    DEF InsertOK, WrittenOK, Open, Busy, Fits, ReferenceAllowed, HasColumn,
        HasRow, data
  <2>6. \A c \in ins[r].due : HasColumn(c) => c \in Required(ins[r].table)
    BY <1>1 DEF InsertOK, DueOK, Required, ColumnsOf, Busy, Insertion
  <2>7. \A c \in Required(ins[r].table) :
           /\ columns[c] # None /\ columns[c].required
           /\ columns[c].table = ins[r].table /\ ins[r].vals[c] # None
    BY <1>2 DEF Required, ColumnsOf, HasColumn
  <2>8. ~HasRow(r)
    BY <1>1 DEF InsertOK, HasRow
  <2>9. DueOK(r)'
    BY <1>1, <2>1, <2>2, <2>3, <2>6, <2>7, <2>8
    DEF InsertOK, DueOK, HasColumn, HasRow, data
  <2>10. InsertOK(r)'
    BY <1>1, <2>1, <2>2, <2>3, <2>4, <2>5, <2>9 DEF InsertOK, data
  <2> QED BY <2>1, <2>2, <2>10, OneInsertion
<1>3. CASE Fails(r)
  BY <1>1, <1>3, FailsInv DEF InsertCheck, Busy
<1> QED BY <1>2, <1>3 DEF InsertCheck

LEMMA InsertEndsInv ==
  ASSUME IInv, NEW r \in RowIds, InsertCancelled(r) \/ DeadlockVictim(r)
  PROVE  IInv'
BY FailsInv DEF InsertCancelled, DeadlockVictim, Busy

LEMMA InsertCommitInv ==
  ASSUME IInv, NEW r \in RowIds, InsertCommit(r)
  PROVE  IInv'
<1> DEFINE t == ins[r].table
           i == [New EXCEPT !.pc = "committed", !.due = ins[r].due]
<1>1. /\ ins[r] \in Insertion /\ ins[r].pc = "commit" /\ InsertOK(r)
      /\ rows[r] = None /\ t \in TableIds /\ HasTable(t)
  BY DEF IInv, TypeOK, InsertCommit, InsertOK, TableOK, Busy, Open
<1>2. /\ i \in Insertion /\ i.pc = "committed" /\ i.vals = NoValues
      /\ i.due = ins[r].due
  BY <1>1 DEF New, NoValues, Insertion
<1>3. ins[r].vals \in [ColumnIds -> Stored \cup {None}]
  BY <1>1 DEF Insertion
<1>4. ins' = [ins EXCEPT ![r] = i]
  BY DEF InsertCommit, Step
<1> HIDE DEF i
<1>5. /\ rows' = [rows EXCEPT ![r] = t]
      /\ values' = [values EXCEPT ![r] = ins[r].vals]
      /\ UNCHANGED <<tables, columns>>
  BY DEF InsertCommit
<1>6. TypeOK /\ TypeOK'
  BY <1>1, <1>2, <1>3, <1>4, <1>5 DEF IInv, TypeOK
<1>7. /\ ins'[r] = i /\ rows'[r] = t /\ values'[r] = ins[r].vals
      /\ \A q \in RowIds \ {r} : /\ ins'[q] = ins[q] /\ rows'[q] = rows[q]
                                 /\ values'[q] = values[q]
  BY <1>4, <1>5, <1>6 DEF TypeOK
<1>8. HasRow(r)' /\ ~HasRow(r)
  BY <1>1, <1>7, Marks DEF HasRow
<1> HIDE DEF t
<1>9. \A q \in RowIds : HasRow(q) => HasRow(q)' /\ rows'[q] = rows[q]
  BY <1>7, <1>8 DEF HasRow
<1>10. \A q \in RowIds : HasTable(rows[q])' <=> HasTable(rows'[q])
  BY <1>5 DEF HasTable
<1>11. RowsOK'
  BY <1>1, <1>5, <1>7 DEF IInv, RowsOK, HasRow, HasTable
<1>12. \A d \in ColumnIds : ins[r].vals[d] # None => Fits(t, d, ins[r].vals[d])
  BY <1>1 DEF InsertOK, WrittenOK, t
<1>13. ASSUME NEW q \in RowIds, NEW d \in ColumnIds, values'[q][d] # None
       PROVE  HasRow(q)' /\ Fits(rows[q], d, values[q][d])'
  <2>1. CASE q = r
    BY <1>5, <1>7, <1>8, <1>9, <1>12, <1>13, <2>1
    DEF Fits, ReferenceAllowed, HasColumn
  <2>2. CASE q # r
    <3>1. HasRow(q) /\ Fits(rows[q], d, values[q][d])
      BY <1>7, <1>13, <2>2 DEF IInv, CommittedOK
    <3> QED
      BY <1>5, <1>7, <1>9, <2>2, <3>1 DEF Fits, ReferenceAllowed, HasColumn
  <2> QED BY <2>1, <2>2
<1>14. ASSUME NEW q \in RowIds PROVE InsertOK(q)'
  <2>1. CASE q = r
    <3>1. DueOK(r)'
      BY <1>1, <1>2, <1>5, <1>7
      DEF InsertOK, DueOK, HasColumn, Busy
    <3> QED
      BY <1>2, <1>7, <2>1, <3>1
      DEF InsertOK, TableOK, ColumnOK, WrittenOK, NoValues, Open, Busy
  <2>2. CASE q # r
    <3>1. InsertOK(q) /\ ins'[q] = ins[q] /\ rows'[q] = rows[q]
          /\ values'[q] = values[q]
      BY <1>7, <2>2 DEF IInv
    <3>2. Input(q)' = Input(q)
      BY <3>1, InputFromInsertion
    <3>3. TableOK(q)' /\ ColumnOK(q)' /\ DueOK(q)'
      BY <1>5, <3>1, <3>2
      DEF InsertOK, TableOK, ColumnOK, DueOK, Open, HasTable, HasColumn, HasRow
    <3>4. WrittenOK(q)'
      BY <1>5, <1>9, <3>1
      DEF InsertOK, WrittenOK, Open, Fits, ReferenceAllowed, HasColumn
    <3> QED BY <3>1, <3>3, <3>4 DEF InsertOK
  <2> QED BY <2>1, <2>2
<1> QED BY <1>6, <1>11, <1>13, <1>14 DEF IInv, CommittedOK

-----------------------------------------------------------------------------
(* Statements on tables, columns and rows.  What they take away, no        *)
(* insertion has locked; an id they give out is new.                       *)
LEMMA OnlyData ==
  ASSUME IInv, UNCHANGED ins, NEW q \in RowIds
  PROVE  Input(q)' = Input(q) /\ ins'[q] = ins[q] /\ InsertOK(q)
BY InputFromInsertion DEF IInv

LEMMA CreateInv ==
  ASSUME IInv, NEW o \in Orgs, NEW s \in Slugs, CreateUserTable(o, s)
  PROVE  IInv'
<1>1. PICK t \in TableIds :
         /\ tables[t] = None
         /\ tables' = [tables EXCEPT ![t] = [org |-> o, slug |-> s]]
  BY DEF CreateUserTable
<1>2. UNCHANGED <<columns, rows, values, ins>>
  BY DEF CreateUserTable
<1>3. TypeOK'
  BY <1>1, <1>2 DEF IInv, TypeOK, Table
<1>4. \A x \in TableIds : tables[x] # None => tables'[x] = tables[x]
  BY <1>1 DEF IInv, TypeOK
<1>5. RowsOK'
  BY <1>2, <1>4 DEF IInv, RowsOK, TypeOK, HasRow, HasTable
<1>6. CommittedOK'
  BY <1>2 DEF IInv, CommittedOK, Fits, ReferenceAllowed, HasColumn, HasRow
<1>7. ASSUME NEW q \in RowIds PROVE InsertOK(q)'
  <2>1. Input(q)' = Input(q) /\ ins'[q] = ins[q] /\ InsertOK(q)
    BY <1>2, OnlyData
  <2>2. TableOK(q)'
    BY <1>4, <2>1 DEF InsertOK, TableOK, HasTable, Open, Busy
  <2>3. ColumnOK(q)' /\ WrittenOK(q)' /\ DueOK(q)'
    BY <1>2, <2>1 DEF InsertOK, ColumnOK, WrittenOK, DueOK, Open, Fits,
       ReferenceAllowed, HasColumn, HasRow
  <2> QED BY <1>2, <2>1, <2>2, <2>3 DEF InsertOK
<1> QED BY <1>3, <1>5, <1>6, <1>7 DEF IInv

LEMMA AddColumnInv ==
  ASSUME IInv, NEW o \in Orgs, NEW s \in Slugs, NEW d \in ColumnDefs,
         AddUserTableColumn(o, s, d)
  PROVE  IInv'
<1>1. PICK t \in OwnOrGlobal(o, s), c \in ColumnIds,
           ref \in IF d.ref = None \/ OwnOrGlobal(o, d.ref) = {}
                   THEN {None} ELSE OwnOrGlobal(o, d.ref) :
         /\ columns[c] = None
         /\ columns' = [columns EXCEPT ![c] =
               [table |-> t, name |-> d.name, type |-> d.type,
                required |-> d.required, indexed |-> d.indexed,
                isRef |-> d.isRef, refTable |-> ref,
                different |-> d.different]]
  BY DEF AddUserTableColumn
<1>2. UNCHANGED <<tables, rows, values, ins>>
  BY DEF AddUserTableColumn
<1>3. TypeOK'
  <2>1. t \in TableIds /\ ref \in TableIds \cup {None}
    BY DEF OwnOrGlobal, Own
  <2>2. d \in ColumnDef
    BY ClientsAssumption
  <2>3. [table |-> t, name |-> d.name, type |-> d.type,
         required |-> d.required, indexed |-> d.indexed,
         isRef |-> d.isRef, refTable |-> ref,
         different |-> d.different] \in Column
    BY <2>1, <2>2 DEF ColumnDef, Column
  <2> QED BY <1>1, <1>2, <2>3 DEF IInv, TypeOK
<1>4. \A x \in ColumnIds : columns[x] # None => columns'[x] = columns[x]
  BY <1>1 DEF IInv, TypeOK
<1>5. RowsOK'
  BY <1>2 DEF IInv, RowsOK, HasRow, HasTable
<1>6. CommittedOK'
  BY <1>2, <1>4
  DEF IInv, CommittedOK, Fits, ReferenceAllowed, HasColumn, HasRow
<1>7. ASSUME NEW q \in RowIds PROVE InsertOK(q)'
  <2>1. Input(q)' = Input(q) /\ ins'[q] = ins[q] /\ InsertOK(q)
        /\ ins[q] \in Insertion
    BY <1>2, OnlyData DEF IInv, TypeOK
  <2>2. TableOK(q)'
    BY <1>2, <2>1 DEF InsertOK, TableOK, HasTable, Open, Busy
  <2>3. ColumnOK(q)' /\ WrittenOK(q)'
    BY <1>2, <1>4, <2>1 DEF InsertOK, ColumnOK, WrittenOK, Open, Fits,
       ReferenceAllowed, HasColumn, HasRow
  <2>4. DueOK(q)'
    BY <1>2, <1>4, <2>1 DEF InsertOK, DueOK, HasColumn, HasRow, Insertion
  <2> QED BY <1>2, <2>1, <2>2, <2>3, <2>4 DEF InsertOK
<1> QED BY <1>3, <1>5, <1>6, <1>7 DEF IInv

LEMMA RemoveColumnInv ==
  ASSUME IInv, NEW o \in Orgs, NEW s \in Slugs, NEW n \in Names,
         RemoveUserTableColumn(o, s, n)
  PROVE  IInv'
<1>1. PICK c \in ColumnIds :
         /\ HasColumn(c)
         /\ \A r \in RowIds : ~LocksColumn(r, c)
         /\ columns' = [columns EXCEPT ![c] = Gone]
         /\ values' = [r \in RowIds |-> [values[r] EXCEPT ![c] = None]]
  BY DEF RemoveUserTableColumn, ColumnsOf
<1>2. UNCHANGED <<tables, rows, ins>>
  BY DEF RemoveUserTableColumn
<1>3. TypeOK'
  BY <1>1, <1>2 DEF IInv, TypeOK
<1>4. /\ columns'[c] = Gone /\ ~HasColumn(c)' /\ columns'[c] # None
      /\ \A x \in ColumnIds \ {c} : columns'[x] = columns[x]
      /\ \A r \in RowIds : values'[r][c] = None
      /\ \A r \in RowIds, x \in ColumnIds \ {c} : values'[r][x] = values[r][x]
  BY <1>1, Marks DEF IInv, TypeOK, HasColumn
<1>5. RowsOK'
  BY <1>2 DEF IInv, RowsOK, HasRow, HasTable
<1>6. CommittedOK'
  BY <1>2, <1>4
  DEF IInv, CommittedOK, Fits, ReferenceAllowed, HasColumn, HasRow
<1>7. ASSUME NEW q \in RowIds PROVE InsertOK(q)'
  <2>1. Input(q)' = Input(q) /\ ins'[q] = ins[q] /\ InsertOK(q)
        /\ ins[q] \in Insertion
    BY <1>2, OnlyData DEF IInv, TypeOK
  <2>2. TableOK(q)'
    BY <1>2, <2>1 DEF InsertOK, TableOK, HasTable, Open, Busy
  <2>3. ColumnOK(q)'
    BY <1>4, <2>1 DEF InsertOK, ColumnOK, HasColumn
  <2>4. ins[q].vals[c] = None
    BY <1>1 DEF LocksColumn
  <2>5. WrittenOK(q)'
    BY <1>2, <1>4, <2>1, <2>4
    DEF InsertOK, WrittenOK, Open, Fits, ReferenceAllowed, HasColumn, HasRow
  <2>6. DueOK(q)'
    BY <1>2, <1>4, <2>1 DEF InsertOK, DueOK, HasColumn, HasRow, Insertion
  <2> QED BY <1>2, <2>1, <2>2, <2>3, <2>5, <2>6 DEF InsertOK
<1> QED BY <1>3, <1>5, <1>6, <1>7 DEF IInv

LEMMA DeleteRowInv ==
  ASSUME IInv, NEW o \in Orgs, NEW s \in Slugs, NEW r \in RowIds,
         DeleteUserTableRow(o, s, r)
  PROVE  IInv'
<1>1. /\ HasRow(r)
      /\ \A q \in RowIds, c \in ColumnIds : values[q][c] # r
      /\ \A q \in RowIds, c \in ColumnIds : ins[q].vals[c] # r
      /\ rows' = [rows EXCEPT ![r] = Gone]
      /\ values' = [values EXCEPT ![r] = NoValues]
      /\ UNCHANGED <<tables, columns, ins>>
  BY Marks DEF DeleteUserTableRow, Own, LocksRow, HasRow
<1>2. TypeOK'
  BY <1>1 DEF IInv, TypeOK, NoValues
<1>3. /\ rows'[r] = Gone /\ ~HasRow(r)' /\ values'[r] = NoValues
      /\ \A q \in RowIds \ {r} : rows'[q] = rows[q] /\ values'[q] = values[q]
  BY <1>1 DEF IInv, TypeOK, HasRow
<1>4. RowsOK'
  BY <1>1, <1>3 DEF IInv, RowsOK, HasRow, HasTable
<1>5. CommittedOK'
  BY <1>1, <1>3
  DEF IInv, CommittedOK, Fits, ReferenceAllowed, HasColumn, HasRow, NoValues
<1>6. ASSUME NEW q \in RowIds PROVE InsertOK(q)'
  <2>1. Input(q)' = Input(q) /\ ins'[q] = ins[q] /\ InsertOK(q)
        /\ ins[q] \in Insertion
    BY <1>1, OnlyData DEF IInv, TypeOK
  <2>2. TableOK(q)' /\ ColumnOK(q)'
    BY <1>1, <2>1
    DEF InsertOK, TableOK, ColumnOK, HasTable, HasColumn, Open, Busy
  <2>3. WrittenOK(q)'
    BY <1>1, <1>3, <2>1
    DEF InsertOK, WrittenOK, Open, Fits, ReferenceAllowed, HasColumn, HasRow
  <2>4. DueOK(q)'
    BY <1>1, <1>3, <2>1 DEF InsertOK, DueOK, HasColumn, HasRow
  <2>5. ins'[q].pc # "committed" => rows'[q] = None
    BY <1>1, <1>3, <2>1 DEF InsertOK, HasRow
  <2> QED BY <2>2, <2>3, <2>4, <2>5 DEF InsertOK
<1> QED BY <1>2, <1>4, <1>5, <1>6 DEF IInv

LEMMA DeleteTableInv ==
  ASSUME IInv, NEW o \in Orgs, NEW s \in Slugs, DeleteUserTable(o, s)
  PROVE  IInv'
<1>1. PICK t \in Own(o, s) :
        /\ \A r \in RowIds : ~LocksTable(r, t)
        /\ \A r \in RowIds, q \in RowsOf(t) : ~LocksRow(r, q)
        /\ \A r \in RowIds, c \in ColumnIds \ ColumnsOf(t) :
              values[r][c] \notin RowsOf(t)
        /\ tables' = [tables EXCEPT ![t] = Gone]
        /\ columns' = [c \in ColumnIds |->
                         IF c \in ColumnsOf(t) THEN Gone ELSE columns[c]]
        /\ rows' = [r \in RowIds |-> IF r \in RowsOf(t) THEN Gone ELSE rows[r]]
        /\ values' = [r \in RowIds |->
                        [c \in ColumnIds |->
                           IF c \in ColumnsOf(t) \/ r \in RowsOf(t)
                           THEN None ELSE values[r][c]]]
        /\ UNCHANGED ins
  BY DEF DeleteUserTable
<1>2. t \in TableIds /\ HasTable(t) /\ TypeOK
  BY DEF Own, IInv
<1>3. TypeOK'
  BY <1>1, <1>2 DEF TypeOK
<1>4. /\ tables'[t] = Gone
      /\ \A x \in TableIds \ {t} : tables'[x] = tables[x]
  BY <1>1, <1>2 DEF TypeOK
<1>5. ASSUME NEW c \in ColumnIds
      PROVE  /\ c \in ColumnsOf(t) => columns'[c] = Gone /\ columns[c] # None
             /\ c \notin ColumnsOf(t) => columns'[c] = columns[c]
             /\ HasColumn(c)' => HasColumn(c) /\ columns'[c] = columns[c]
                                   /\ columns[c].table # t
  BY <1>1 DEF ColumnsOf, HasColumn
<1>6. ASSUME NEW r \in RowIds
      PROVE  /\ r \in RowsOf(t) => rows'[r] = Gone /\ rows[r] = t
             /\ r \notin RowsOf(t) => rows'[r] = rows[r] /\ rows[r] # t
             /\ HasRow(r)' => HasRow(r) /\ rows'[r] = rows[r] /\ rows[r] # t
  BY <1>1 DEF RowsOf, HasRow
<1>7. ASSUME NEW r \in RowIds, NEW c \in ColumnIds
      PROVE  /\ c \in ColumnsOf(t) \/ r \in RowsOf(t) => values'[r][c] = None
             /\ ~(c \in ColumnsOf(t) \/ r \in RowsOf(t)) =>
                   values'[r][c] = values[r][c]
  BY <1>1
<1>8. RowsOK'
  BY <1>2, <1>4, <1>6 DEF IInv, RowsOK, HasRow, HasTable, TypeOK
<1>9. ASSUME NEW x \in TableIds, NEW c \in ColumnIds, x # t,
             NEW v \in Stored, Fits(x, c, v), v \notin RowsOf(t)
      PROVE  Fits(x, c, v)'
  <2>1. c \notin ColumnsOf(t) /\ columns'[c] = columns[c]
    BY <1>5, <1>9 DEF Fits, ColumnsOf
  <2>2. v \in RowIds => rows'[v] = rows[v]
    BY <1>6, <1>9
  <2> QED BY <1>9, <2>1, <2>2 DEF Fits, ReferenceAllowed, HasColumn, HasRow
<1>10. ASSUME NEW r \in RowIds, NEW c \in ColumnIds, values'[r][c] # None
       PROVE  HasRow(r)' /\ Fits(rows[r], c, values[r][c])'
  <2>1. /\ c \notin ColumnsOf(t) /\ r \notin RowsOf(t)
        /\ values'[r][c] = values[r][c] /\ values[r][c] # None
    BY <1>7, <1>10
  <2>2. HasRow(r) /\ Fits(rows[r], c, values[r][c])
    BY <2>1 DEF IInv, CommittedOK
  <2>3. rows'[r] = rows[r] /\ rows[r] # t
    BY <1>6, <2>1
  <2>4. PICK x \in TableIds, v \in Stored : x = rows[r] /\ v = values[r][c]
    BY <1>2, <2>1, <2>2 DEF TypeOK, HasRow
  <2>5. Fits(x, c, v)'
    BY <1>1, <1>9, <2>1, <2>2, <2>3, <2>4
  <2>6. Fits(rows[r], c, values[r][c])'
    BY <2>1, <2>3, <2>4, <2>5 DEF Fits
  <2> QED BY <2>2, <2>3, <2>6 DEF HasRow
<1>11. ASSUME NEW q \in RowIds PROVE InsertOK(q)'
  <2>1. Input(q)' = Input(q) /\ ins'[q] = ins[q] /\ InsertOK(q)
        /\ ins[q] \in Insertion
    BY <1>1, <1>2, OnlyData DEF TypeOK
  <2>2. Open(q) => ins[q].table # t
    BY <1>1 DEF LocksTable
  <2>3. TableOK(q)'
    BY <1>2, <1>4, <2>1, <2>2, Marks DEF InsertOK, TableOK, HasTable, Open, Busy
  <2>4. ColumnOK(q)'
    BY <1>5, <2>1, Marks DEF InsertOK, ColumnOK, HasColumn
  <2>5. ASSUME NEW c \in ColumnIds, ins[q].vals[c] # None
        PROVE  Fits(ins[q].table, c, ins[q].vals[c])'
    <3>1. Open(q) /\ Fits(ins[q].table, c, ins[q].vals[c])
      BY <2>1, <2>5 DEF InsertOK, WrittenOK, NoValues
    <3>2. ins[q].table \in TableIds /\ ins[q].vals[c] \in Stored
      BY <2>1, <2>5, <3>1 DEF InsertOK, TableOK, Open, Busy, Insertion
    <3>3. ins[q].vals[c] \notin RowsOf(t)
      BY <1>1 DEF LocksRow
    <3>4. PICK x \in TableIds, v \in Stored :
             x = ins[q].table /\ v = ins[q].vals[c]
      BY <3>2
    <3>5. Fits(x, c, v)'
      BY <1>9, <2>2, <3>1, <3>3, <3>4
    <3> QED BY <2>1, <3>4, <3>5 DEF Fits
  <2>6. WrittenOK(q)'
    BY <2>1, <2>5 DEF InsertOK, WrittenOK, Open
  <2>7. ASSUME NEW c \in ins[q].due
        PROVE  /\ columns'[c] # None
               /\ HasColumn(c)' =>
                     /\ columns'[c].required
                     /\ ins[q].pc \in Busy => columns'[c].table = ins[q].table
                     /\ ins[q].pc = "commit" => ins[q].vals[c] # None
                     /\ HasRow(q)' => values'[q][c] # None
    <3>1. c \in ColumnIds
      BY <2>1 DEF Insertion
    <3>2. columns'[c] # None
      BY <1>5, <2>1, <3>1, Marks DEF InsertOK, DueOK
    <3>3. ASSUME HasColumn(c)'
          PROVE  /\ HasColumn(c) /\ columns'[c] = columns[c]
                 /\ HasRow(q)' => values'[q][c] = values[q][c] /\ HasRow(q)
      BY <1>5, <1>6, <1>7, <3>1, <3>3 DEF ColumnsOf, RowsOf
    <3> QED BY <2>1, <3>2, <3>3 DEF InsertOK, DueOK
  <2>8. DueOK(q)'
    BY <2>1, <2>7 DEF DueOK
  <2>9. ins'[q].pc # "committed" => rows'[q] = None
    BY <1>2, <1>6, <2>1, Marks DEF InsertOK, RowsOf
  <2> QED BY <2>3, <2>4, <2>6, <2>8, <2>9 DEF InsertOK
<1> QED BY <1>3, <1>8, <1>10, <1>11 DEF IInv, CommittedOK

-----------------------------------------------------------------------------
LEMMA RequestInv ==
  ASSUME IInv, NEW o \in Orgs, Request(o)
  PROVE  IInv'
BY CreateInv, DeleteTableInv, AddColumnInv, RemoveColumnInv, DeleteRowInv,
   InsertStartInv, InsertRowInv, InsertReadInv, InsertValueInv, InsertIndexInv,
   InsertCheckInv, InsertCommitInv, InsertEndsInv
DEF Request, InsertSteps

LEMMA StepInv == IInv /\ [Next]_vars => IInv'
<1> SUFFICES ASSUME IInv, [Next]_vars PROVE IInv'
  OBVIOUS
<1>1. CASE Next
  BY <1>1, RequestInv DEF Next
<1>2. CASE UNCHANGED vars
  <2>1. TypeOK' /\ RowsOK' /\ CommittedOK'
    BY <1>2 DEF vars, IInv, TypeOK, RowsOK, CommittedOK, Fits, ReferenceAllowed,
       HasTable, HasColumn, HasRow
  <2>2. ASSUME NEW q \in RowIds PROVE InsertOK(q)'
    <3>1. Input(q)' = Input(q) /\ ins'[q] = ins[q] /\ InsertOK(q)
      BY <1>2, OnlyData DEF vars
    <3> QED
      BY <1>2, <3>1 DEF vars, InsertOK, TableOK, ColumnOK, WrittenOK, DueOK,
         Open, Fits, ReferenceAllowed, HasTable, HasColumn, HasRow
  <2> QED BY <2>1, <2>2 DEF IInv
<1> QED BY <1>1, <1>2

(* Tables and insertions fit each other in every state the database and    *)
(* the handlers under /tables reach.                                       *)
THEOREM InvHolds == Spec => []IInv
BY InitInv, StepInv, PTL DEF Spec

(* Tables, columns, rows, values and insertions keep their types.          *)
THEOREM TypeCorrect == Spec => []TypeOK
<1>1. IInv => TypeOK
  BY DEF IInv
<1> QED BY <1>1, InvHolds, PTL

(* A value stays in a column of its row's table and of its own type,       *)
(* whatever is removed while it is inserted.                               *)
THEOREM ValuesStayInPlace == Spec => []ValuesFit
<1>1. IInv => ValuesFit
  BY DEF IInv, CommittedOK, Fits, ValuesFit
<1> QED BY <1>1, InvHolds, PTL

(* No reference is left to a row that is gone or of another table than its *)
(* column names.                                                           *)
THEOREM NothingDangles == Spec => []ReferencesHold
<1>1. IInv => ReferencesHold
  BY Marks DEF IInv, CommittedOK, Fits, ReferencesHold
<1> QED BY <1>1, InvHolds, PTL

(* A row has what was required of it, whichever columns came and went.     *)
THEOREM RowsAreFilled == Spec => []RequiredFilled
<1>1. IInv => RequiredFilled
  <2> SUFFICES ASSUME IInv, NEW r \in RowIds, HasRow(r), NEW c \in ins[r].due,
                      HasColumn(c)
               PROVE  values[r][c] \notin {None, "null"}
    BY DEF RequiredFilled
  <2>1. c \in ColumnIds
    BY DEF IInv, TypeOK, Insertion
  <2>2. columns[c].required /\ values[r][c] # None
    BY DEF IInv, InsertOK, DueOK
  <2> QED BY <2>1, <2>2 DEF IInv, CommittedOK, Fits
<1> QED BY <1>1, InvHolds, PTL

-----------------------------------------------------------------------------
(* A request of p changes nothing another organisation o holds: what it    *)
(* names is its own or of no organisation, and a row it commits is of the  *)
(* table it has locked.                                                    *)
LEMMA RequestTouches ==
  ASSUME IInv, NEW p \in Orgs, Request(p), NEW o \in Orgs \ {p}
  PROVE  ~Touches(o)
<1> USE DEF Touches, HoldsTable, HoldsColumn, HoldsRow
<1>0. o # Global /\ o # p
  BY Marks
<1>named. ASSUME NEW s \in Slugs, NEW t \in OwnOrGlobal(p, s)
      PROVE  t \in TableIds /\ HasTable(t) /\ ~HoldsTable(o, t)
  BY <1>0 DEF OwnOrGlobal, Own
<1>fit. \A r \in RowIds, c \in ColumnIds :
         values[r][c] # None => HasRow(r) /\ HasColumn(c)
                                   /\ columns[c].table = rows[r]
  BY DEF IInv, CommittedOK, Fits
<1>1. ASSUME NEW s \in Slugs, CreateUserTable(p, s) PROVE ~Touches(o)
  <2>1. PICK t \in TableIds :
           /\ tables[t] = None
           /\ tables' = [tables EXCEPT ![t] = [org |-> p, slug |-> s]]
    BY <1>1 DEF CreateUserTable
  <2>2. tables'[t].org = p /\ \A x \in TableIds \ {t} : tables'[x] = tables[x]
    BY <2>1 DEF IInv, TypeOK
  <2> QED BY <1>0, <1>1, <2>1, <2>2 DEF CreateUserTable, HasTable
<1>2. ASSUME NEW s \in Slugs, DeleteUserTable(p, s) PROVE ~Touches(o)
  <2>1. PICK t \in Own(p, s) :
          /\ tables' = [tables EXCEPT ![t] = Gone]
          /\ columns' = [c \in ColumnIds |->
                           IF c \in ColumnsOf(t) THEN Gone ELSE columns[c]]
          /\ rows' = [r \in RowIds |->
                        IF r \in RowsOf(t) THEN Gone ELSE rows[r]]
          /\ values' = [r \in RowIds |->
                          [c \in ColumnIds |->
                             IF c \in ColumnsOf(t) \/ r \in RowsOf(t)
                             THEN None ELSE values[r][c]]]
    BY <1>2 DEF DeleteUserTable
  <2>2. t \in TableIds /\ ~HoldsTable(o, t) /\ tables'[t] = Gone
        /\ \A x \in TableIds \ {t} : tables'[x] = tables[x]
    BY <1>0, <2>1 DEF Own, IInv, TypeOK
  <2>3. ASSUME NEW c \in ColumnIds, columns'[c] # columns[c]
        PROVE  ~HoldsColumn(o, c) /\ ~HoldsColumn(o, c)'
    BY <2>1, <2>2, <2>3 DEF ColumnsOf, HasColumn
  <2>4. ASSUME NEW r \in RowIds, rows'[r] # rows[r]
        PROVE  ~HoldsRow(o, r) /\ ~HoldsRow(o, r)'
    BY <2>1, <2>2, <2>4 DEF RowsOf, HasRow
  <2>5. ASSUME NEW r \in RowIds, r \notin RowsOf(t)
        PROVE  values'[r] = values[r]
    <3>1. \A c \in ColumnIds : values'[r][c] = values[r][c]
      BY <1>fit, <2>1, <2>5 DEF ColumnsOf, RowsOf
    <3>2. /\ values'[r] = [c \in ColumnIds |-> values'[r][c]]
          /\ values[r] = [c \in ColumnIds |-> values[r][c]]
      BY <2>1 DEF IInv, TypeOK
    <3> QED BY <3>1, <3>2
  <2>6. ASSUME NEW r \in RowsOf(t) PROVE rows'[r] # rows[r]
    BY <2>1, <2>2, Marks DEF RowsOf
  <2> QED BY <2>2, <2>3, <2>4, <2>5, <2>6 DEF HasTable, RowsOf
<1>3. ASSUME NEW s \in Slugs, NEW d \in ColumnDefs,
             AddUserTableColumn(p, s, d)
      PROVE  ~Touches(o)
  <2>1. PICK t \in OwnOrGlobal(p, s), c \in ColumnIds :
           /\ columns[c] = None
           /\ \E x : columns' = [columns EXCEPT ![c] = x] /\ x.table = t
    BY <1>3 DEF AddUserTableColumn
  <2>2. UNCHANGED <<tables, rows, values>>
    BY <1>3 DEF AddUserTableColumn
  <2>3. columns'[c].table = t
        /\ \A y \in ColumnIds \ {c} : columns'[y] = columns[y]
    BY <2>1 DEF IInv, TypeOK
  <2>4. ~HoldsTable(o, t) /\ ~HoldsTable(o, t)'
    BY <1>named, <2>1, <2>2 DEF HasTable
  <2> QED BY <2>1, <2>2, <2>3, <2>4 DEF HasColumn
<1>4. ASSUME NEW s \in Slugs, NEW n \in Names, RemoveUserTableColumn(p, s, n)
      PROVE  ~Touches(o)
  <2>1. PICK t \in OwnOrGlobal(p, s), c \in ColumnIds :
           /\ c \in ColumnsOf(t)
           /\ columns' = [columns EXCEPT ![c] = Gone]
           /\ values' = [r \in RowIds |-> [values[r] EXCEPT ![c] = None]]
    BY <1>4 DEF RemoveUserTableColumn, ColumnsOf
  <2>2. UNCHANGED <<tables, rows>>
    BY <1>4 DEF RemoveUserTableColumn
  <2>3. columns'[c] = Gone /\ columns[c].table = t /\ c \in ColumnIds
        /\ \A y \in ColumnIds \ {c} : columns'[y] = columns[y]
    BY <2>1 DEF IInv, TypeOK, ColumnsOf
  <2>4. ~HoldsTable(o, t) /\ ~HoldsTable(o, t)'
    BY <1>named, <2>1, <2>2 DEF HasTable
  <2>5. ASSUME NEW r \in RowIds, values'[r] # values[r] PROVE rows[r] = t
    <3>1. values[r] \in [ColumnIds -> Stored \cup {None}]
      BY DEF IInv, TypeOK
    <3>2. values[r][c] # None
      BY <2>1, <2>5, <3>1
    <3> QED BY <1>fit, <2>3, <3>2
  <2> QED BY <2>2, <2>3, <2>4, <2>5 DEF HasColumn
<1>5. ASSUME NEW s \in Slugs, NEW r \in RowIds, DeleteUserTableRow(p, s, r)
      PROVE  ~Touches(o)
  <2>1. ~HoldsTable(o, rows[r])
    BY <1>0, <1>5 DEF DeleteUserTableRow, Own
  <2>2. /\ rows'[r] = Gone
        /\ \A q \in RowIds \ {r} : rows'[q] = rows[q] /\ values'[q] = values[q]
        /\ UNCHANGED <<tables, columns>>
    BY <1>5 DEF DeleteUserTableRow, IInv, TypeOK
  <2> QED BY <2>1, <2>2 DEF HasRow
<1>6. ASSUME NEW r \in RowIds, ins[r].org = p, InsertCommit(r)
      PROVE  ~Touches(o)
  <2>1. InsertOK(r) /\ ins[r].pc = "commit"
    BY <1>6 DEF IInv, InsertCommit
  <2>2. ~HasRow(r) /\ ~HoldsTable(o, ins[r].table)
    BY <1>0, <1>6, <2>1 DEF InsertOK, TableOK, HasRow, Busy
  <2>3. /\ rows'[r] = ins[r].table
        /\ \A q \in RowIds \ {r} : rows'[q] = rows[q] /\ values'[q] = values[q]
        /\ UNCHANGED <<tables, columns>>
    BY <1>6 DEF InsertCommit, IInv, TypeOK
  <2> QED BY <2>2, <2>3 DEF HasTable
<1>7. CASE UNCHANGED data
  BY <1>7 DEF data
<1> QED
  <2>1. ASSUME NEW r \in RowIds, InsertSteps(r) \/ InsertCancelled(r)
        PROVE  UNCHANGED data \/ InsertCommit(r)
    BY <2>1 DEF InsertSteps, InsertCancelled, InsertRow, InsertRead,
       InsertValue, InsertIndex, InsertCheck, DeadlockVictim
  <2>2. ASSUME NEW s \in Slugs, NEW x \in Payloads, NEW r \in RowIds,
               InsertStart(p, s, x, r)
        PROVE  UNCHANGED data
    BY <2>2 DEF InsertStart
  <2> QED
    BY <1>1, <1>2, <1>3, <1>4, <1>5, <1>6, <1>7, <2>1, <2>2 DEF Request

(* Organisations do not disturb each other.                                *)
THEOREM OrgsAreApart == Spec => OrgsLeftAlone
<1>1. IInv /\ [Next]_vars =>
         [\A o \in Orgs : Touches(o) => \A p \in Orgs \ {o} : ~Request(p)]_data
  BY RequestTouches DEF data, vars
<1> QED BY <1>1, InvHolds, PTL DEF Spec, OrgsLeftAlone
=============================================================================
