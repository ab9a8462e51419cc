----------------------------- MODULE UserTables -----------------------------
(***************************************************************************)
(* The user-defined tables of an organisation, stored as entities,         *)
(* attributes and values: tables, columns, rows and a value for a row and  *)
(* a column (six value tables, one per type).  The handlers under /tables  *)
(* send one statement each.  All but the insertion of a row are atomic;    *)
(* the insertion runs app.insert_row, whose inner statements each see what *)
(* others have committed meanwhile, and takes locks as it goes:            *)
(*   - inserting a row or a value locks the rows its foreign keys name, so *)
(*     that whoever wants to delete them waits,                            *)
(*   - inserting a value locks its value table against index creation,     *)
(*   - ensure_index locks the value table against writers.                 *)
(* A row is named by the request that inserts it, its id being random.     *)
(***************************************************************************)
EXTENDS Integers, FiniteSets

CONSTANTS Orgs, Slugs,
          TableIds, ColumnIds, RowIds,   \* ids, each used at most once
          Names,         \* column names, in the order jsonb_each yields them
          ColumnDefs,    \* what clients send to add a column
          Payloads,      \* what clients send to insert a row
          SeedTables,    \* the tables the migrations create, of no organisation
          SeedColumns,
          Global,        \* the NULL in org_id
          None,          \* NULL, or an id not used yet
          Gone           \* an id whose row has been deleted

Types == {"text", "date", "bool", "enum", "uuid", "float"}

Inputs == {"null", "scalar", "malformed"} \cup RowIds
Stored == {"null", "scalar"} \cup RowIds

Table == [org : Orgs \cup {Global}, slug : Slugs]
ColumnDef == [name : Names, type : Types, required : BOOLEAN, indexed : BOOLEAN,
              isRef : BOOLEAN, ref : Slugs \cup {None}, different : BOOLEAN]
Column == [table : TableIds, name : Names, type : Types, required : BOOLEAN,
           indexed : BOOLEAN, isRef : BOOLEAN, refTable : TableIds \cup {None},
           different : BOOLEAN]

ASSUME NamesAssumption == Names \subseteq Nat
ASSUME ClientsAssumption == /\ ColumnDefs \subseteq ColumnDef
                            /\ \A p \in Payloads : /\ DOMAIN p \subseteq Names
                                                   /\ \A n \in DOMAIN p : p[n] \in Inputs
ASSUME SeedAssumption ==
    /\ SeedTables \in [TableIds -> Table \cup {None}]
    /\ SeedColumns \in [ColumnIds -> Column \cup {None}]
    /\ \A t \in TableIds : SeedTables[t] # None => SeedTables[t].org = Global
    /\ \A c \in ColumnIds : SeedColumns[c] # None =>
          /\ SeedTables[SeedColumns[c].table] # None
          /\ SeedColumns[c].refTable # None =>
                SeedTables[SeedColumns[c].refTable] # None
    /\ \A c, d \in ColumnIds :
          /\ SeedColumns[c] # None /\ SeedColumns[d] # None
          /\ SeedColumns[c].table = SeedColumns[d].table
          /\ SeedColumns[c].name = SeedColumns[d].name
          => c = d

(* NULL and the mark of what is gone are no ids and no values.             *)
ASSUME MarksAssumption ==
    /\ None # Gone
    /\ {None, Gone} \cap (Table \cup Column) = {}
    /\ {None, Gone} \cap (TableIds \cup ColumnIds \cup RowIds) = {}
    /\ {None, Gone, "null", "scalar"} \cap RowIds = {}
    /\ None \notin {"null", "scalar"}
    /\ Global \notin Orgs

VARIABLES tables,    \* app.tables by id
          columns,   \* app.columns by id
          rows,      \* app.rows: the table of each row
          values,    \* app.values_*: by row and column, None if there is none
          ins        \* the insertion that makes each row

data == <<tables, columns, rows, values>>
vars == <<tables, columns, rows, values, ins>>

Busy == {"row", "read", "write", "index", "check", "commit"}
NoValues == [c \in ColumnIds |-> None]

(* What an insertion has done so far; nobody else sees it.  due is what it *)
(* has to fill: the columns required when it began and, once it has looked *)
(* for them, those required by then; it is kept when the insertion is over.*)
Insertion == [pc : Busy \cup {"new", "committed", "failed"},
              org : Orgs \cup {None}, table : TableIds \cup {None},
              todo : SUBSET Names, payload : Payloads \cup {None},
              col : ColumnIds \cup {None},
              vals : [ColumnIds -> Stored \cup {None}],
              share : SUBSET Types, due : SUBSET ColumnIds]

New == [pc |-> "new", org |-> None, table |-> None, todo |-> {},
        payload |-> None, col |-> None, vals |-> NoValues, share |-> {},
        due |-> {}]

TypeOK == /\ tables \in [TableIds -> Table \cup {None, Gone}]
          /\ columns \in [ColumnIds -> Column \cup {None, Gone}]
          /\ rows \in [RowIds -> TableIds \cup {None, Gone}]
          /\ values \in [RowIds -> [ColumnIds -> Stored \cup {None}]]
          /\ ins \in [RowIds -> Insertion]

Init == /\ tables = SeedTables
        /\ columns = SeedColumns
        /\ rows = [r \in RowIds |-> None]
        /\ values = [r \in RowIds |-> NoValues]
        /\ ins = [r \in RowIds |-> New]

-----------------------------------------------------------------------------
HasTable(t) == tables[t] \notin {None, Gone}
HasColumn(c) == columns[c] \notin {None, Gone}
HasRow(r) == rows[r] \notin {None, Gone}

(* The tables a name stands for: the organisation's own, ...               *)
Own(o, s) == {t \in TableIds : HasTable(t) /\ tables[t] = [org |-> o, slug |-> s]}

(* ... or, for some of the statements, one of no organisation.             *)
OwnOrGlobal(o, s) == IF Own(o, s) # {} THEN Own(o, s) ELSE Own(Global, s)

ColumnsOf(t) == {c \in ColumnIds : HasColumn(c) /\ columns[c].table = t}
RowsOf(t) == {r \in RowIds : rows[r] = t}

Required(t) == {c \in ColumnsOf(t) : columns[c].required}

(* Locks of insertions under way.                                          *)
Open(r) == ins[r].pc \in Busy \ {"row"}
LocksTable(r, t) == Open(r) /\ ins[r].table = t
LocksColumn(r, c) == ins[r].vals[c] # None
LocksRow(r, q) == \E c \in ColumnIds : ins[r].vals[c] = q
Writes(r, ty) == \E c \in ColumnIds :
                    LocksColumn(r, c) /\ HasColumn(c) /\ columns[c].type = ty
Indexes(r, ty) == ty \in ins[r].share

(* Deleting columns or rows writes to every value table.                   *)
ValueTablesFree == \A r \in RowIds : ins[r].share = {}

-----------------------------------------------------------------------------
(* Statements that are atomic.                                             *)

(* ON CONFLICT DO NOTHING: a table of that slug stays as it is.            *)
CreateUserTable(o, s) ==
    /\ Own(o, s) = {}
    /\ \E t \in TableIds :
          /\ tables[t] = None
          /\ tables' = [tables EXCEPT ![t] = [org |-> o, slug |-> s]]
    /\ UNCHANGED <<columns, rows, values, ins>>

(* Mutant: the table is looked for like in the other statements.           *)
DeleteUserTableAnyOrg(o, s) ==
    \E p \in Orgs : \E t \in Own(p, s) :
        /\ \A r \in RowIds : ~LocksTable(r, t)
        /\ ValueTablesFree
        /\ tables' = [tables EXCEPT ![t] = Gone]
        /\ columns' = [c \in ColumnIds |->
                         IF c \in ColumnsOf(t) THEN Gone ELSE columns[c]]
        /\ rows' = [r \in RowIds |-> IF r \in RowsOf(t) THEN Gone ELSE rows[r]]
        /\ values' = [r \in RowIds |->
                        [c \in ColumnIds |->
                           IF c \in ColumnsOf(t) \/ r \in RowsOf(t)
                           THEN None ELSE values[r][c]]]
        /\ UNCHANGED ins

(* CASCADE takes the columns, with their values, and then the rows with    *)
(* it; RESTRICT keeps it if a column of another table names it or a value  *)
(* of another table one of its rows.                                       *)
DeleteUserTable(o, s) ==
    \E t \in Own(o, s) :
        /\ \A r \in RowIds : ~LocksTable(r, t)
        /\ \A r \in RowIds, q \in RowsOf(t) : ~LocksRow(r, q)
        /\ ColumnsOf(t) \cup RowsOf(t) # {} => ValueTablesFree
        /\ \A c \in ColumnIds \ ColumnsOf(t) :
              HasColumn(c) => columns[c].refTable # t
        /\ \A r \in RowIds, c \in ColumnIds \ ColumnsOf(t) :
              values[r][c] \notin RowsOf(t)
        /\ tables' = [tables EXCEPT ![t] = Gone]
        /\ columns' = [c \in ColumnIds |->
                         IF c \in ColumnsOf(t) THEN Gone ELSE columns[c]]
        /\ rows' = [r \in RowIds |-> IF r \in RowsOf(t) THEN Gone ELSE rows[r]]
        /\ values' = [r \in RowIds |->
                        [c \in ColumnIds |->
                           IF c \in ColumnsOf(t) \/ r \in RowsOf(t)
                           THEN None ELSE values[r][c]]]
        /\ UNCHANGED ins

(* The name of the referenced table is resolved now; one that names        *)
(* nothing is stored as NULL.  Adding an indexed column creates the index  *)
(* (trigger), for which nobody may be writing to the value table.          *)
AddUserTableColumn(o, s, d) ==
    \E t \in OwnOrGlobal(o, s) :
        /\ \A c \in ColumnsOf(t) : columns[c].name # d.name
        /\ d.isRef => d.type = "uuid"
        /\ d.indexed /\ d.type # "float" => \A r \in RowIds : ~Writes(r, d.type)
        /\ \E c \in ColumnIds,
              ref \in IF d.ref = None \/ OwnOrGlobal(o, d.ref) = {}
                      THEN {None} ELSE OwnOrGlobal(o, d.ref) :
              /\ columns[c] = None
              /\ columns' = [columns EXCEPT ![c] =
                    [table |-> t, name |-> d.name, type |-> d.type,
                     required |-> d.required, indexed |-> d.indexed,
                     isRef |-> d.isRef, refTable |-> ref,
                     different |-> d.different]]
    /\ UNCHANGED <<tables, rows, values, ins>>

(* Mutant: an insertion that has written to a column does not keep it.     *)
RemoveColumnUnderInsert(o, s, n) ==
    \E t \in OwnOrGlobal(o, s) : \E c \in ColumnsOf(t) :
        /\ columns[c].name = n
        /\ columns' = [columns EXCEPT ![c] = Gone]
        /\ values' = [r \in RowIds |-> [values[r] EXCEPT ![c] = None]]
        /\ UNCHANGED <<tables, rows, ins>>

RemoveUserTableColumn(o, s, n) ==
    \E t \in OwnOrGlobal(o, s) : \E c \in ColumnsOf(t) :
        /\ columns[c].name = n
        /\ \A r \in RowIds : ~LocksColumn(r, c)
        /\ ValueTablesFree
        /\ columns' = [columns EXCEPT ![c] = Gone]
        /\ values' = [r \in RowIds |-> [values[r] EXCEPT ![c] = None]]
        /\ UNCHANGED <<tables, rows, ins>>

DeleteUserTableRow(o, s, r) ==
    /\ rows[r] \in Own(o, s)
    /\ \A q \in RowIds : ~LocksRow(q, r)
    /\ ValueTablesFree
    /\ \A q \in RowIds, c \in ColumnIds : values[q][c] # r
    /\ rows' = [rows EXCEPT ![r] = Gone]
    /\ values' = [values EXCEPT ![r] = NoValues]
    /\ UNCHANGED <<tables, columns, ins>>

-----------------------------------------------------------------------------
(* Inserting a row.                                                        *)
Step(r, i) == ins' = [ins EXCEPT ![r] = i]

(* An exception rolls back all the insertion did.                          *)
Fails(r) == Step(r, [New EXCEPT !.pc = "failed"])

(* After a column: the next name, or the final check.                      *)
NextKey(i) == IF i.todo = {} THEN "check" ELSE "read"

(* The name of the table is resolved; one that names nothing is refused    *)
(* (table_id is NOT NULL) before anything happens.                         *)
InsertStart(o, s, p, r) ==
    /\ ins[r].pc = "new"
    /\ \E t \in OwnOrGlobal(o, s) :
          Step(r, [New EXCEPT !.pc = "row", !.org = o, !.table = t,
                              !.payload = p, !.todo = DOMAIN p,
                              !.due = Required(t)])
    /\ UNCHANGED data

(* INSERT INTO app.rows, with its foreign key on the table.                *)
InsertRow(r) ==
    /\ ins[r].pc = "row"
    /\ IF HasTable(ins[r].table)
       THEN Step(r, [ins[r] EXCEPT !.pc = NextKey(ins[r])])
       ELSE Fails(r)
    /\ UNCHANGED data

Key(r) == CHOOSE n \in ins[r].todo : \A m \in ins[r].todo : n <= m
Input(r) == ins[r].payload[Key(r)]

(* The column of the next name, and that a required one is not null.       *)
InsertRead(r) ==
    /\ ins[r].pc = "read"
    /\ LET found == {c \in ColumnsOf(ins[r].table) : columns[c].name = Key(r)}
       IN \/ \E c \in found :
                IF columns[c].required /\ Input(r) = "null" THEN Fails(r)
                ELSE Step(r, [ins[r] EXCEPT !.pc = "write", !.col = c])
          \/ found = {} /\ Fails(r)
    /\ UNCHANGED data

(* The trigger enforce_uuid_reference, for a value q in a row of table t.  *)
ReferenceAllowed(c, t, q) ==
    columns[c].isRef => /\ columns[c].refTable \in {None, rows[q]}
                        /\ columns[c].different => rows[q] # t

(* Mutant: no trigger on uuid values.                                      *)
AcceptsAnyRow(c, t, v) ==
    \/ v = "null"
    \/ columns[c].type = "text"
    \/ columns[c].type \notin {"text", "uuid"} /\ v = "scalar"
    \/ columns[c].type = "uuid" /\ v \in RowIds /\ HasRow(v)

(* The cast to the column's type, the trigger enforce_enum, the foreign    *)
(* key on the referenced row.                                              *)
Accepts(c, t, v) ==
    \/ v = "null"
    \/ columns[c].type = "text"
    \/ columns[c].type \notin {"text", "uuid"} /\ v = "scalar"
    \/ /\ columns[c].type = "uuid" /\ v \in RowIds /\ HasRow(v)
       /\ ReferenceAllowed(c, t, v)

(* Mutant: the input is stored unconverted.                                *)
StoredAsIs(c, v) == v

(* Text takes what is a row's id or malformed elsewhere as it is.          *)
StoredAs(c, v) ==
    IF columns[c].type = "uuid" \/ v = "null" THEN v ELSE "scalar"

InsertValue(r) ==
    LET c == ins[r].col
        done == [ins[r] EXCEPT !.vals[c] = StoredAs(c, Input(r)),
                               !.todo = @ \ {Key(r)}]
    IN /\ ins[r].pc = "write"
       /\ HasColumn(c) => \A q \in RowIds \ {r} : ~Indexes(q, columns[c].type)
       /\ IF ~(HasColumn(c) /\ Accepts(c, ins[r].table, Input(r))) THEN Fails(r)
          ELSE IF columns[c].indexed /\ columns[c].type # "float"
          THEN Step(r, [done EXCEPT !.pc = "index"])
          ELSE Step(r, [done EXCEPT !.pc = NextKey(done), !.col = None])
       /\ UNCHANGED data

(* ensure_index: also if the index is there, CREATE INDEX waits for the    *)
(* writers of the value table, and keeps them out until the commit.        *)
InsertIndex(r) ==
    LET c == ins[r].col
    IN /\ ins[r].pc = "index"
       /\ IF HasColumn(c)
          THEN /\ \A q \in RowIds \ {r} : ~Writes(q, columns[c].type)
               /\ Step(r, [ins[r] EXCEPT !.pc = NextKey(ins[r]), !.col = None,
                                         !.share = @ \cup {columns[c].type}])
          ELSE Fails(r)
       /\ UNCHANGED data

(* Mutant: no final pass.                                                  *)
InsertCheckSkipped(r) ==
    /\ ins[r].pc = "check"
    /\ Step(r, [ins[r] EXCEPT !.pc = "commit",
                              !.due = @ \cup Required(ins[r].table)])
    /\ UNCHANGED data

(* The final pass over what is required by now does not look for floats.   *)
InsertCheck(r) ==
    /\ ins[r].pc = "check"
    /\ IF \A c \in Required(ins[r].table) :
             ins[r].vals[c] # None /\ columns[c].type # "float"
       THEN Step(r, [ins[r] EXCEPT !.pc = "commit",
                                   !.due = @ \cup Required(ins[r].table)])
       ELSE Fails(r)
    /\ UNCHANGED data

InsertCommit(r) ==
    /\ ins[r].pc = "commit"
    /\ rows' = [rows EXCEPT ![r] = ins[r].table]
    /\ values' = [values EXCEPT ![r] = ins[r].vals]
    /\ Step(r, [New EXCEPT !.pc = "committed", !.due = ins[r].due])
    /\ UNCHANGED <<tables, columns>>

(* The client goes away or the server stops: rolled back.                  *)
InsertCancelled(r) ==
    /\ ins[r].pc \in Busy
    /\ Fails(r)
    /\ UNCHANGED data

(* Insertion r waits for a lock q holds; one on a cycle of those that wait *)
(* is rolled back by the database after deadlock_timeout.                  *)
WaitsFor(r, q) ==
    /\ q # r
    /\ \/ ins[r].pc = "write" /\ HasColumn(ins[r].col)
             /\ Indexes(q, columns[ins[r].col].type)
       \/ ins[r].pc = "index" /\ Writes(q, columns[ins[r].col].type)

(* Mutant: nobody looks for cycles.                                        *)
OnCycleNever(r) == FALSE

OnCycle(r) ==
    \E S \in SUBSET RowIds :
        /\ {r} \subseteq S /\ S # {r}
        /\ \A T \in SUBSET S \ {{}, S} : \E q \in T, p \in S \ T : WaitsFor(q, p)

DeadlockVictim(r) ==
    /\ ins[r].pc \in {"write", "index"}
    /\ OnCycle(r)
    /\ Fails(r)
    /\ UNCHANGED data

-----------------------------------------------------------------------------
InsertSteps(r) == \/ InsertRow(r) \/ InsertRead(r) \/ InsertValue(r)
                  \/ InsertIndex(r) \/ InsertCheck(r) \/ InsertCommit(r)
                  \/ DeadlockVictim(r)

(* What requests of organisation o do.                                     *)
Request(o) ==
    \/ \E s \in Slugs :
          \/ CreateUserTable(o, s)
          \/ DeleteUserTable(o, s)
          \/ \E d \in ColumnDefs : AddUserTableColumn(o, s, d)
          \/ \E n \in Names : RemoveUserTableColumn(o, s, n)
          \/ \E r \in RowIds : \/ DeleteUserTableRow(o, s, r)
                               \/ \E p \in Payloads : InsertStart(o, s, p, r)
    \/ \E r \in RowIds : /\ ins[r].org = o
                         /\ InsertSteps(r) \/ InsertCancelled(r)

Next == \E o \in Orgs : Request(o)

Spec == Init /\ [][Next]_vars

(* A statement that waits for no lock goes on, and PostgreSQL breaks       *)
(* deadlocks.                                                              *)
FairSpec == Spec /\ \A r \in RowIds : WF_vars(InsertSteps(r))

-----------------------------------------------------------------------------
(* A value is where it belongs: in a column, and a row, of one table.  A   *)
(* column that an insertion has written to is not removed before it ends;  *)
(* one that it has only read may be, and then the insertion fails; and a   *)
(* removal leaves no values behind.                                        *)
ValuesFit ==
    \A r \in RowIds, c \in ColumnIds :
        values[r][c] # None =>
            /\ HasRow(r) /\ HasColumn(c) /\ columns[c].table = rows[r]
            /\ values[r][c] \in RowIds => columns[c].type = "uuid"
            /\ values[r][c] = "scalar" => columns[c].type # "uuid"

(* A reference points to a row that exists, in the table its column names, *)
(* and in another table if the column says so: checked when the value is   *)
(* written, committed later, with deletions in between.                    *)
ReferencesHold ==
    \A r \in RowIds, c \in ColumnIds :
        values[r][c] \in RowIds => /\ HasRow(values[r][c])
                                   /\ ReferenceAllowed(c, rows[r], values[r][c])

(* A row has a value in every column that was required when its insertion  *)
(* began or that had become required by its final pass, unless the column  *)
(* has been removed.                                                       *)
RequiredFilled ==
    \A r \in RowIds : HasRow(r) =>
        \A c \in ins[r].due : HasColumn(c) => values[r][c] \notin {None, "null"}

(* What belongs to an organisation.                                        *)
HoldsTable(o, t) == HasTable(t) /\ tables[t].org = o
HoldsColumn(o, c) == HasColumn(c) /\ HoldsTable(o, columns[c].table)
HoldsRow(o, r) == HasRow(r) /\ HoldsTable(o, rows[r])

Touches(o) ==
    \/ \E t \in TableIds : /\ tables'[t] # tables[t]
                           /\ HoldsTable(o, t) \/ HoldsTable(o, t)'
    \/ \E c \in ColumnIds : /\ columns'[c] # columns[c]
                            /\ HoldsColumn(o, c) \/ HoldsColumn(o, c)'
    \/ \E r \in RowIds : /\ <<rows[r], values[r]>>' # <<rows[r], values[r]>>
                         /\ HoldsRow(o, r) \/ HoldsRow(o, r)'

(* A request of one organisation leaves the tables, columns, rows and      *)
(* values of every other one as they are: also the deletions that cascade, *)
(* and those of a table both can name.                                     *)
OrgsLeftAlone ==
    [][\A o \in Orgs : Touches(o) => \A p \in Orgs \ {o} : ~Request(p)]_data

(* Every insertion ends, whatever locks the others hold.                   *)
InsertionsEnd ==
    \A r \in RowIds : ins[r].pc \in Busy ~> ins[r].pc \in {"committed", "failed"}
=============================================================================
