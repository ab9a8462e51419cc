----------------------------- MODULE TableReads -----------------------------
(***************************************************************************)
(* What the handlers under /tables read while others write: searching a    *)
(* table, looking up one row, looking up rows by an indexed field.  A      *)
(* search is several statements: the schema, the rows, and then the labels *)
(* of what the rows refer to.  The statement for the rows sees one moment, *)
(* but app.row_to_json, which it calls for each of them, is a VOLATILE     *)
(* function whose statements each see a later one: it reads the value      *)
(* tables one after the other and last the row itself.  What it makes of a *)
(* row is an object keyed by the names of columns, and so are the schema   *)
(* and the values found to be references: a column made anew under the     *)
(* name of another stands for it.                                          *)
(*                                                                         *)
(* Left out: pages and the order of rows, the listing of tables and of     *)
(* indexed fields, which are one statement each.                           *)
(***************************************************************************)
EXTENDS UserTables, Sequences

CONSTANTS Reads,       \* requests that read
          ReadOrder,   \* the value tables in the order row_to_json reads
                       \* them, those apart that hold nothing
          Title,       \* the name of a column that is preferred as a label
          IdName,      \* "id" and "created_at", which row_to_json adds; they
          CreatedName  \* may be names of columns, too

ASSUME ReadOrderAssumption ==
    /\ ReadOrder \in Seq(Types)
    /\ \A d \in ColumnDefs : \E i \in DOMAIN ReadOrder : ReadOrder[i] = d.type
    /\ \A c \in ColumnIds : SeedColumns[c] # None =>
          \E i \in DOMAIN ReadOrder : ReadOrder[i] = SeedColumns[c].type
ASSUME NoLabelAssumption == None \notin {"label", "null", ""}
ASSUME KeysAssumption == IdName # CreatedName

VARIABLE look          \* every read: where its handler is

readVars == <<vars, look>>

Reading == {"rows", "values", "labels"}

(* The object made of a row: what is under each key, None if it is not     *)
(* there.                                                                  *)
Keys == Names \cup {IdName, CreatedName}
Content == [Keys -> Stored \cup {None}]
NoContent == [k \in Keys |-> None]

Read == [pc : Reading \cup {"new", "ok", "missing", "listed"},
         org : Orgs \cup {None}, slug : Slugs \cup {None},
         schema : SUBSET (Names \X (TableIds \cup {None})),
                                       \* the uuid columns and their tables
         todo : SUBSET RowIds,         \* rows whose values are not read yet
         row : RowIds \cup {None},     \* the row row_to_json is at
         at : 1 .. Len(ReadOrder) + 1,
         content : [RowIds -> Content \cup {None}],
         asked : [TableIds \cup {None} -> SUBSET RowIds],
                                       \* the labels still to ask for
         labels : [RowIds -> {"label", "null", "", None}]]

NobodyAsked == [b \in TableIds \cup {None} |-> {}]

NewRead == [pc |-> "new", org |-> None, slug |-> None, schema |-> {},
            todo |-> {}, row |-> None, at |-> 1,
            content |-> [r \in RowIds |-> None], asked |-> NobodyAsked,
            labels |-> [r \in RowIds |-> None]]

ReadsTypeOK == look \in [Reads -> Read]

ReadsInit == Init /\ look = [s \in Reads |-> NewRead]

-----------------------------------------------------------------------------
Goes(s, l) == look' = [look EXCEPT ![s] = l]

(* A read takes no lock that a writer waits for.                           *)
OnlyReads == UNCHANGED vars

Owned(o, t) == HasTable(t) /\ tables[t].org = o

(* The columns a label may come from, best first: one called title, then   *)
(* an indexed one, then the oldest, which the ids do not tell here.        *)
LabelColumns(t, field) ==
    {c \in ColumnsOf(t) : /\ columns[c].type \in {"text", "enum"}
                          /\ field \in {None, columns[c].name}}

LabelRank(c) == (IF columns[c].name = Title THEN 0 ELSE 2)
                  + (IF columns[c].indexed THEN 0 ELSE 1)

BestLabels(t, field) ==
    {c \in LabelColumns(t, field) :
        \A d \in LabelColumns(t, field) : LabelRank(c) <= LabelRank(d)}

(* toString makes the text "null" of a label that is NULL.                 *)
LabelText(v) == IF v = "scalar" THEN "label" ELSE "null"

(* What a row is labelled with, if it is in a table of the organisation.   *)
LabelOf(q) ==
    LET best == BestLabels(rows[q], None)
    IN IF best = {} THEN {"null"} ELSE {LabelText(values[q][c]) : c \in best}

-----------------------------------------------------------------------------
(* POST /tables/{table}/search                                             *)

(* GetUserTableSchema, also of a table of no organisation.                 *)
SearchSchema(s) ==
    /\ look[s].pc = "new"
    /\ \E o \in Orgs, slug \in Slugs :
          LET there == UNION {ColumnsOf(t) : t \in OwnOrGlobal(o, slug)}
              uuids == {c \in there : columns[c].type = "uuid"}
          IN Goes(s, [NewRead EXCEPT !.pc = "rows", !.org = o, !.slug = slug,
                         !.schema = {<<columns[c].name, columns[c].refTable>> :
                                        c \in uuids}])
    /\ OnlyReads

(* A filter asks for a value of the column of its name, of the rows whose  *)
(* values are alike.  A lax one is of an operation that is not known, which*)
(* any value of a text or enum passes, or asks for a bool that is NULL.    *)
(* One on a name the table does not have, or on another type, lets every   *)
(* row pass.                                                               *)
Matches(t, r, n, alike, lax) ==
    \A c \in ColumnsOf(t) :
        columns[c].name = n /\ columns[c].type \in {"text", "enum", "bool"} =>
            \/ values[r][c] = "scalar" /\ r \in alike
            \/ /\ n \in lax /\ values[r][c] # None
               /\ columns[c].type = "bool" => values[r][c] = "null"

(* Several filters are alternatives.                                       *)
Found(t, filters, alike, lax) ==
    {r \in RowsOf(t) :
        filters = {} \/ \E n \in filters : Matches(t, r, n, alike, lax)}

Starts(s, found) ==
    Goes(s, [look[s] EXCEPT !.pc = "values", !.todo = found])

(* Mutant: the table is looked for as for the schema.                      *)
SearchRowsOwnOrGlobal(s) ==
    /\ look[s].pc = "rows"
    /\ \E filters \in SUBSET Names, alike \in SUBSET RowIds :
          \E lax \in SUBSET filters :
             Starts(s, UNION {Found(t, filters, alike, lax) :
                                 t \in OwnOrGlobal(look[s].org, look[s].slug)})
    /\ OnlyReads

(* SearchUserTable, of a table of the organisation only.                   *)
SearchRows(s) ==
    /\ look[s].pc = "rows"
    /\ \E filters \in SUBSET Names, alike \in SUBSET RowIds :
          \E lax \in SUBSET filters :
             Starts(s, UNION {Found(t, filters, alike, lax) :
                                 t \in Own(look[s].org, look[s].slug)})
    /\ OnlyReads

-----------------------------------------------------------------------------
(* app.row_to_json, for one row after the other.                           *)
NextRow(s) ==
    /\ look[s].pc = "values" /\ look[s].row = None
    /\ \E r \in look[s].todo :
          Goes(s, [look[s] EXCEPT !.todo = @ \ {r}, !.row = r, !.at = 1,
                                  !.content[r] = NoContent])
    /\ OnlyReads

(* The value of a row, in the value table of a type, of a column that is   *)
(* called k now.                                                           *)
ValuesNamed(r, ty, k) ==
    {values[r][c] : c \in {d \in ColumnIds :
        /\ HasColumn(d) /\ columns[d].type = ty /\ columns[d].name = k
        /\ values[r][d] # None}}

(* The values of one value table, merged over those of the ones before.    *)
ReadValues(s) ==
    LET r == look[s].row  i == look[s].at
        found == [k \in Keys |-> ValuesNamed(r, ReadOrder[i], k)]
    IN /\ look[s].pc = "values" /\ r # None /\ i <= Len(ReadOrder)
       /\ Goes(s, [look[s] EXCEPT
             !.at = i + 1,
             !.content[r] = [k \in Keys |->
                IF found[k] = {} THEN @[k] ELSE CHOOSE v \in found[k] : TRUE]])
       /\ OnlyReads

(* Id and time of creation replace what columns of these names had.        *)
WithMetadata(x, r) == [x EXCEPT ![IdName] = r, ![CreatedName] = "scalar"]

(* Mutant: the id is that of the argument, not of the row.                 *)
ReadIdAsGiven(s) ==
    LET r == look[s].row
    IN /\ look[s].pc = "values" /\ r # None /\ look[s].at > Len(ReadOrder)
       /\ Goes(s, [look[s] EXCEPT !.row = None,
                                  !.content[r] = WithMetadata(@, r)])
       /\ OnlyReads

(* Last the row.  The SELECT INTO that finds none sets the result to NULL, *)
(* and what has been collected is gone.                                    *)
ReadId(s) ==
    LET r == look[s].row
    IN /\ look[s].pc = "values" /\ r # None /\ look[s].at > Len(ReadOrder)
       /\ Goes(s, [look[s] EXCEPT
             !.row = None,
             !.content[r] = IF HasRow(r) THEN WithMetadata(@, r) ELSE NoContent])
       /\ OnlyReads

-----------------------------------------------------------------------------
(* What is under the names the schema has as uuid columns of a table: the  *)
(* ids there, ...                                                          *)
Referred(l, b) ==
    {q \in RowIds : \E r \in RowIds, n \in Names :
        l.content[r] # None /\ l.content[r][n] = q /\ <<n, b>> \in l.schema}

(* ... and the texts, of a column made anew under the name.  Each may read *)
(* as an id; the time of creation does not.                                *)
Texts(l, b) ==
    {x \in RowIds \X (Names \ {CreatedName}) :
        /\ l.content[x[1]] # None /\ l.content[x[1]][x[2]] = "scalar"
        /\ <<x[2], b>> \in l.schema}

(* All rows are there: the labels to ask for, by the table the schema has  *)
(* for the column; without one the table is found out.                     *)
SearchBatches(s) ==
    /\ look[s].pc = "values" /\ look[s].row = None /\ look[s].todo = {}
    /\ \E parsed \in [TableIds \cup {None} -> SUBSET RowIds] :
          /\ \A b \in TableIds \cup {None} :
                Cardinality(parsed[b]) <= Cardinality(Texts(look[s], b))
          /\ Goes(s, [look[s] EXCEPT
                !.pc = "labels",
                !.asked = [b \in TableIds \cup {None} |->
                              Referred(look[s], b) \cup parsed[b]]])
    /\ OnlyReads

(* BatchGetRowLabels per table, in any order, then BatchGetRowLabelsAuto.  *)
(* If one fails its rows have no label.                                    *)
SearchLabels(s) ==
    LET l == look[s]
    IN /\ l.pc = "labels"
       /\ \E b \in TableIds \cup {None} :
             LET has == {q \in l.asked[b] :
                            /\ HasRow(q) /\ Owned(l.org, rows[q])
                            /\ b # None => rows[q] = b}
             IN /\ l.asked[b] # {}
                /\ b = None => \A t \in TableIds : l.asked[t] = {}
                /\ \/ Goes(s, [l EXCEPT !.asked[b] = {}])
                   \/ \E text \in [has -> UNION {LabelOf(q) : q \in has}] :
                         /\ \A q \in has : text[q] \in LabelOf(q)
                         /\ Goes(s, [l EXCEPT
                               !.asked[b] = {},
                               !.labels = [q \in RowIds |->
                                  IF q \in has THEN text[q] ELSE @[q]]])
       /\ OnlyReads

SearchAnswer(s) ==
    /\ look[s].pc = "labels" /\ look[s].asked = NobodyAsked
    /\ Goes(s, [look[s] EXCEPT !.pc = "ok"])
    /\ OnlyReads

-----------------------------------------------------------------------------
(* POST /tables/rows/lookup: GetRowData finds rows of the organisation's   *)
(* tables only.                                                            *)
LookupRow(s) ==
    /\ look[s].pc = "new"
    /\ \E o \in Orgs, r \in RowIds :
          Goes(s, IF HasRow(r) /\ Owned(o, rows[r])
                  THEN [NewRead EXCEPT !.pc = "values", !.org = o, !.todo = {r}]
                  ELSE [NewRead EXCEPT !.pc = "missing"])
    /\ OnlyReads

(* Mutant: the stored value as it is.                                      *)
IndexedTextRaw(v) == v

(* The String of a pgtype.Text is empty for NULL.                          *)
IndexedText(v) == IF v = "scalar" THEN "label" ELSE ""

(* POST /tables/{table}/rows/indexed, also of a table of no organisation:  *)
(* the rows with a value in the column asked for, or the one labels come   *)
(* from, and that value.                                                   *)
LookupIndexed(s) ==
    /\ look[s].pc = "new"
    /\ \E o \in Orgs, slug \in Slugs, field \in Names \cup {None}, like \in BOOLEAN :
          LET best == UNION {BestLabels(t, field) : t \in OwnOrGlobal(o, slug)}
          IN \E col \in best \cup {None} :
                /\ col = None => best = {}
                /\ Goes(s, [NewRead EXCEPT !.pc = "listed", !.org = o,
                      !.labels = [q \in RowIds |->
                         IF \/ col = None \/ values[q][col] = None
                            \/ like /\ values[q][col] # "scalar"
                         THEN None ELSE IndexedText(values[q][col])]])
    /\ OnlyReads

ReadStep(s) == \/ SearchSchema(s) \/ SearchRows(s) \/ NextRow(s)
               \/ ReadValues(s) \/ ReadId(s) \/ SearchBatches(s)
               \/ SearchLabels(s) \/ SearchAnswer(s) \/ LookupRow(s)
               \/ LookupIndexed(s)

ReadsNext == \/ Next /\ UNCHANGED look
             \/ \E s \in Reads : ReadStep(s)

ReadsSpec == ReadsInit /\ [][ReadsNext]_readVars

-----------------------------------------------------------------------------
(* Rows and labels that a search or the look-up of a row shows are of      *)
(* tables of the organisation that asked, although the schema may be of a  *)
(* table of no organisation, the labels are of rows other tables hold, and *)
(* a value may be taken for an id because of the name of its column.       *)
(*                                                                         *)
(* The look-up by an index shows nothing of a table another organisation   *)
(* owns, but the rows of a table of no organisation, whoever inserted them:*)
(* it does not keep to the tables of the organisation.                     *)
ReadsStayHome ==
    \A s \in Reads, r \in RowIds :
        /\ look[s].content[r] # None \/ look[s].labels[r] # None
        /\ HasRow(r)
        => \/ Owned(look[s].org, rows[r])
           \/ look[s].pc = "listed" /\ Owned(Global, rows[r])

(* Over all the statements of row_to_json, a row that is there at the end  *)
(* has been read whole: its id, and under the name of every column there   *)
(* is by then the value the row has in it, but for columns called like the *)
(* id and the time of creation, whose values are lost.  A row deleted in   *)
(* between leaves nothing.                                                 *)
Whole(x, r) ==
    /\ x[IdName] = r
    /\ \A c \in ColumnIds :
          /\ HasColumn(c) /\ values[r][c] # None
          /\ columns[c].name \notin {IdName, CreatedName}
          => x[columns[c].name] = values[r][c]

WholeOrEmpty ==
    [][\A s \in Reads, r \in RowIds :
          look[s].row = r /\ look'[s].row # r =>
              IF HasRow(r) THEN Whole(look'[s].content[r], r)
                           ELSE look'[s].content[r] = NoContent
      ]_readVars
=============================================================================
