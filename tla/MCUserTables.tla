---------------------------- MODULE MCUserTables ----------------------------
(* UserTables with one table from the migrations, which has a reference to *)
(* itself or a required text, and a few definitions.                       *)
EXTENDS UserTables, TLC

CONSTANTS people, tasks, gp, gc, r1, r2

Assignee == [name |-> 2, type |-> "uuid", required |-> FALSE, indexed |-> FALSE,
             isRef |-> TRUE, ref |-> people, different |-> TRUE]

Seeded == [t \in TableIds |-> IF t = gp THEN [org |-> Global, slug |-> people]
                                        ELSE None]
SeededColumns ==
    [c \in ColumnIds |->
       IF c = gc THEN [table |-> gp, name |-> 2, type |-> "uuid",
                       required |-> FALSE, indexed |-> FALSE, isRef |-> TRUE,
                       refTable |-> gp, different |-> FALSE]
       ELSE None]

Title == [name |-> 1, type |-> "text", required |-> TRUE, indexed |-> TRUE,
          isRef |-> FALSE, ref |-> None, different |-> FALSE]

Parent == [name |-> 2, type |-> "uuid", required |-> TRUE, indexed |-> FALSE,
           isRef |-> TRUE, ref |-> people, different |-> FALSE]

Defs == {Assignee, Parent, Title}

Rows == {<<>>, (1 :> "malformed"), (2 :> r1)}

(* For the locks: a required column and another one, both indexed.         *)
SeededText ==
    [c \in ColumnIds |->
       IF c = gc THEN [table |-> gp, name |-> 1, type |-> "text",
                       required |-> TRUE, indexed |-> TRUE, isRef |-> FALSE,
                       refTable |-> None, different |-> FALSE]
       ELSE None]

Status == [name |-> 2, type |-> "enum", required |-> FALSE, indexed |-> TRUE,
           isRef |-> FALSE, ref |-> None, different |-> FALSE]

LockDefs == {Status}

LockRows == {(1 :> "null"), <<"scalar", "scalar">>, <<"scalar", "malformed">>}

Symmetry == Permutations(Orgs) \cup Permutations(TableIds \ {gp})
              \cup Permutations(ColumnIds \ {gc})
=============================================================================
