---------------------------- MODULE MCTableReads ----------------------------
(* TableReads over one table from the migrations and one of the            *)
(* organisation's own, with two columns out of a reference, a text of the  *)
(* same name and a text called id.                                         *)
EXTENDS TableReads, TLC

CONSTANTS people, gp, r1, r2

Seeded == [t \in TableIds |-> IF t = gp THEN [org |-> Global, slug |-> people]
                                        ELSE None]
SeededColumns == [c \in ColumnIds |-> None]

Parent == [name |-> 1, type |-> "uuid", required |-> FALSE, indexed |-> FALSE,
           isRef |-> TRUE, ref |-> people, different |-> FALSE]

Named == [name |-> 1, type |-> "text", required |-> FALSE, indexed |-> FALSE,
          isRef |-> FALSE, ref |-> None, different |-> FALSE]

Id == [Named EXCEPT !.name = 2]

Defs == {Parent, Named, Id}

Rows == {(1 :> r1), (2 :> "scalar")}

Symmetry == Permutations(Orgs) \cup Permutations(TableIds \ {gp})
              \cup Permutations(ColumnIds)

Order == <<"text", "uuid">>
=============================================================================
