------------------------------- MODULE SqlTables -------------------------------
(***************************************************************************)
(* Tables of a relational database, as far as the two metadata stores use  *)
(* them. A table is a function from the keys it has to rows, a row one     *)
(* from columns to values. NULL and an absent parameter are <<>>, anything *)
(* else that may be absent is <<value>>. A statement returns the table and *)
(* whether it was refused.                                                 *)
(***************************************************************************)
EXTENDS Integers, Sequences, FiniteSets, Functions

Done(table) == [table |-> table, refused |-> FALSE]
Refused(table) == [table |-> table, refused |-> TRUE]

\* f, and g where f says nothing. (The provers know nothing of @@.)
Over(f, g) == [x \in DOMAIN f \cup DOMAIN g |-> IF x \in DOMAIN f THEN f[x] ELSE g[x]]

Put(table, key, row) == [k \in DOMAIN table \cup {key} |-> IF k = key THEN row ELSE table[k]]

\* INSERT: the primary key refuses a key it has.
Insert(table, key, row) ==
    IF key \in DOMAIN table THEN Refused(table) ELSE Done(Put(table, key, row))

\* INSERT OR REPLACE: a row that is there is deleted.
InsertOrReplace(table, key, row) == Done(Put(table, key, row))

\* INSERT ... ON CONFLICT DO UPDATE: a row that is there gets the listed columns.
Upsert(table, key, row, listed) ==
    Done(Put(table, key, IF key \notin DOMAIN table THEN row
                         ELSE [c \in DOMAIN row |-> IF c \in listed THEN row[c] ELSE table[key][c]]))

\* UPDATE ... WHERE key: SET has the columns for which a value is given. Without
\* such a row there is nothing to do.
Update(table, key, given) ==
    LET Set(row) == [c \in DOMAIN row |->
                        IF c \in DOMAIN given /\ given[c] # <<>> THEN given[c][1] ELSE row[c]]
    IN  Done([k \in DOMAIN table |-> IF k = key THEN Set(table[k]) ELSE table[k]])

\* DELETE ... WHERE.
DeleteAll(table, keys) == Done(Restrict(table, DOMAIN table \ keys))

Delete(table, key) == DeleteAll(table, {key})

\* ALTER TABLE ADD COLUMN where a column is missing: old rows get its default.
AddColumns(table, columns) == [k \in DOMAIN table |-> Over(table[k], columns)]

\* What is given for a column that may be NULL: it is never set to NULL.
Nullable(value) == IF value = <<>> THEN <<>> ELSE <<value>>

\* The value, or what stands in for it.
Or(value, other) == IF value = <<>> THEN other ELSE value[1]
=============================================================================
