---------------------------- MODULE RowWrites ----------------------------
(***************************************************************************)
(* What SQLAlchemy's unit of work writes when a repository copies an       *)
(* entity over a row it has just read again: the flush emits an UPDATE for *)
(* the columns whose value differs from the row as it was read, and for no *)
(* other column.  The repositories of src/app rely on it in every update() *)
(* method; the library itself is not part of the repository.               *)
(***************************************************************************)

\* Columns of the entity that differ from the row read back before the flush.
Changed(fresh, entity) == {c \in DOMAIN entity : entity[c] # fresh[c]}

\* The row after an UPDATE that sets exactly the columns in cols.
Merged(row, entity, cols) ==
    [c \in DOMAIN row |-> IF c \in cols THEN entity[c] ELSE row[c]]

=============================================================================
