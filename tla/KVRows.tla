------------------------------- MODULE KVRows -------------------------------
(***************************************************************************)
(* The rows of kv_entries and what one operation of the KV repository      *)
(* (internal/adapters/sqlite/repository.go) does to them. A content stands *)
(* for a category and a JSON value; a table maps every key to its row.     *)
(***************************************************************************)
EXTENDS Naturals

CONSTANTS
    Keys,      \* the keys that pass ValidateKey
    Contents,  \* what a row may hold
    NoRow      \* there is no row with the key

Times == Nat

Rows == [content : Contents, created : Times, updated : Times]

ASSUME NoRowAssumption == NoRow \notin Rows

Tables == [Keys -> Rows \cup {NoRow}]

Ops ==
    [kind : {"put"}, key : Keys, content : Contents]
        \cup [kind : {"get", "delete"}, key : Keys]
        \cup [kind : {"scan"}]

IsWrite(op) == op.kind \in {"put", "delete"}

\* Mutant: the columns of the conflict clause are mixed up.
WrittenSwapped(row, content, now) ==
    [content |-> content,
     created |-> now,
     updated |-> IF row = NoRow THEN now ELSE row.created]

\* Mutant: created_at is among the columns that are updated.
WrittenAnew(row, content, now) ==
    [content |-> content, created |-> now, updated |-> now]

\* The row that a put leaves: ON CONFLICT keeps created_at.
Written(row, content, now) ==
    [content |-> content,
     created |-> IF row = NoRow THEN now ELSE row.created,
     updated |-> now]

\* The table that an operation leaves.
Effect(table, op, now) ==
    CASE op.kind = "put" ->
            [table EXCEPT ![op.key] = Written(@, op.content, now)]
      [] op.kind = "delete" -> [table EXCEPT ![op.key] = NoRow]
      [] OTHER -> table

\* What it answers: the row that a put wrote or a get found, whether a delete
\* removed a row (RowsAffected), all rows for a scan without a filter.
Outcome(table, op, now) ==
    CASE op.kind = "put" -> Written(table[op.key], op.content, now)
      [] op.kind = "get" -> table[op.key]
      [] op.kind = "delete" -> table[op.key] # NoRow
      [] op.kind = "scan" -> table

OutcomesOf(op) ==
    CASE op.kind = "put" -> Rows
      [] op.kind = "get" -> Rows \cup {NoRow}
      [] op.kind = "delete" -> BOOLEAN
      [] op.kind = "scan" -> Tables

=============================================================================
