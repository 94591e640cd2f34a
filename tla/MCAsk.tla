------------------------------- MODULE MCAsk --------------------------------
(* Instances of Ask for TLC.  A statement is how it reads (the number of     *)
(* statements in it, how it begins, its type and its keywords), what the     *)
(* database would do with it, and what it costs in a message.                *)
EXTENDS Ask

Sql(name, statements, first, type, keywords, effect) ==
  [name |-> name, statements |-> statements, first |-> first, type |-> type,
   keywords |-> keywords, effect |-> effect, size |-> 2]

\* One that reads, one that locks, one that deletes under a WITH, one that
\* appends a second statement.
SomeQueries ==
  {Sql("count", 1, "WITH", "SELECT", {"WITH", "SELECT", "FROM"}, "read"),
   Sql("lock", 1, "SELECT", "SELECT", {"SELECT", "FROM", "UPDATE"}, "lock"),
   Sql("with_delete", 1, "WITH", "DELETE", {"WITH", "DELETE"}, "write"),
   Sql("two", 2, "SELECT", "SELECT", {"SELECT"}, "write")}

\* One row; more than the model is shown, with a cell that is cut.
SomeResults == {<<1>>, <<1, 9, 1>>}
=============================================================================
