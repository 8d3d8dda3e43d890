------------------------------- MODULE SqlTables -------------------------------
(***************************************************************************)
(* What MiniDB promises while one process runs: tables are bags of typed   *)
(* rows, and a statement is answered from them at once.  Lines, plans,     *)
(* heap files, RIDs and indexes do not appear, and neither does the end of *)
(* the process.                                                            *)
(***************************************************************************)
EXTENDS Values, Bags

VARIABLES stmt,    \* the statement that waits for its answer
          tables,  \* name -> [schema, rows], rows a bag of tuples
          out      \* the last answer

vars == <<stmt, tables, out>>

Answer(kind, rows, count) == [kind |-> kind, rows |-> rows, count |-> count]

Init ==
  /\ tables = <<>>
  /\ out = Answer("none", EmptyBag, 0)

\* No statement waits, and the user may ask for one.
Ask ==
  /\ stmt.type = "ERROR"
  /\ out' \in {out, Answer("none", EmptyBag, 0)}
  /\ UNCHANGED tables

Table == tables[stmt.tableName]

Chosen(t, row) == predicate(t.schema, stmt.where, row)

\* The statement names a table, and columns of it only.
Known ==
  /\ stmt.tableName \in DOMAIN tables
  /\ LET t == Table IN
     /\ stmt.where # NoWhere => findColumn(t.schema, stmt.where[1]) # 0
     /\ \A i \in DOMAIN stmt.selectColumns : findColumn(t.schema, stmt.selectColumns[i]) # 0

Create ==
  /\ stmt.type = "CREATE_TABLE" /\ stmt.tableName \notin DOMAIN tables
  /\ tables' = [t \in DOMAIN tables \cup {stmt.tableName} |->
                  IF t = stmt.tableName THEN [schema |-> stmt.columns, rows |-> EmptyBag]
                  ELSE tables[t]]
  /\ out' = Answer("created", EmptyBag, 0)

\* A row of no columns is lost: what is stored of it is nothing.
Insert ==
  /\ stmt.type = "INSERT" /\ Known /\ convertible(stmt.values, Table.schema)
  /\ LET t == Table
         row == convert(stmt.values, t.schema)
     IN  tables' = [tables EXCEPT ![stmt.tableName].rows =
                      IF row = <<>> THEN @ ELSE @ (+) SetToBag({row})]
  /\ out' = Answer("inserted", EmptyBag, 1)

\* The rows of t that the statement chooses, or leaves.
Part(t, chosen) == [row \in {r \in DOMAIN t.rows : Chosen(t, r) <=> chosen} |-> t.rows[row]]

\* The copies of the rows of a bag, told apart by numbers.
Copies(rows) == UNION {{row} \X (1 .. rows[row]) : row \in DOMAIN rows}

Delete ==
  /\ stmt.type = "DELETE_STMT" /\ Known
  /\ LET t == Table IN
     /\ tables' = [tables EXCEPT ![stmt.tableName].rows = Part(t, FALSE)]
     /\ out' = Answer("deleted", EmptyBag, Cardinality(Copies(Part(t, TRUE))))

\* The columns of a row that the statement asks for.
Shown(t, row) ==
  IF stmt.selectColumns = <<>> THEN row
  ELSE [i \in DOMAIN stmt.selectColumns |-> row[findColumn(t.schema, stmt.selectColumns[i])]]

Select ==
  /\ stmt.type = "SELECT" /\ Known
  /\ LET t == Table
         copies == Copies(Part(t, TRUE))
         shown == [v \in {Shown(t, c[1]) : c \in copies} |->
                     Cardinality({c \in copies : Shown(t, c[1]) = v})]
     IN  out' = Answer("rows", shown, Cardinality(copies))
  /\ UNCHANGED tables

\* A statement that is none, or that the tables cannot answer, changes nothing.
Refuse ==
  /\ \/ stmt.type = "ERROR"
     \/ stmt.type = "CREATE_TABLE" /\ stmt.tableName \in DOMAIN tables
     \/ stmt.type \in {"INSERT", "SELECT", "DELETE_STMT"} /\ ~Known
     \/ stmt.type = "INSERT" /\ Known /\ ~convertible(stmt.values, Table.schema)
  /\ out' = Answer("error", EmptyBag, 0)
  /\ UNCHANGED tables

Next == Ask \/ Create \/ Insert \/ Delete \/ Select \/ Refuse

Spec == Init /\ [][Next]_vars
================================================================================
