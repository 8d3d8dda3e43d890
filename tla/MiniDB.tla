-------------------------------- MODULE MiniDB --------------------------------
(***************************************************************************)
(* The engine, src/main.cpp: a line is read, lexed, parsed, planned and    *)
(* executed over the catalog, the heap files and the indexes, inside a     *)
(* transaction that the log records.  There is one thread.                 *)
(*                                                                         *)
(* A new process knows no table, and CREATE TABLE empties the file it      *)
(* finds: the rows of an earlier process are not read again, so that a     *)
(* table's heap is kept with its entry in the catalog.                     *)
(***************************************************************************)
EXTENDS Optimizer

CONSTANTS Lines,        \* what the user means to type
          TypoChar,     \* what slips in
          MaxTypos,     \* bound on the slips
          TypoLog,      \* bound on the log's records when a slip is made
          MaxTables,    \* bound on the tables
          MaxCells,     \* bound on a tuple: insertTuple tests no length
          MaxLog        \* bound on the records of the log

ASSUME MiniDBAssumption ==
  /\ Lines \subseteq Text /\ TypoChar \subseteq STRING
  /\ MaxTypos \in Nat /\ MaxLog \in Nat
  /\ MaxCells \in 0 .. 2^16 - 1   \* a text's length has 16 bits

VARIABLES line,       \* the line typed
          typos,      \* the slips so far
          stmt,       \* the statement parsed from it
          catalog,    \* name -> the table
          mode,       \* read a line, parse it, execute it; or the process is gone
          nextTxnId,
          log,        \* the records of all processes
          out         \* the last answer

vars == <<line, typos, stmt, catalog, mode, nextTxnId, log, out>>

Answer(kind, rows, count) == [kind |-> kind, rows |-> rows, count |-> count]
Silence == Answer("none", <<>>, 0)
Error == Answer("error", <<>>, 0)

AnswerKind == {"none", "error", "created", "inserted", "rows", "deleted"}

Init ==
  /\ line = <<>> /\ typos = 0
  /\ stmt = ParseError
  /\ catalog = <<>>
  /\ mode = "read"
  /\ nextTxnId = 1
  /\ log = <<>>
  /\ out = Silence

-------------------------------------------------------------------------------
(* The user *)

readLine(l) ==
  /\ mode = "read"
  /\ line' = l /\ mode' = "parse"
  /\ out' = Silence
  /\ UNCHANGED <<typos, stmt, catalog, nextTxnId, log>>

\* One character too many, or one missing.
typo ==
  /\ mode = "parse" /\ typos < MaxTypos /\ Len(log) <= TypoLog
  /\ \/ \E i \in 1 .. Len(line) + 1, c \in TypoChar : line' = InsertAt(line, i, c)
     \/ \E i \in DOMAIN line : line' = RemoveAt(line, i)
  /\ typos' = typos + 1
  /\ UNCHANGED <<stmt, catalog, mode, nextTxnId, log, out>>

-------------------------------------------------------------------------------
(* execute *)

parseLine ==
  /\ mode = "parse"
  /\ LET s == parse(handleInput(line)) IN
     /\ stmt' = s
     /\ mode' = IF s = ParseError THEN "read" ELSE "execute"
     /\ out' = IF s = ParseError THEN Error ELSE out
  /\ line' = <<>>
  /\ UNCHANGED <<typos, catalog, nextTxnId, log>>

plan == optimize(catalog, stmt)

Known == stmt.tableName \in DOMAIN catalog
Info == catalog[stmt.tableName]

hasColumns(schema, columns) == \A i \in DOMAIN columns : findColumn(schema, columns[i]) # 0

\* The statement passes the tests at the start of executeInsert; of executeDelete;
\* of executeSelect.
insertable == Known /\ convertible(stmt.values, Info.schema)
deletable == Known /\ (stmt.where # NoWhere => findColumn(Info.schema, stmt.where[1]) # 0)
selectable == deletable /\ hasColumns(Info.schema, stmt.selectColumns)

answer(a) ==
  /\ out' = a
  /\ stmt' = ParseError
  /\ mode' = "read"
  /\ UNCHANGED <<line, typos>>

executeCreateTable ==
  /\ stmt.type = "CREATE_TABLE"
  /\ \/ /\ Known
        /\ answer(Error)
        /\ UNCHANGED catalog
     \/ /\ ~Known /\ Cardinality(DOMAIN catalog) < MaxTables
        /\ catalog' = [t \in DOMAIN catalog \cup {stmt.tableName} |->
                         IF t = stmt.tableName THEN NewTable(stmt.columns) ELSE catalog[t]]
        /\ answer(Answer("created", <<>>, 0))
  /\ UNCHANGED <<nextTxnId, log>>

Record(type) == [type |-> type, txnId |-> nextTxnId]

\* begin, logBegin, logCommit and commit; the engine asks for no lock and logs
\* no tuple.
transaction ==
  /\ Len(log) + 2 <= MaxLog
  /\ nextTxnId' = nextTxnId + 1
  /\ log' = log \o <<Record("BEGIN_TXN"), Record("COMMIT_TXN")>>

\* The row count is incremented by InsertExecutor, and here once more.
inserted(values, rid) == [InsertExecutor(Info, values, rid) EXCEPT !.rowCount = @ + 1]

executeInsert ==
  /\ plan.type = "INSERT_OP"
  /\ \/ /\ ~insertable
        /\ answer(Error)
        /\ UNCHANGED <<catalog, nextTxnId, log>>
     \/ /\ insertable
        /\ LET values == convert(stmt.values, Info.schema) IN
           /\ Len(serializeTuple(values)) <= MaxCells
           /\ \E rid \in RID \ Live(Info) :
                catalog' = [catalog EXCEPT ![stmt.tableName] = inserted(values, rid)]
           /\ transaction
           /\ answer(Answer("inserted", <<>>, 1))

\* Nothing catches the exception of tree->insert: the process ends, and the
\* record of logBegin may not have been written.
executeInsertDies ==
  /\ plan.type = "INSERT_OP" /\ insertable
  /\ mayThrow(Info, convert(stmt.values, Info.schema))
  /\ RID \ Live(Info) # {} /\ Len(log) < MaxLog
  /\ log' \in {log, Append(log, Record("BEGIN_TXN"))}
  /\ mode' = "gone"
  /\ UNCHANGED <<line, typos, stmt, catalog, nextTxnId, out>>

\* The columns of the rows that are printed.
printed(rows, schema, columns) ==
  IF columns = <<>> THEN rows
  ELSE [r \in DOMAIN rows |-> [i \in DOMAIN columns |-> rows[r][findColumn(schema, columns[i])]]]

\* The plan says only that it is a SELECT: the table is scanned.
executeSelect ==
  /\ plan.type \in {"SEQ_SCAN", "INDEX_SCAN", "PROJECTION"}
  /\ \/ /\ ~selectable
        /\ answer(Error)
     \/ /\ selectable
        /\ LET rows == SeqScanExecutor(Info, stmt.where).rows IN
           answer(Answer("rows", printed(rows, Info.schema, stmt.selectColumns), Len(rows)))
  /\ UNCHANGED <<catalog, nextTxnId, log>>

executeDelete ==
  /\ plan.type = "DELETE_OP"
  /\ \/ /\ ~deletable
        /\ answer(Error)
        /\ UNCHANGED <<catalog, nextTxnId, log>>
     \/ /\ deletable
        /\ catalog' = [catalog EXCEPT ![stmt.tableName] = DeleteExecutor(Info, stmt.where)]
        /\ transaction
        /\ answer(Answer("deleted", <<>>, Cardinality(matching(Info, stmt.where))))

execute ==
  /\ mode = "execute"
  /\ \/ executeCreateTable \/ executeInsert \/ executeInsertDies
     \/ executeSelect \/ executeDelete

-------------------------------------------------------------------------------
(* The end of the process, and the next one *)

exit ==
  /\ mode = "read"
  /\ mode' = "gone"
  /\ UNCHANGED <<line, typos, stmt, catalog, nextTxnId, log, out>>

restart ==
  /\ mode = "gone"
  /\ catalog' = <<>> /\ nextTxnId' = 1
  /\ out' = Silence
  /\ stmt' = ParseError /\ mode' = "read"
  /\ UNCHANGED <<line, typos, log>>

Next ==
  (\E l \in Lines : readLine(l)) \/ typo \/ parseLine \/ execute \/ exit \/ restart

\* Processes one after the other.
Spec == Init /\ [][Next]_vars

-------------------------------------------------------------------------------
(* Properties *)

matchesSchema(tuple, schema) ==
  Len(tuple) = Len(schema) /\ \A i \in DOMAIN schema : tuple[i].type = schema[i].type

\* Every stored tuple is read back with a value of the right type for every
\* column of its table.
TablesTyped ==
  \A t \in DOMAIN catalog : LET info == catalog[t] IN
    /\ info.rowCount \in Nat
    /\ DOMAIN info.heap = RID
    /\ \A rid \in Live(info) : matchesSchema(tupleAt(info, rid), info.schema)
    /\ \A k \in DOMAIN info.index : k \in Int /\ info.index[k] \in RID

\* Type of every variable of the engine.
TypeOK ==
  /\ typos \in 0 .. MaxTypos
  /\ TablesTyped
  /\ mode \in {"read", "parse", "execute", "gone"}
  /\ nextTxnId \in Nat \ {0}
  /\ Len(log) <= MaxLog
  /\ \A i \in DOMAIN log : log[i].type \in {"BEGIN_TXN", "COMMIT_TXN"} /\ log[i].txnId \in Nat \ {0}
  /\ out.kind \in AnswerKind /\ out.count \in Nat

\* An entry of the index whose key is not negative leads to a tuple with that
\* key, although RIDs are used again, keys may be there twice and one deletion
\* removes many tuples.  Entries of negative keys are never removed.
IndexSound ==
  \A t \in DOMAIN catalog : LET info == catalog[t] IN
    \A k \in DOMAIN info.index : k >= 0 =>
      /\ info.index[k] \in Live(info)
      /\ tupleAt(info, info.index[k])[1] = IntValue(k)

\* The optimizer never believes a table to be smaller than it is.
RowCountCovers ==
  \A t \in DOMAIN catalog : Cardinality(Live(catalog[t])) <= catalog[t].rowCount

\* The rows of a table, each as often as it is stored.
RowBag(info) ==
  LET row == [rid \in Live(info) |-> tupleAt(info, rid)]
  IN  [v \in {row[rid] : rid \in Live(info)} |-> Cardinality({rid \in Live(info) : row[rid] = v})]

Abs == INSTANCE SqlTables WITH
         stmt <- stmt,
         tables <- [t \in DOMAIN catalog |->
                      [schema |-> catalog[t].schema,
                       rows |-> RowBag(catalog[t])]],
         out <- [out EXCEPT !.rows = ToBag(@)]

\* While a process runs, the engine is a set of bags of rows: each statement
\* that is answered did to them what its words say and showed the rows it asks
\* for, whatever heap files, RIDs and indexes went through before.  A process
\* that dies answers nothing, and what the next one finds is not promised here:
\* see RowsOutliveCrash.
ImplementsSqlTables == Abs!Init /\ [][mode # "gone" => Abs!Next]_(Abs!vars)

\* "Write-Ahead Logging for crash recovery" and "Automatic split/merge on
\* overflow/underflow" (README.md, lines 3 and 136): no statement ends its
\* process, and if one did, the next process has the rows that the statements
\* before it committed.
RowsOutliveCrash ==
  [][mode = "gone" /\ stmt # ParseError =>
       \A t \in DOMAIN catalog : Live(catalog[t]) # {} =>
         t \in DOMAIN catalog' /\ RowBag(catalog'[t]) = RowBag(catalog[t])]_vars

\* Column c of the table is the one that its name finds.
named(info, c) == findColumn(info.schema, info.schema[c].name) = c

\* The rows of a join of two tables in columns l and r.
joinRows(left, right, l, r) ==
  NestedLoopJoinExecutor(SeqScanExecutor(left, NoWhere), SeqScanExecutor(right, NoWhere),
                         left.schema[l].name, right.schema[r].name).rows

\* The pairs of RIDs whose rows agree in the two columns.
agreeing(left, right, l, r) ==
  {p \in Live(left) \X Live(right) : tupleAt(left, p[1])[l] = tupleAt(right, p[2])[r]}

\* The bag of the rows of these pairs.
pairBag(left, right, l, r) ==
  LET pairs == agreeing(left, right, l, r)
      row(p) == tupleAt(left, p[1]) \o tupleAt(right, p[2])
  IN  [v \in {row(p) : p \in pairs} |-> Cardinality({p \in pairs : row(p) = v})]

\* A join has each pair of rows that agree in the two columns, as often as the
\* tables have it.
JoinRight ==
  mode = "read" => \A t, u \in DOMAIN catalog :
    LET left == catalog[t]
        right == catalog[u]
    IN  \A l \in DOMAIN left.schema, r \in DOMAIN right.schema :
          named(left, l) /\ named(right, r) =>
            ToBag(joinRows(left, right, l, r)) = pairBag(left, right, l, r)

\* The characters of a line that are neither spaces nor quotes.
bare(s) == FlattenSeq([i \in DOMAIN s |-> IF s[i] \in Space \cup {"'"} THEN <<>> ELSE <<s[i]>>])

spelt(toks) == [i \in DOMAIN toks |-> toks[i].value]

\* The lexer loses and adds nothing but spaces and quotes, also where a quote is
\* not closed.
LexFaithful == bare(FlattenSeq(spelt(handleInput(line)))) = bare(line)

\* What a token adds to the words of its line: no comma; a keyword is spelt in capitals.
WordOf(t) ==
  IF t.type = "COMMA" THEN <<>>
  ELSE <<IF t.type \in Keyword THEN spelling[t.type] ELSE t.value>>

Words(toks) == FlattenSeq([i \in DOMAIN toks |-> WordOf(toks[i])])

\* The words of a statement.
Meaning(s) ==
  LET where == IF s.where = NoWhere THEN <<>>
               ELSE <<spelling["WHERE"], s.where[1], <<"=">>, s.where[2]>>
      columns == FlattenSeq([i \in DOMAIN s.columns |->
                   <<s.columns[i].name, spelling[s.columns[i].type]>>])
      selected == IF s.selectColumns = <<>> THEN <<<<"*">>>> ELSE s.selectColumns
  IN  CASE s.type = "CREATE_TABLE" ->
             <<spelling["CREATE"], spelling["TABLE"], s.tableName, <<"(">>>>
               \o columns \o <<<<")">>>>
        [] s.type = "INSERT" ->
             <<spelling["INSERT"], spelling["INTO"], s.tableName, spelling["VALUES"], <<"(">>>>
               \o s.values \o <<<<")">>>>
        [] s.type = "SELECT" ->
             <<spelling["SELECT"]>> \o selected \o <<spelling["FROM"], s.tableName>> \o where
        [] s.type = "DELETE_STMT" ->
             <<spelling["DELETE"], spelling["FROM"], s.tableName>> \o where

\* What is executed stands at the start of the line: no word is dropped, added
\* or moved, however the line was mistyped.
ParseSound ==
  mode = "parse" =>
    LET toks == handleInput(line)
        s == parse(toks)
    IN  s # ParseError => IsPrefix(Meaning(s), Words(toks))

\* A text that is one token by itself, and no keyword.
Plain(text) ==
  LET toks == handleInput(text) IN
  Len(toks) = 2 /\ toks[1].value = text /\ toks[1].type \in ValueToken

\* A statement that is printed can be typed again, unless a value needs quotes.
ParseComplete ==
  /\ mode = "execute"
  /\ \A i \in DOMAIN stmt.values : Plain(stmt.values[i])
  /\ stmt.where # NoWhere => Plain(stmt.where[2])
  => parse(handleInput(statementToString(stmt))) = stmt
================================================================================
