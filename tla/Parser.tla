-------------------------------- MODULE Parser --------------------------------
(***************************************************************************)
(* src/parser/parser.cpp: the statement that a line's tokens are.  Where   *)
(* the parser throws, the result is ParseError.  The parser does not look  *)
(* at what follows a statement, nor ask for the commas of a list of        *)
(* columns or values.                                                      *)
(***************************************************************************)
EXTENDS Lexer

\* selectColumns is empty for SELECT *; where is NoWhere or <<column, value>>.
Statement(type, name) ==
  [type |-> type, tableName |-> name, columns |-> <<>>, values |-> <<>>,
   selectColumns |-> <<>>, where |-> NoWhere]

ParseError == Statement("ERROR", <<>>)

ValueToken == {"NUMBER", "STRING", "IDENTIFIER"}

\* The tokens from p on are of these types.
expect(toks, p, types) ==
  /\ p + Len(types) - 1 <= Len(toks)
  /\ \A i \in DOMAIN types : toks[p + i - 1].type = types[i]

\* The positions where the items of a list start, up to its ')' or the end of
\* the line; next is where it ends, 0 when an item is none.  An item has width
\* tokens, and a comma may follow; starts are the positions where one can start.
parseList(toks, start, starts, width) ==
  LET list[p \in 1 .. Len(toks)] ==
        IF toks[p].type \in {"RPAREN", "EOF"} THEN [items |-> <<>>, next |-> p]
        ELSE IF p \notin starts THEN [items |-> <<>>, next |-> 0]
        ELSE LET q == p + width
                 rest == list[IF toks[q].type = "COMMA" THEN q + 1 ELSE q]
             IN  [rest EXCEPT !.items = <<p>> \o @]
  IN  list[start]

closed(toks, list) == list.next > 0 /\ toks[list.next].type = "RPAREN"

parseCreateTable(toks) ==
  LET columnStarts == {p \in 1 .. Len(toks) - 1 :
                         toks[p].type = "IDENTIFIER" /\ toks[p + 1].type \in DataType}
      list == parseList(toks, 5, columnStarts, 2)
      columns == [i \in DOMAIN list.items |->
                    [name |-> toks[list.items[i]].value, type |-> toks[list.items[i] + 1].type]]
  IN  IF expect(toks, 1, <<"CREATE", "TABLE", "IDENTIFIER", "LPAREN">>) /\ closed(toks, list)
      THEN [Statement("CREATE_TABLE", toks[3].value) EXCEPT !.columns = columns]
      ELSE ParseError

parseInsert(toks) ==
  LET valueStarts == {p \in DOMAIN toks : toks[p].type \in ValueToken}
      list == parseList(toks, 6, valueStarts, 1)
  IN  IF /\ expect(toks, 1, <<"INSERT", "INTO", "IDENTIFIER", "VALUES", "LPAREN">>)
         /\ closed(toks, list)
      THEN [Statement("INSERT", toks[3].value) EXCEPT
              !.values = [i \in DOMAIN list.items |-> toks[list.items[i]].value]]
      ELSE ParseError

\* Mutant: the value of a WHERE clause may be missing, and is empty then.
whereNoValue(toks, p) == expect(toks, p, <<"WHERE", "IDENTIFIER", "EQUALS">>)

isWhere(toks, p) ==
  /\ expect(toks, p, <<"WHERE", "IDENTIFIER", "EQUALS">>)
  /\ toks[p + 3].type \in ValueToken

\* The statement with the WHERE clause that may follow at p.
parseWhere(toks, p, stmt) ==
  IF toks[p].type # "WHERE" THEN stmt
  ELSE IF isWhere(toks, p)
  THEN [stmt EXCEPT !.where = <<toks[p + 1].value, toks[p + 3].value>>]
  ELSE ParseError

\* The number of names in a list that needs its commas, the first at 2.
columnCount(toks) ==
  CHOOSE n \in 1 .. Len(toks) :
    /\ ~expect(toks, 2 * n + 1, <<"COMMA">>)
    /\ \A i \in 1 .. n - 1 : toks[2 * i + 1].type = "COMMA"

parseSelect(toks) ==
  LET star == expect(toks, 2, <<"STAR">>)
      n == columnCount(toks)
      from == IF star THEN 3 ELSE 2 * n + 1
      columns == IF star THEN <<>> ELSE [i \in 1 .. n |-> toks[2 * i].value]
  IN  IF /\ star \/ \A i \in 1 .. n : expect(toks, 2 * i, <<"IDENTIFIER">>)
         /\ expect(toks, from, <<"FROM", "IDENTIFIER">>)
      THEN parseWhere(toks, from + 2,
             [Statement("SELECT", toks[from + 1].value) EXCEPT !.selectColumns = columns])
      ELSE ParseError

parseDelete(toks) ==
  IF expect(toks, 1, <<"DELETE", "FROM", "IDENTIFIER">>)
  THEN parseWhere(toks, 4, Statement("DELETE_STMT", toks[3].value))
  ELSE ParseError

parse(toks) ==
  CASE toks[1].type = "CREATE" -> parseCreateTable(toks)
    [] toks[1].type = "INSERT" -> parseInsert(toks)
    [] toks[1].type = "SELECT" -> parseSelect(toks)
    [] toks[1].type = "DELETE" -> parseDelete(toks)
    [] OTHER -> ParseError

-------------------------------------------------------------------------------
(* statementToString, as the words and symbols it writes *)

joined(items, separator) ==
  FlattenSeq([i \in DOMAIN items |-> IF i = 1 THEN items[i] ELSE separator \o items[i]])

\* Each with a space behind it.
words(ws) == FlattenSeq([i \in DOMAIN ws |-> ws[i] \o <<" ">>])

\* Mutant: the '=' is not printed.
whereNoEquals(where) ==
  IF where = NoWhere THEN <<>> ELSE words(<<spelling["WHERE"], where[1], where[2]>>)

whereToString(where) ==
  IF where = NoWhere THEN <<>>
  ELSE words(<<spelling["WHERE"], where[1], <<"=">>, where[2]>>)

statementToString(s) ==
  CASE s.type = "CREATE_TABLE" ->
         words(<<spelling["CREATE"], spelling["TABLE"], s.tableName>>) \o <<"(">>
           \o joined([i \in DOMAIN s.columns |->
                        words(<<s.columns[i].name, spelling[s.columns[i].type]>>)], <<",">>)
           \o <<")">>
    [] s.type = "INSERT" ->
         words(<<spelling["INSERT"], spelling["INTO"], s.tableName, spelling["VALUES"]>>)
           \o <<"(">> \o joined(s.values, <<",">>) \o <<")">>
    [] s.type = "SELECT" ->
         words(<<spelling["SELECT"],
                 IF s.selectColumns = <<>> THEN <<"*">> ELSE joined(s.selectColumns, <<",">>),
                 spelling["FROM"], s.tableName>>)
           \o whereToString(s.where)
    [] s.type = "DELETE_STMT" ->
         words(<<spelling["DELETE"], spelling["FROM"], s.tableName>>) \o whereToString(s.where)
===============================================================================
