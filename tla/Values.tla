-------------------------------- MODULE Values --------------------------------
(***************************************************************************)
(* The common types of MiniDB, src/common: values, schemas and tuples.  A  *)
(* text is the sequence of its characters, each a string of length one; a  *)
(* tuple is the sequence of its values.                                    *)
(***************************************************************************)
EXTENDS Integers, Sequences, SequencesExt

CONSTANT IntMax   \* the largest int

Text == Seq(STRING)

DataType == {"INT", "TEXT"}

\* A value holds an int or a text, as its type says.
IntValue(n) == [type |-> "INT", int |-> n, text |-> <<>>]
TextValue(s) == [type |-> "TEXT", int |-> 0, text |-> s]

\* The position of the first column with that name, 0 when there is none.
findColumn(schema, name) == SelectInSeq(schema, LAMBDA col : col.name = name)

-------------------------------------------------------------------------------
(* std::stoi *)

Digit == {"0", "1", "2", "3", "4", "5", "6", "7", "8", "9"}

digitValue(c) ==
  CHOOSE n \in 0 .. 9 : c = <<"0", "1", "2", "3", "4", "5", "6", "7", "8", "9">>[n + 1]

\* The text from its first character that Test accepts.
From(s, Test(_)) ==
  LET i == SelectInSeq(s, Test) IN IF i = 0 THEN <<>> ELSE SubSeq(s, i, Len(s))

\* The text up to its first character that is no digit: what follows is ignored.
leadingDigits(s) ==
  LET i == SelectInSeq(s, LAMBDA c : c \notin Digit) IN IF i = 0 THEN s ELSE SubSeq(s, 1, i - 1)

number(s) ==
  LET digits == leadingDigits(s)
      value[i \in 0 .. Len(digits)] ==
        IF i = 0 THEN 0 ELSE 10 * value[i - 1] + digitValue(digits[i])
  IN  value[Len(digits)]

\* isspace; std::getline leaves no line end, and \v cannot be written here.
Space == {" ", "\t", "\r", "\f"}

trimmed(s) == From(s, LAMBDA c : c \notin Space)

isNegative(s) == trimmed(s) # <<>> /\ trimmed(s)[1] = "-"

magnitude(s) ==
  IF trimmed(s) # <<>> /\ trimmed(s)[1] \in {"-", "+"} THEN Tail(trimmed(s)) ELSE trimmed(s)

\* stoi returns; otherwise it throws.
isInt(s) ==
  /\ leadingDigits(magnitude(s)) # <<>>
  /\ number(magnitude(s)) <= IF isNegative(s) THEN IntMax + 1 ELSE IntMax

stoi(s) == IF isNegative(s) THEN -number(magnitude(s)) ELSE number(magnitude(s))

-------------------------------------------------------------------------------
(* Typed values and WHERE, as executeInsert, executeSelect and executeDelete have them *)

\* The texts can be made values of the schema's types.
convertible(texts, schema) ==
  /\ Len(texts) = Len(schema)
  /\ \A i \in DOMAIN schema : schema[i].type = "INT" => isInt(texts[i])

\* Mutant: every value stays a text.
convertNothing(texts, schema) == [i \in DOMAIN schema |-> TextValue(texts[i])]

convert(texts, schema) ==
  [i \in DOMAIN schema |->
     IF schema[i].type = "INT" THEN IntValue(stoi(texts[i])) ELSE TextValue(texts[i])]

NoWhere == <<>>

\* The predicate made from a WHERE clause <<column, text>>, on a tuple.
predicate(schema, where, tuple) ==
  \/ where = NoWhere
  \/ LET col == findColumn(schema, where[1]) IN
     /\ col <= Len(tuple)
     /\ IF schema[col].type = "INT"
        THEN isInt(where[2]) /\ tuple[col].int = stoi(where[2])
        ELSE tuple[col].text = where[2]
===============================================================================
