-------------------------------- MODULE Lexer --------------------------------
(***************************************************************************)
(* src/parser/lexer.cpp: the tokens of a line.  The spelling of a keyword  *)
(* and the characters are parameters, so that lines can be short.          *)
(***************************************************************************)
EXTENDS Values

CONSTANTS Letter,    \* isalpha, and the underscore
          upper,     \* Letter -> Letter, toupper
          spelling   \* keyword -> the word in capitals

Keyword == {"SELECT", "INSERT", "INTO", "VALUES", "FROM", "WHERE", "CREATE", "TABLE",
            "DELETE", "INT", "TEXT"}

Symbol == {"*", ",", "(", ")", ";", "="}

ASSUME LexerAssumption ==
  /\ DOMAIN spelling = Keyword
  /\ \A k \in Keyword : \A l \in Keyword \ {k} : spelling[k] # spelling[l]
  /\ DOMAIN upper = Letter
  /\ Letter \cap (Digit \cup Symbol \cup Space \cup {"'"}) = {}

symbolType ==
  [c \in Symbol |-> CASE c = "*" -> "STAR" [] c = "," -> "COMMA" [] c = "(" -> "LPAREN"
                      [] c = ")" -> "RPAREN" [] c = ";" -> "SEMICOLON" [] c = "=" -> "EQUALS"]

Token(type, value) == [type |-> type, value |-> value]

toUpper(w) == [i \in DOMAIN w |-> IF w[i] \in Letter THEN upper[w[i]] ELSE w[i]]

keywordType(w) ==
  LET capitals == toUpper(w)
      same == {k \in Keyword : spelling[k] = capitals}
  IN  IF same = {} THEN "IDENTIFIER" ELSE CHOOSE k \in same : TRUE

\* The first position from p on whose character is not in S, or behind the end.
runEnd(input, p, S) ==
  LET q == SelectInSubSeq(input, p, Len(input), LAMBDA c : c \notin S)
  IN  IF q = 0 THEN Len(input) + 1 ELSE q

\* The closing quote, or behind the end.
quoteEnd(input, p) ==
  LET q == SelectInSubSeq(input, p, Len(input), LAMBDA c : c = "'")
  IN  IF q = 0 THEN Len(input) + 1 ELSE q

\* Mutant: a string that is not closed loses its last character.
stringShort(input, p) ==
  LET q == quoteEnd(input, p + 1)
  IN  Token("STRING", SubSeq(input, p + 1, IF q > Len(input) THEN q - 2 ELSE q - 1))

\* The literal whose opening quote is at p.
stringAt(input, p) == Token("STRING", SubSeq(input, p + 1, quoteEnd(input, p + 1) - 1))

\* The token that starts at p, where there is no space.
tokenAt(input, p) ==
  LET c == input[p]
      word == SubSeq(input, p, runEnd(input, p, Letter \cup Digit) - 1)
  IN  CASE c \in Symbol -> Token(symbolType[c], <<c>>)
        [] c = "'" -> stringAt(input, p)
        [] c \in Digit -> Token("NUMBER", SubSeq(input, p, runEnd(input, p, Digit) - 1))
        [] c \in Letter -> Token(keywordType(word), word)
        [] OTHER -> Token("UNKNOWN", <<c>>)

\* Where the lexer goes on behind that token.
tokenEnd(input, p) ==
  LET c == input[p] IN
  CASE c = "'" -> IF quoteEnd(input, p + 1) > Len(input) THEN Len(input) + 1
                  ELSE quoteEnd(input, p + 1) + 1
    [] c \in Digit -> runEnd(input, p, Digit)
    [] c \in Letter -> runEnd(input, p, Letter \cup Digit)
    [] OTHER -> p + 1

handleInput(input) ==
  LET lex[p \in 1 .. Len(input) + 1] ==
        IF p > Len(input) THEN <<Token("EOF", <<>>)>>
        ELSE IF input[p] \in Space THEN lex[p + 1]
        ELSE <<tokenAt(input, p)>> \o lex[tokenEnd(input, p)]
  IN  lex[1]
===============================================================================
