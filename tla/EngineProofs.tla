----------------------------- MODULE EngineProofs -----------------------------
(***************************************************************************)
(* Proofs about the SQL engine, for every line that can be typed, every    *)
(* number of tables and RIDs, and tuples up to the 2^16 - 1 bytes that the *)
(* length of a text can say.  The argument follows a statement: the lexer  *)
(* makes tokens of the line, the parser a statement with typed columns and *)
(* texts, executeInsert values of the table's types, and what              *)
(* serializeTuple stores is what deserializeTuple reads again.  From that  *)
(* follow, for each table, that the index leads to tuples with its keys    *)
(* and that the row count covers the rows; that the engine answers as the  *)
(* bags of rows of SqlTables do; and that a join has each pair once.       *)
(***************************************************************************)
EXTENDS MiniDB, ListLemmas, FiniteSetTheorems

-------------------------------------------------------------------------------
(* std::stoi *)

\* digitValue finds a value: its CHOOSE has a witness for every digit.
LEMMA DigitValue ==
  ASSUME NEW c \in Digit
  PROVE  digitValue(c) \in 0 .. 9
<1> DEFINE d == <<"0", "1", "2", "3", "4", "5", "6", "7", "8", "9">>
<1>1. \E n \in 0 .. 9 : c = d[n + 1]
  <2>1. c = d[0 + 1] \/ c = d[1 + 1] \/ c = d[2 + 1] \/ c = d[3 + 1] \/ c = d[4 + 1]
        \/ c = d[5 + 1] \/ c = d[6 + 1] \/ c = d[7 + 1] \/ c = d[8 + 1] \/ c = d[9 + 1]
    BY DEF Digit
  <2> HIDE DEF d
  <2>2. QED BY <2>1
<1> HIDE DEF d
<1>2. (CHOOSE n \in 0 .. 9 : c = d[n + 1]) \in 0 .. 9
  BY <1>1
<1>3. QED BY <1>2 DEF digitValue, d

\* What stoi converts is digits only.
LEMMA LeadingDigits ==
  ASSUME NEW s \in Text
  PROVE  leadingDigits(s) \in Seq(Digit)
<1> DEFINE I == {i \in 1 .. Len(s) : s[i] \notin Digit}
<1>0. s \in Seq(STRING) /\ Len(s) \in Nat
  BY DEF Text
<1>1. CASE I = {}
  <2>1. leadingDigits(s) = s
    BY <1>1 DEF leadingDigits, SelectInSeq
  <2>2. \A i \in 1 .. Len(s) : s[i] \in Digit
    BY <1>1
  <2>3. QED BY <1>0, <2>1, <2>2
<1>2. CASE I # {}
  <2> DEFINE m == Min(I)
  <2>1. m \in I /\ \A y \in I : m <= y
    <3>1. I \subseteq Nat OBVIOUS
    <3> HIDE DEF I
    <3>2. QED BY <1>2, <3>1, MinExists
  <2>2. m \in 1 .. Len(s)
    BY <2>1
  <2>3. leadingDigits(s) = SubSeq(s, 1, m - 1)
    <3>1. SelectInSeq(s, LAMBDA c : c \notin Digit) = m
      BY <1>2 DEF SelectInSeq
    <3>2. m # 0 BY <2>2
    <3>3. QED BY <3>1, <3>2 DEF leadingDigits
  <2> HIDE DEF m
  <2>4. \A i \in 1 .. m - 1 : i \in 1 .. Len(s) /\ i \notin I
    BY <2>1, <2>2, <1>0
  <2>5. \A i \in 1 .. m - 1 : s[i] \in Digit
    BY <2>4
  <2>6. SubSeq(s, 1, m - 1) \in Seq(STRING) /\ Len(SubSeq(s, 1, m - 1)) = (m - 1) - 1 + 1
        /\ \A i \in 1 .. (m - 1) - 1 + 1 : SubSeq(s, 1, m - 1)[i] = s[1 + i - 1]
    BY <1>0, <2>2, PartOf
  <2> DEFINE t == SubSeq(s, 1, m - 1)
  <2>7. t \in Seq(STRING) /\ Len(t) = m - 1 /\ \A i \in 1 .. m - 1 : t[i] = s[i]
    BY <2>2, <2>6
  <2> HIDE DEF t
  <2>8. t \in Seq(Digit)
    BY <2>5, <2>7
  <2>9. QED BY <2>3, <2>8 DEF t
<1>3. QED BY <1>1, <1>2

\* Skipping the spaces and the sign leaves a text.
LEMMA Trimmed ==
  ASSUME NEW s \in Text
  PROVE  trimmed(s) \in Text /\ magnitude(s) \in Text
<1> DEFINE I == {i \in 1 .. Len(s) : s[i] \notin Space}
<1>0. s \in Seq(STRING) /\ Len(s) \in Nat
  BY DEF Text
<1>1. trimmed(s) \in Seq(STRING)
  <2>1. CASE I = {}
    <3>1. trimmed(s) = <<>> BY <2>1 DEF trimmed, From, SelectInSeq
    <3>2. QED BY <3>1
  <2>2. CASE I # {}
    <3> DEFINE m == Min(I)
    <3>1. m \in I
      <4>1. I \subseteq 1 .. Len(s) OBVIOUS
      <4> HIDE DEF I
      <4>3. I \subseteq Nat BY <4>1
      <4>2. QED BY <2>2, <4>3, MinExists
    <3>2. m \in 1 .. Len(s) BY <3>1
    <3>3. trimmed(s) = SubSeq(s, m, Len(s))
      <4>1. SelectInSeq(s, LAMBDA c : c \notin Space) = m BY <2>2 DEF SelectInSeq
      <4> HIDE DEF m
      <4>2. m # 0 BY <1>0, <3>2
      <4>3. QED BY <4>1, <4>2 DEF trimmed, From
    <3> HIDE DEF m
    <3>4. SubSeq(s, m, Len(s)) \in Seq(STRING)
      BY <1>0, <3>2, PartOf
    <3>5. QED BY <3>3, <3>4
  <2>3. QED BY <2>1, <2>2
<1> DEFINE t == trimmed(s)
<1>2. magnitude(s) \in {t, Tail(t)} /\ (magnitude(s) = Tail(t) => t # <<>> \/ magnitude(s) = t)
  BY DEF magnitude
<1> HIDE DEF t
<1>3. t # <<>> => Tail(t) \in Seq(STRING)
  BY <1>1 DEF t
<1>4. QED BY <1>1, <1>2, <1>3 DEF Text, t

\* The value of the digits, a recursive function of the text, is a natural number.
LEMMA NumberType ==
  ASSUME NEW s \in Text
  PROVE  number(s) \in Nat
<1> DEFINE g == leadingDigits(s)
<1>1. g \in Seq(Digit)
  BY LeadingDigits
<1> HIDE DEF g
<1> DEFINE n == Len(g)
           Val(V, i) == IF i = 0 THEN 0 ELSE 10 * V[i - 1] + digitValue(g[i])
           K == {k \in Nat : \E V : V = [i \in 0 .. n |-> V[i]]
                              /\ \A i \in 0 .. n : i < k => V[i] = Val(V, i) /\ V[i] \in Nat}
<1>2. n \in Nat
  BY <1>1
<1>3. 0 \in K
  <2> DEFINE V == [i \in 0 .. n |-> 0]
  <2>1. V = [i \in 0 .. n |-> V[i]] /\ \A i \in 0 .. n : i < 0 => V[i] = Val(V, i) /\ V[i] \in Nat
    BY <1>2
  <2>2. QED BY <2>1
<1>4. ASSUME NEW k \in Nat, k \in K PROVE k + 1 \in K
  <2>1. PICK V : V = [i \in 0 .. n |-> V[i]]
                 /\ \A i \in 0 .. n : i < k => V[i] = Val(V, i) /\ V[i] \in Nat
    BY <1>4
  <2> DEFINE W == [i \in 0 .. n |-> IF i = k THEN Val(V, k) ELSE V[i]]
  <2>2. ASSUME NEW i \in 0 .. n, i < k + 1 PROVE W[i] = Val(W, i) /\ W[i] \in Nat
    <3>1. Val(W, i) = Val(V, i)
      <4>1. CASE i = 0 BY <4>1
      <4>2. CASE i # 0
        <5>1. i - 1 \in 0 .. n /\ i - 1 # k BY <1>2, <2>2, <4>2
        <5>2. W[i - 1] = V[i - 1] BY <5>1
        <5> HIDE DEF W
        <5>3. QED BY <5>2
      <4>3. QED BY <4>1, <4>2
    <3>2. W[i] = Val(V, i)
      <4>1. CASE i = k BY <4>1
      <4>2. CASE i # k
        <5>1. i < k BY <1>2, <2>2, <4>2
        <5>2. QED BY <2>1, <4>2, <5>1
      <4>3. QED BY <4>1, <4>2
    <3>3. Val(V, i) \in Nat
      <4>1. CASE i = 0 BY <4>1
      <4>2. CASE i # 0
        <5>1. i - 1 \in 0 .. n /\ i - 1 < k /\ i \in 1 .. n BY <1>2, <2>2, <4>2
        <5>2. V[i - 1] \in Nat BY <2>1, <5>1
        <5>3. g[i] \in Digit BY <1>1, <5>1, ElementOfSeq
        <5>4. digitValue(g[i]) \in 0 .. 9 BY <5>3, DigitValue
        <5>5. QED BY <4>2, <5>2, <5>4, SMTT(30)
      <4>3. QED BY <4>1, <4>2
    <3>4. QED BY <3>1, <3>2, <3>3
  <2>3. W = [i \in 0 .. n |-> W[i]]
    OBVIOUS
  <2> HIDE DEF W, Val
  <2>4. \E X : X = [i \in 0 .. n |-> X[i]]
               /\ \A i \in 0 .. n : i < k + 1 => X[i] = Val(X, i) /\ X[i] \in Nat
    BY <2>2, <2>3
  <2>5. k + 1 \in Nat
    OBVIOUS
  <2>6. QED BY <2>4, <2>5, Zenon
<1>5. n + 1 \in K
  <2> HIDE DEF K
  <2>1. Nat \subseteq K BY <1>3, <1>4, SetInduction
  <2>2. QED BY <1>2, <2>1
<1>6. PICK V : V = [i \in 0 .. n |-> V[i]]
               /\ \A i \in 0 .. n : i < n + 1 => V[i] = Val(V, i) /\ V[i] \in Nat
  BY <1>5
<1>7. V = [i \in 0 .. n |-> Val(V, i)]
  <2>1. \A i \in 0 .. n : V[i] = Val(V, i) BY <1>2, <1>6
  <2> HIDE DEF Val
  <2>2. QED BY <1>6, <2>1
<1> DEFINE U == CHOOSE U : U = [i \in 0 .. n |-> Val(U, i)]
<1>8. U = [i \in 0 .. n |-> Val(U, i)]
  BY <1>7
<1>9. number(s) = U[n]
  BY DEF number, g
<1> HIDE DEF U
<1>10. \A i \in 0 .. n : U[i] = Val(U, i)
  <2> HIDE DEF Val
  <2>1. QED BY <1>8
<1> DEFINE M == {k \in Nat : k <= n => U[k] \in Nat}
<1>11. 0 \in M
  BY <1>2, <1>10
<1>12. ASSUME NEW k \in Nat, k \in M PROVE k + 1 \in M
  <2>1. SUFFICES ASSUME k + 1 <= n PROVE U[k + 1] \in Nat
    OBVIOUS
  <2>2. k + 1 \in 0 .. n /\ k + 1 \in 1 .. n /\ (k + 1) - 1 = k /\ k + 1 # 0 /\ k <= n
    BY <1>2, <2>1
  <2>3. U[k + 1] = 10 * U[k] + digitValue(g[k + 1])
    <3>1. U[k + 1] = Val(U, k + 1) BY <1>10, <2>2
    <3>2. QED BY <2>2, <3>1
  <2>4. U[k] \in Nat BY <1>12, <2>2
  <2>5. g[k + 1] \in Digit BY <1>1, <2>2, ElementOfSeq
  <2>6. digitValue(g[k + 1]) \in 0 .. 9 BY <2>5, DigitValue
  <2>7. QED BY <2>3, <2>4, <2>6
<1>13. n \in M
  <2> HIDE DEF M
  <2>1. Nat \subseteq M BY <1>11, <1>12, SetInduction
  <2>2. QED BY <1>2, <2>1
<1>14. QED BY <1>2, <1>9, <1>13

\* stoi returns a number for every text, also for one that isInt rejects.
LEMMA StoiType ==
  ASSUME NEW s \in Text
  PROVE  stoi(s) \in Int
<1>1. number(magnitude(s)) \in Nat
  BY Trimmed, NumberType
<1>2. QED BY <1>1 DEF stoi

-------------------------------------------------------------------------------
(* The lexer *)

\* The types of lexer.cpp's tokens.
TokenType == Keyword \cup
  {"IDENTIFIER", "NUMBER", "STRING", "UNKNOWN", "EOF",
   "STAR", "COMMA", "LPAREN", "RPAREN", "SEMICOLON", "EQUALS"}

\* A token: a type and the text it was read from.
Tok == [type : TokenType, value : Text]

\* What the parser is given: the last token, and only a last token for certain, is EOF.
Tokens == {toks \in Seq(Tok) : toks # <<>> /\ toks[Len(toks)].type = "EOF"}

\* readNumber and readIdentifier stop at the first character that is not theirs.
LEMMA RunEnd ==
  ASSUME NEW input \in Text, NEW p \in 1 .. Len(input) + 1, NEW S
  PROVE  /\ runEnd(input, p, S) \in p .. Len(input) + 1
         /\ p <= Len(input) /\ input[p] \in S => runEnd(input, p, S) > p
<1> DEFINE I == {i \in p .. Len(input) : input[i] \notin S}
<1>0. input \in Seq(STRING) /\ Len(input) \in Nat
  BY DEF Text
<1>1. CASE I = {}
  <2>1. runEnd(input, p, S) = Len(input) + 1
    BY <1>1 DEF runEnd, SelectInSubSeq
  <2>2. QED BY <1>0, <2>1
<1>2. CASE I # {}
  <2> DEFINE m == Min(I)
  <2>1. m \in I
    <3>1. I \subseteq p .. Len(input) OBVIOUS
    <3> HIDE DEF I
    <3>2. I \subseteq Nat BY <1>0, <3>1
    <3>3. QED BY <1>2, <3>2, MinExists
  <2>2. m \in p .. Len(input) /\ input[m] \notin S
    BY <2>1
  <2>3. runEnd(input, p, S) = IF m = 0 THEN Len(input) + 1 ELSE m
    <3>1. SelectInSubSeq(input, p, Len(input), LAMBDA c : c \notin S) = m
      BY <1>2 DEF SelectInSubSeq
    <3>2. QED BY <3>1 DEF runEnd
  <2> HIDE DEF m
  <2>4. m # 0 /\ m \in Nat
    BY <1>0, <2>2
  <2>5. runEnd(input, p, S) = m
    BY <2>3, <2>4
  <2>6. input[p] \in S => m # p
    BY <2>2
  <2>7. QED BY <1>0, <2>2, <2>4, <2>5, <2>6
<1>3. QED BY <1>1, <1>2

\* The closing quote is not before the position behind the opening one.
LEMMA QuoteEnd ==
  ASSUME NEW input \in Text, NEW p \in 1 .. Len(input) + 1
  PROVE  quoteEnd(input, p) \in p .. Len(input) + 1
<1> DEFINE I == {i \in p .. Len(input) : input[i] = "'"}
<1>0. input \in Seq(STRING) /\ Len(input) \in Nat
  BY DEF Text
<1>1. CASE I = {}
  <2>1. quoteEnd(input, p) = Len(input) + 1
    BY <1>1 DEF quoteEnd, SelectInSubSeq
  <2>2. QED BY <1>0, <2>1
<1>2. CASE I # {}
  <2> DEFINE m == Min(I)
  <2>1. m \in I
    <3>1. I \subseteq p .. Len(input) OBVIOUS
    <3> HIDE DEF I
    <3>2. I \subseteq Nat BY <1>0, <3>1
    <3>3. QED BY <1>2, <3>2, MinExists
  <2>2. m \in p .. Len(input)
    BY <2>1
  <2>3. quoteEnd(input, p) = IF m = 0 THEN Len(input) + 1 ELSE m
    <3>1. SelectInSubSeq(input, p, Len(input), LAMBDA c : c = "'") = m
      BY <1>2 DEF SelectInSubSeq
    <3>2. QED BY <3>1 DEF quoteEnd
  <2> HIDE DEF m
  <2>4. m # 0 /\ m \in Nat
    BY <1>0, <2>2
  <2>5. quoteEnd(input, p) = m
    BY <2>3, <2>4
  <2>7. QED BY <1>0, <2>2, <2>4, <2>5
<1>3. QED BY <1>1, <1>2

\* The lexer always moves on, and never past the end.
LEMMA TokenEnd ==
  ASSUME NEW input \in Text, NEW p \in 1 .. Len(input)
  PROVE  tokenEnd(input, p) \in p + 1 .. Len(input) + 1
<1> DEFINE c == input[p]
           q == quoteEnd(input, p + 1)
<1>0. Len(input) \in Nat /\ p \in 1 .. Len(input) + 1 /\ p + 1 \in 1 .. Len(input) + 1
  BY DEF Text
<1>1. q \in p + 1 .. Len(input) + 1
  BY <1>0, QuoteEnd
<1>2. c \in Digit => runEnd(input, p, Digit) \in p + 1 .. Len(input) + 1
  BY <1>0, RunEnd
<1>3. c \in Letter => runEnd(input, p, Letter \cup Digit) \in p + 1 .. Len(input) + 1
  <2>1. c \in Letter => c \in Letter \cup Digit OBVIOUS
  <2>2. QED BY <1>0, <2>1, RunEnd
<1>4. \/ tokenEnd(input, p) = IF q > Len(input) THEN Len(input) + 1 ELSE q + 1
      \/ c \in Digit /\ tokenEnd(input, p) = runEnd(input, p, Digit)
      \/ c \in Letter /\ tokenEnd(input, p) = runEnd(input, p, Letter \cup Digit)
      \/ tokenEnd(input, p) = p + 1
  BY DEF tokenEnd
<1> HIDE DEF q, c
<1>5. QED BY <1>0, <1>1, <1>2, <1>3, <1>4

\* What tokenAt returns at a position of the line is a token.
LEMMA TokenAt ==
  ASSUME NEW input \in Text, NEW p \in 1 .. Len(input)
  PROVE  tokenAt(input, p) \in Tok
<1> DEFINE c == input[p]
           e == runEnd(input, p, Letter \cup Digit)
           n == runEnd(input, p, Digit)
           q == quoteEnd(input, p + 1)
           word == SubSeq(input, p, e - 1)
<1>0. /\ input \in Seq(STRING) /\ Len(input) \in Nat /\ c \in STRING
      /\ p \in 1 .. Len(input) + 1 /\ p + 1 \in 1 .. Len(input) + 1
  BY ElementOfSeq DEF Text
<1>1. e \in p .. Len(input) + 1 /\ n \in p .. Len(input) + 1 /\ q \in p + 1 .. Len(input) + 1
  <2>1. e \in p .. Len(input) + 1 BY <1>0, RunEnd
  <2>2. n \in p .. Len(input) + 1 BY <1>0, RunEnd
  <2>3. q \in p + 1 .. Len(input) + 1 BY <1>0, QuoteEnd
  <2>4. QED BY <2>1, <2>2, <2>3
<1> HIDE DEF e, n, q
<1>2. word \in Text /\ SubSeq(input, p, n - 1) \in Text /\ SubSeq(input, p + 1, q - 1) \in Text
  <2>1. word \in Text BY <1>0, <1>1, PartOf DEF Text
  <2>2. SubSeq(input, p, n - 1) \in Text BY <1>0, <1>1, PartOf DEF Text
  <2>3. SubSeq(input, p + 1, q - 1) \in Text BY <1>0, <1>1, PartOf DEF Text
  <2>4. QED BY <2>1, <2>2, <2>3
<1>3. keywordType(word) \in TokenType
  <2> DEFINE same == {k \in Keyword : spelling[k] = toUpper(word)}
  <2>1. keywordType(word) = IF same = {} THEN "IDENTIFIER" ELSE CHOOSE k \in same : TRUE
    BY DEF keywordType
  <2>2. same \subseteq TokenType
    BY DEF TokenType
  <2> HIDE DEF same
  <2>3. same # {} => (CHOOSE k \in same : TRUE) \in TokenType
    BY <2>2
  <2>4. "IDENTIFIER" \in TokenType
    BY DEF TokenType
  <2>5. QED BY <2>1, <2>3, <2>4
<1>4. c \in Symbol => symbolType[c] \in TokenType
  BY DEF symbolType, Symbol, TokenType
<1>5. <<c>> \in Text
  BY <1>0 DEF Text
<1>6. \/ c \in Symbol /\ tokenAt(input, p) = Token(symbolType[c], <<c>>)
      \/ tokenAt(input, p) = Token("STRING", SubSeq(input, p + 1, q - 1))
      \/ tokenAt(input, p) = Token("NUMBER", SubSeq(input, p, n - 1))
      \/ tokenAt(input, p) = Token(keywordType(word), word)
      \/ tokenAt(input, p) = Token("UNKNOWN", <<c>>)
  BY DEF tokenAt, stringAt, q, n, e
<1> HIDE DEF word, c
<1>7. {"STRING", "NUMBER", "UNKNOWN"} \subseteq TokenType
  BY DEF TokenType
<1>8. \A type \in TokenType, text \in Text : Token(type, text) \in Tok
  BY DEF Tok, Token
<1>9. QED BY <1>2, <1>3, <1>4, <1>5, <1>6, <1>7, <1>8

\* One turn of handleInput's loop, given the tokens L from the positions behind p.
LexStep(input, L, p) ==
  IF p > Len(input) THEN <<Token("EOF", <<>>)>>
  ELSE IF input[p] \in Space THEN L[p + 1]
  ELSE <<tokenAt(input, p)>> \o L[tokenEnd(input, p)]

\* The recursive function of handleInput exists: a token ends behind its start.
LEMMA LexingExists ==
  ASSUME NEW input \in Text
  PROVE  \E L : L = [p \in 1 .. Len(input) + 1 |-> LexStep(input, L, p)]
<1> DEFINE N == Len(input) + 1
           Good(R, k) == \A i \in 1 .. N : i > N - k => R[i] = LexStep(input, R, i)
           K == {k \in Nat : \E R : R = [i \in 1 .. N |-> R[i]] /\ Good(R, k)}
<1>0. N \in Nat \ {0} /\ Len(input) \in Nat
  BY DEF Text
<1>1. 0 \in K
  <2> DEFINE Z == [i \in 1 .. N |-> <<>>]
  <2>1. Z = [i \in 1 .. N |-> Z[i]] /\ Good(Z, 0)
    BY <1>0
  <2>2. QED BY <2>1
<1>2. ASSUME NEW k \in Nat, k \in K PROVE k + 1 \in K
  <2>1. PICK R : R = [i \in 1 .. N |-> R[i]] /\ Good(R, k)
    BY <1>2
  <2> DEFINE Q == [i \in 1 .. N |-> IF i = N - k THEN LexStep(input, R, i) ELSE R[i]]
  <2>2. ASSUME NEW i \in 1 .. N, i > N - (k + 1) PROVE Q[i] = LexStep(input, Q, i)
    <3>1. LexStep(input, Q, i) = LexStep(input, R, i)
      <4>1. CASE i > Len(input)
        BY <4>1 DEF LexStep
      <4>2. CASE ~(i > Len(input))
        <5> DEFINE e == tokenEnd(input, i)
        <5>1. i \in 1 .. Len(input) BY <1>0, <4>2
        <5>2. e \in i + 1 .. N BY <5>1, TokenEnd
        <5> HIDE DEF e
        <5>3. Q[e] = R[e] /\ Q[i + 1] = R[i + 1] BY <1>0, <2>2, <5>1, <5>2
        <5> HIDE DEF Q
        <5>4. QED BY <4>2, <5>3 DEF LexStep, e
      <4>3. QED BY <4>1, <4>2
    <3>2. Q[i] = LexStep(input, R, i)
      <4>1. CASE i = N - k BY <4>1
      <4>2. CASE i # N - k
        <5>1. i > N - k BY <1>0, <2>2, <4>2
        <5>2. QED BY <2>1, <4>2, <5>1
      <4>3. QED BY <4>1, <4>2
    <3>3. QED BY <3>1, <3>2
  <2>3. Q = [i \in 1 .. N |-> Q[i]]
    OBVIOUS
  <2> HIDE DEF Q
  <2>4. Good(Q, k + 1)
    BY <2>2
  <2>5. QED BY <2>3, <2>4
<1>3. Nat \subseteq K
  <2> HIDE DEF K
  <2>1. QED BY <1>1, <1>2, SetInduction
<1>4. PICK R : R = [i \in 1 .. N |-> R[i]] /\ Good(R, N)
  BY <1>0, <1>3
<1>5. \A i \in 1 .. N : R[i] = LexStep(input, R, i)
  BY <1>0, <1>4
<1>6. R = [i \in 1 .. N |-> LexStep(input, R, i)]
  BY <1>4, <1>5
<1>7. QED BY <1>6

\* A token in front of tokens.
LEMMA MoreTokens ==
  ASSUME NEW t \in Tok, NEW toks \in Tokens
  PROVE  <<t>> \o toks \in Tokens
<1>1. toks \in Seq(Tok) /\ Len(toks) \in Nat \ {0} /\ toks[Len(toks)].type = "EOF"
  BY DEF Tokens
<1> DEFINE a == <<t>>
<1>2. a \in Seq(Tok) /\ Len(a) = 1
  OBVIOUS
<1> HIDE DEF a
<1>3. /\ a \o toks \in Seq(Tok) /\ Len(a \o toks) = Len(a) + Len(toks)
      /\ \A k \in 1 .. Len(toks) : (a \o toks)[Len(a) + k] = toks[k]
  <2>1. a \in Seq(Tok) /\ toks \in Seq(Tok) BY <1>1, <1>2
  <2>2. QED BY ONLY <2>1, ConcatAt
<1>4. Len(toks) \in 1 .. Len(toks)
  BY <1>1
<1>5. (a \o toks)[Len(a \o toks)] = toks[Len(toks)]
  BY <1>3, <1>4
<1>6. Len(a \o toks) > 0
  BY <1>1, <1>2, <1>3
<1>7. a \o toks # <<>>
  BY <1>3, <1>6
<1>8. QED BY <1>1, <1>3, <1>5, <1>7 DEF Tokens, a

\* handleInput makes a sequence of tokens of every line, and EOF is the last: each turn
\* of its loop moves forward, also in a literal that is not closed.
THEOREM LexerType ==
  ASSUME NEW input \in Text
  PROVE  handleInput(input) \in Tokens
<1> DEFINE L == CHOOSE L : L = [p \in 1 .. Len(input) + 1 |-> LexStep(input, L, p)]
           N == Len(input) + 1
           S == {p \in 1 .. N : L[p] \in Tokens}
<1>0. N \in Nat /\ 1 \in 1 .. N /\ Len(input) \in Nat
  BY DEF Text
<1>1. L = [p \in 1 .. Len(input) + 1 |-> LexStep(input, L, p)]
  BY LexingExists
<1>2. handleInput(input) = L[1]
  BY DEF handleInput, LexStep
<1> HIDE DEF L
<1>3. \A p \in 1 .. N : L[p] = LexStep(input, L, p)
  BY <1>1
<1>4. ASSUME NEW p \in 1 .. N, \A j \in p + 1 .. N : j \in S PROVE p \in S
  <2> SUFFICES L[p] \in Tokens
    OBVIOUS
  <2>1. L[p] = LexStep(input, L, p)
    BY <1>3
  <2>2. CASE p > Len(input)
    <3> DEFINE t == Token("EOF", <<>>)
    <3>1. L[p] = <<t>> BY <2>1, <2>2 DEF LexStep
    <3>2. t \in Tok /\ t.type = "EOF"
      <4>1. "EOF" \in TokenType /\ <<>> \in Text BY DEF TokenType, Text
      <4>2. QED BY <4>1 DEF Token, Tok
    <3> HIDE DEF t
    <3>3. <<t>> \in Seq(Tok) /\ <<t>> # <<>> /\ Len(<<t>>) = 1 /\ <<t>>[1] = t BY <3>2
    <3>4. QED BY <3>1, <3>2, <3>3 DEF Tokens
  <2>3. CASE ~(p > Len(input))
    <3> DEFINE e == tokenEnd(input, p)
    <3>1. p \in 1 .. Len(input) BY <1>0, <2>3
    <3>2. e \in p + 1 .. N BY <3>1, TokenEnd
    <3>3. tokenAt(input, p) \in Tok BY <3>1, TokenAt
    <3> HIDE DEF e
    <3>4. p + 1 \in p + 1 .. N BY <1>0, <3>1
    <3>5. L[e] \in Tokens /\ L[p + 1] \in Tokens BY <1>4, <3>2, <3>4
    <3>6. L[p] = L[p + 1] \/ L[p] = <<tokenAt(input, p)>> \o L[e]
      BY <2>1, <2>3 DEF LexStep, e
    <3>7. QED BY <3>3, <3>5, <3>6, MoreTokens
  <2>4. QED BY <2>2, <2>3
<1>5. 1 .. N \subseteq S
  <2> HIDE DEF S, N
  <2>1. QED BY <1>0, <1>4, DownInduction
<1>6. QED BY <1>0, <1>2, <1>5

-------------------------------------------------------------------------------
(* The parser *)

\* A column of a schema.
Column == [name : Text, type : DataType]

\* What the statements that are executed need of a statement.
StmtOK(s) == s.columns \in Seq(Column) /\ s.values \in Seq(Text)

\* An item can start at each of these positions, and a token follows it.
StartsOK(toks, starts, width) ==
  /\ width \in {1, 2} /\ starts \subseteq 1 .. Len(toks)
  /\ \A p \in starts : p + width <= Len(toks)

\* Where the item behind the one at p starts.
itemAfter(toks, width, p) ==
  IF toks[p + width].type = "COMMA" THEN p + width + 1 ELSE p + width

\* One turn of parseList's loop, given the lists R from the positions behind p.
ListStep(toks, starts, width, R, p) ==
  IF toks[p].type \in {"RPAREN", "EOF"} THEN [items |-> <<>>, next |-> p]
  ELSE IF p \notin starts THEN [items |-> <<>>, next |-> 0]
  ELSE [R[itemAfter(toks, width, p)] EXCEPT !.items = <<p>> \o @]

\* Each item of a list takes the parser forward and not behind the EOF token.
LEMMA ItemAfter ==
  ASSUME NEW toks \in Tokens, NEW starts, NEW width, StartsOK(toks, starts, width), NEW p \in starts
  PROVE  itemAfter(toks, width, p) \in p + 1 .. Len(toks)
<1>1. Len(toks) \in Nat /\ toks[Len(toks)].type = "EOF"
  BY DEF Tokens
<1>2. p \in 1 .. Len(toks) /\ p + width <= Len(toks) /\ width \in {1, 2}
  BY DEF StartsOK
<1>3. toks[p + width].type = "COMMA" => p + width # Len(toks)
  BY <1>1
<1>4. itemAfter(toks, width, p) \in {p + width, p + width + 1}
      /\ (itemAfter(toks, width, p) = p + width + 1 => toks[p + width].type = "COMMA")
  <2>1. p + width # p + width + 1 BY <1>2
  <2>2. QED BY <2>1 DEF itemAfter
<1>5. QED BY <1>1, <1>2, <1>3, <1>4

\* The recursive function of parseList exists.
LEMMA ListExists ==
  ASSUME NEW toks \in Tokens, NEW starts, NEW width, StartsOK(toks, starts, width)
  PROVE  \E R : R = [p \in 1 .. Len(toks) |-> ListStep(toks, starts, width, R, p)]
<1> DEFINE N == Len(toks)
           Step(R, i) == ListStep(toks, starts, width, R, i)
           Good(R, k) == \A i \in 1 .. N : i > N - k => R[i] = Step(R, i)
           K == {k \in Nat : \E R : R = [i \in 1 .. N |-> R[i]] /\ Good(R, k)}
<1>0. N \in Nat
  BY DEF Tokens
<1>1. 0 \in K
  <2> DEFINE Z == [i \in 1 .. N |-> <<>>]
  <2>1. Z = [i \in 1 .. N |-> Z[i]] /\ Good(Z, 0)
    BY <1>0
  <2>2. QED BY <2>1
<1>2. ASSUME NEW k \in Nat, k \in K PROVE k + 1 \in K
  <2>1. PICK R : R = [i \in 1 .. N |-> R[i]] /\ Good(R, k)
    BY <1>2
  <2> DEFINE Q == [i \in 1 .. N |-> IF i = N - k THEN Step(R, i) ELSE R[i]]
  <2>2. ASSUME NEW i \in 1 .. N, i > N - (k + 1) PROVE Q[i] = Step(Q, i)
    <3>1. Step(Q, i) = Step(R, i)
      <4>1. CASE i \in starts
        <5> DEFINE e == itemAfter(toks, width, i)
        <5>1. e \in i + 1 .. N BY <4>1, ItemAfter
        <5> HIDE DEF e
        <5>2. Q[e] = R[e] BY <1>0, <2>2, <5>1
        <5> HIDE DEF Q
        <5>3. QED BY <5>2 DEF ListStep, e
      <4>2. CASE i \notin starts
        BY <4>2 DEF ListStep
      <4>3. QED BY <4>1, <4>2
    <3>2. Q[i] = Step(R, i)
      <4> HIDE DEF Step
      <4>1. CASE i = N - k BY <4>1
      <4>2. CASE i # N - k
        <5>1. i > N - k BY <1>0, <2>2, <4>2
        <5>2. QED BY <2>1, <4>2, <5>1
      <4>3. QED BY <4>1, <4>2
    <3>3. QED BY <3>1, <3>2
  <2>3. Q = [i \in 1 .. N |-> Q[i]]
    OBVIOUS
  <2> HIDE DEF Q, Step
  <2>4. Good(Q, k + 1)
    BY <2>2
  <2>5. QED BY <2>3, <2>4
<1>3. Nat \subseteq K
  <2> HIDE DEF K
  <2>1. QED BY <1>1, <1>2, SetInduction
<1> HIDE DEF Step
<1>4. PICK R : R = [i \in 1 .. N |-> R[i]] /\ Good(R, N)
  BY <1>0, <1>3
<1>5. \A i \in 1 .. N : R[i] = Step(R, i)
  BY <1>0, <1>4
<1>6. R = [i \in 1 .. N |-> Step(R, i)]
  BY <1>4, <1>5
<1>7. QED BY <1>6 DEF Step

\* The items of a list start where items can.
LEMMA ParseListType ==
  ASSUME NEW toks \in Tokens, NEW starts, NEW width, StartsOK(toks, starts, width),
         NEW start \in 1 .. Len(toks)
  PROVE  parseList(toks, start, starts, width).items \in Seq(starts)
<1> DEFINE L == CHOOSE R : R = [p \in 1 .. Len(toks) |-> ListStep(toks, starts, width, R, p)]
           N == Len(toks)
           List == [items : Seq(starts), next : Nat]
           S == {p \in 1 .. N : L[p] \in List}
<1>0. N \in Nat
  BY DEF Tokens
<1>1. L = [p \in 1 .. Len(toks) |-> ListStep(toks, starts, width, L, p)]
  BY ListExists
<1>2. parseList(toks, start, starts, width) = L[start]
  BY DEF parseList, ListStep, itemAfter
<1> HIDE DEF L
<1>3. \A p \in 1 .. N : L[p] = ListStep(toks, starts, width, L, p)
  BY <1>1
<1>4. ASSUME NEW p \in 1 .. N, \A j \in p + 1 .. N : j \in S PROVE p \in S
  <2> SUFFICES L[p] \in List
    OBVIOUS
  <2>1. L[p] = ListStep(toks, starts, width, L, p)
    BY <1>3
  <2>2. <<>> \in Seq(starts) /\ p \in Nat
    BY <1>0
  <2>3. CASE p \notin starts \/ toks[p].type \in {"RPAREN", "EOF"}
    BY <2>1, <2>2, <2>3 DEF ListStep
  <2>4. CASE p \in starts /\ toks[p].type \notin {"RPAREN", "EOF"}
    <3> DEFINE r == L[itemAfter(toks, width, p)]
    <3>1. r \in List
      <4>1. itemAfter(toks, width, p) \in p + 1 .. N BY <2>4, ItemAfter
      <4>2. QED BY <1>4, <4>1
    <3>2. L[p] = [r EXCEPT !.items = <<p>> \o @] BY <2>1, <2>4 DEF ListStep
    <3> HIDE DEF r
    <3>3. <<p>> \o r.items \in Seq(starts)
      <4>1. <<p>> \in Seq(starts) /\ r.items \in Seq(starts) BY <2>4, <3>1
      <4>2. QED BY <4>1, ConcatAt
    <3>4. QED BY <3>1, <3>2, <3>3
  <2>5. QED BY <2>3, <2>4
<1>5. 1 .. N \subseteq S
  <2> HIDE DEF S, N
  <2>1. QED BY <1>0, <1>4, DownInduction
<1>6. QED BY <1>2, <1>5

\* A statement that the parser starts with has no columns and no values yet.
LEMMA StatementOK ==
  \A type, name : StmtOK(Statement(type, name))
BY DEF StmtOK, Statement

\* The value of a token is a text.
LEMMA TokenText ==
  ASSUME NEW toks \in Tokens, NEW i \in 1 .. Len(toks)
  PROVE  toks[i] \in Tok /\ toks[i].value \in Text
<1>1. toks[i] \in Tok
  BY ElementOfSeq DEF Tokens
<1>2. QED BY <1>1 DEF Tok

\* The columns of a CREATE TABLE have a name and a type.
LEMMA ParseCreateOK ==
  ASSUME NEW toks \in Tokens
  PROVE  StmtOK(parseCreateTable(toks))
<1> DEFINE starts == {p \in 1 .. Len(toks) - 1 :
                        toks[p].type = "IDENTIFIER" /\ toks[p + 1].type \in DataType}
           list == parseList(toks, 5, starts, 2)
           columns == [i \in DOMAIN list.items |->
                         [name |-> toks[list.items[i]].value, type |-> toks[list.items[i] + 1].type]]
<1>0. Len(toks) \in Nat /\ toks[Len(toks)].type = "EOF"
  BY DEF Tokens
<1>1. CASE ~(expect(toks, 1, <<"CREATE", "TABLE", "IDENTIFIER", "LPAREN">>) /\ closed(toks, list))
  <2>1. parseCreateTable(toks) = ParseError
    BY <1>1 DEF parseCreateTable
  <2>2. QED BY <2>1, StatementOK DEF ParseError
<1>2. CASE expect(toks, 1, <<"CREATE", "TABLE", "IDENTIFIER", "LPAREN">>) /\ closed(toks, list)
  <2>1. 5 \in 1 .. Len(toks)
    <3> DEFINE types == <<"CREATE", "TABLE", "IDENTIFIER", "LPAREN">>
    <3>1. 1 + Len(types) - 1 <= Len(toks) /\ \A i \in DOMAIN types : toks[1 + i - 1].type = types[i]
      BY <1>2 DEF expect
    <3>2. Len(types) = 4 /\ 4 \in DOMAIN types /\ types[4] = "LPAREN"
      OBVIOUS
    <3> HIDE DEF types
    <3>3. 4 <= Len(toks) /\ toks[4].type = "LPAREN"
      <4>1. 1 + 4 - 1 = 4 OBVIOUS
      <4>2. toks[1 + 4 - 1].type = types[4] BY <3>1, <3>2
      <4>3. QED BY <3>1, <3>2, <4>1, <4>2
    <3>4. Len(toks) # 4 BY <1>0, <3>3
    <3>5. QED BY <1>0, <3>3, <3>4
  <2>2. StartsOK(toks, starts, 2)
    <3>1. ASSUME NEW p \in starts PROVE p + 2 <= Len(toks)
      <4>1. p \in 1 .. Len(toks) - 1 /\ toks[p + 1].type \in DataType OBVIOUS
      <4>2. p + 1 # Len(toks) BY <1>0, <4>1 DEF DataType
      <4>3. QED BY <1>0, <4>1, <4>2
    <3>2. starts \subseteq 1 .. Len(toks) BY <1>0
    <3>3. QED BY <3>1, <3>2 DEF StartsOK
  <2>3. \A p \in starts : p \in 1 .. Len(toks) /\ toks[p + 1].type \in DataType
    BY <1>0
  <2> HIDE DEF starts
  <2>4. list.items \in Seq(starts)
    BY <2>1, <2>2, ParseListType
  <2> DEFINE l == list.items
  <2> HIDE DEF list
  <2>5. ASSUME NEW i \in 1 .. Len(l)
        PROVE  [name |-> toks[l[i]].value, type |-> toks[l[i] + 1].type] \in Column
    <3>1. l[i] \in starts BY <2>4, ElementOfSeq
    <3>2. toks[l[i]].value \in Text BY <2>3, <3>1, TokenText
    <3>3. QED BY <2>3, <3>1, <3>2 DEF Column
  <2>6. columns \in Seq(Column)
    <3>1. DOMAIN l = 1 .. Len(l) /\ Len(l) \in Nat BY <2>4
    <3>2. columns = [i \in 1 .. Len(l) |->
                       [name |-> toks[l[i]].value, type |-> toks[l[i] + 1].type]]
      BY <3>1
    <3> HIDE DEF columns
    <3>3. \A i \in 1 .. Len(l) : columns[i] \in Column
      BY <2>5, <3>2
    <3>4. columns = [i \in 1 .. Len(l) |-> columns[i]]
      BY <3>2
    <3> HIDE DEF l
    <3>5. QED BY <3>1, <3>3, <3>4
  <2>7. parseCreateTable(toks) = [Statement("CREATE_TABLE", toks[3].value) EXCEPT !.columns = columns]
    BY <1>2 DEF parseCreateTable, list, starts
  <2> HIDE DEF columns
  <2>8. QED BY <2>6, <2>7 DEF StmtOK, Statement
<1>3. QED BY <1>1, <1>2

\* The values of an INSERT are texts.
LEMMA ParseInsertOK ==
  ASSUME NEW toks \in Tokens
  PROVE  StmtOK(parseInsert(toks))
<1> DEFINE starts == {p \in DOMAIN toks : toks[p].type \in ValueToken}
           list == parseList(toks, 6, starts, 1)
           values == [i \in DOMAIN list.items |-> toks[list.items[i]].value]
           types == <<"INSERT", "INTO", "IDENTIFIER", "VALUES", "LPAREN">>
<1>0. Len(toks) \in Nat /\ toks[Len(toks)].type = "EOF" /\ DOMAIN toks = 1 .. Len(toks)
  BY DEF Tokens
<1>1. CASE ~(expect(toks, 1, types) /\ closed(toks, list))
  <2>1. parseInsert(toks) = ParseError
    BY <1>1 DEF parseInsert
  <2>2. QED BY <2>1, StatementOK DEF ParseError
<1>2. CASE expect(toks, 1, types) /\ closed(toks, list)
  <2>1. 6 \in 1 .. Len(toks)
    <3>1. 1 + Len(types) - 1 <= Len(toks) /\ \A i \in DOMAIN types : toks[1 + i - 1].type = types[i]
      BY <1>2 DEF expect
    <3>2. Len(types) = 5 /\ 5 \in DOMAIN types /\ types[5] = "LPAREN"
      OBVIOUS
    <3> HIDE DEF types
    <3>3. 5 <= Len(toks) /\ toks[5].type = "LPAREN"
      <4>1. 1 + 5 - 1 = 5 OBVIOUS
      <4>2. toks[1 + 5 - 1].type = types[5] BY <3>1, <3>2
      <4>3. QED BY <3>1, <3>2, <4>1, <4>2
    <3>4. Len(toks) # 5 BY <1>0, <3>3
    <3>5. QED BY <1>0, <3>3, <3>4
  <2>2. StartsOK(toks, starts, 1)
    <3>1. ASSUME NEW p \in starts PROVE p + 1 <= Len(toks)
      <4>1. p \in 1 .. Len(toks) /\ toks[p].type \in ValueToken BY <1>0
      <4>2. p # Len(toks) BY <1>0, <4>1 DEF ValueToken
      <4>3. QED BY <1>0, <4>1, <4>2
    <3>2. starts \subseteq 1 .. Len(toks) BY <1>0
    <3>3. QED BY <3>1, <3>2 DEF StartsOK
  <2>3. \A p \in starts : p \in 1 .. Len(toks)
    BY <1>0
  <2> HIDE DEF starts
  <2>4. list.items \in Seq(starts)
    BY <2>1, <2>2, ParseListType
  <2> DEFINE l == list.items
  <2> HIDE DEF list
  <2>5. ASSUME NEW i \in 1 .. Len(l) PROVE toks[l[i]].value \in Text
    <3>1. l[i] \in starts BY <2>4, ElementOfSeq
    <3>2. QED BY <2>3, <3>1, TokenText
  <2>6. values \in Seq(Text)
    <3>1. DOMAIN l = 1 .. Len(l) /\ Len(l) \in Nat BY <2>4
    <3>2. values = [i \in 1 .. Len(l) |-> toks[l[i]].value]
      BY <3>1
    <3> HIDE DEF l
    <3>3. QED BY <2>5, <3>1, <3>2
  <2>7. parseInsert(toks) = [Statement("INSERT", toks[3].value) EXCEPT !.values = values]
    BY <1>2 DEF parseInsert, list, starts
  <2> HIDE DEF values
  <2>8. QED BY <2>6, <2>7 DEF StmtOK, Statement
<1>3. QED BY <1>1, <1>2

\* A WHERE clause changes neither the columns nor the values.
LEMMA ParseWhereOK ==
  ASSUME NEW toks, NEW p, NEW type, NEW name, NEW cols
  PROVE  StmtOK(parseWhere(toks, p, [Statement(type, name) EXCEPT !.selectColumns = cols]))
BY StatementOK DEF parseWhere, Statement, StmtOK, ParseError

\* Whatever tokens parse is given, the columns of its statement have a name and a type
\* and its values are texts: no list is read behind the EOF token.
THEOREM ParserType ==
  ASSUME NEW toks \in Tokens
  PROVE  StmtOK(parse(toks))
<1>1. StmtOK(parseCreateTable(toks))
  BY ParseCreateOK
<1>2. StmtOK(parseInsert(toks))
  BY ParseInsertOK
<1>3. StmtOK(ParseError)
  BY StatementOK DEF ParseError
<1>4. StmtOK(parseSelect(toks))
  BY <1>3, ParseWhereOK DEF parseSelect
<1>5. StmtOK(parseDelete(toks))
  <2>1. StmtOK(parseWhere(toks, 4, Statement("DELETE_STMT", toks[3].value)))
    BY StatementOK DEF parseWhere, Statement, StmtOK, ParseError
  <2>2. QED BY <1>3, <2>1 DEF parseDelete
<1>6. QED BY <1>1, <1>2, <1>3, <1>4, <1>5 DEF parse

-------------------------------------------------------------------------------
(* serializeTuple and deserializeTuple *)

\* The cells of a stored tuple, and the values of a tuple.
CellOf == Int \cup STRING

\* The values of the common types, with what their fields hold.
Val == {IntValue(n) : n \in Int} \cup {TextValue(s) : s \in Text}

\* The tuples of a table.
Row(schema) ==
  {v \in Seq(Val) : Len(v) = Len(schema) /\ \A i \in 1 .. Len(schema) : v[i].type = schema[i].type}

\* F[i] is what the first i of seqs are, one after the other.
Parts(S, seqs, F) ==
  /\ F[0] = <<>>
  /\ \A i \in 1 .. Len(seqs) : F[i] = F[i - 1] \o seqs[i]
  /\ \A i \in 0 .. Len(seqs) : F[i] \in Seq(S)

\* The parts exist for every sequence of sequences, by induction on their number.
LEMMA PartsExist ==
  ASSUME NEW S, NEW seqs \in Seq(Seq(S))
  PROVE  \E F : Parts(S, seqs, F) /\ F = [i \in 0 .. Len(seqs) |-> F[i]]
<1> DEFINE n == Len(seqs)
           K == {k \in Nat : \E F : /\ F = [i \in 0 .. n |-> F[i]] /\ F[0] = <<>>
                                    /\ \A i \in 1 .. n : i <= k => F[i] = F[i - 1] \o seqs[i]
                                    /\ \A i \in 0 .. n : F[i] \in Seq(S)}
<1>0. n \in Nat
  OBVIOUS
<1>1. 0 \in K
  <2> DEFINE Z == [i \in 0 .. n |-> <<>>]
  <2>1. /\ Z = [i \in 0 .. n |-> Z[i]] /\ Z[0] = <<>>
        /\ \A i \in 1 .. n : i <= 0 => Z[i] = Z[i - 1] \o seqs[i]
        /\ \A i \in 0 .. n : Z[i] \in Seq(S)
    <3>1. \A i \in 0 .. n : Z[i] = <<>> OBVIOUS
    <3>2. <<>> \in Seq(S) OBVIOUS
    <3>3. Z = [i \in 0 .. n |-> Z[i]] OBVIOUS
    <3> HIDE DEF Z
    <3>4. \A i \in 1 .. n : ~(i <= 0) BY <1>0
    <3>5. QED BY <1>0, <3>1, <3>2, <3>3, <3>4
  <2> HIDE DEF Z
  <2>2. QED BY <2>1
<1>2. ASSUME NEW k \in Nat, k \in K PROVE k + 1 \in K
  <2>1. PICK F : /\ F = [i \in 0 .. n |-> F[i]] /\ F[0] = <<>>
                 /\ \A i \in 1 .. n : i <= k => F[i] = F[i - 1] \o seqs[i]
                 /\ \A i \in 0 .. n : F[i] \in Seq(S)
    BY <1>2
  <2> DEFINE G == [i \in 0 .. n |-> IF i = k + 1 THEN F[k] \o seqs[k + 1] ELSE F[i]]
  <2>2. G = [i \in 0 .. n |-> G[i]]
    OBVIOUS
  <2>3. G[0] = <<>>
    BY <1>0, <2>1
  <2>4. ASSUME NEW i \in 1 .. n, i <= k + 1 PROVE G[i] = G[i - 1] \o seqs[i]
    <3>1. i - 1 \in 0 .. n /\ i - 1 # k + 1 /\ i \in 0 .. n BY <1>0, <2>4
    <3>2. G[i - 1] = F[i - 1] BY <3>1
    <3>3. CASE i = k + 1
      <4>1. i - 1 = k BY <3>3
      <4>2. G[i] = F[k] \o seqs[k + 1] BY <3>1, <3>3
      <4> HIDE DEF G
      <4>3. QED BY <3>2, <3>3, <4>1, <4>2
    <3>4. CASE i # k + 1
      <4>1. i <= k BY <2>4, <3>4
      <4>2. G[i] = F[i] BY <3>1, <3>4
      <4> HIDE DEF G
      <4>3. QED BY <2>1, <3>2, <4>1, <4>2
    <3>5. QED BY <3>3, <3>4
  <2>5. ASSUME NEW i \in 0 .. n PROVE G[i] \in Seq(S)
    <3>1. CASE i = k + 1
      <4> DEFINE a == F[k]
                 b == seqs[k + 1]
      <4>1. k \in 0 .. n /\ k + 1 \in 1 .. n BY <1>0, <3>1
      <4>2. a \in Seq(S) BY <2>1, <4>1
      <4>3. b \in Seq(S) BY <4>1, ElementOfSeq
      <4>4. G[i] = a \o b BY <3>1
      <4> HIDE DEF a, b, G
      <4>5. QED BY <4>2, <4>3, <4>4, ConcatAt
    <3>2. CASE i # k + 1
      <4>1. G[i] = F[i] BY <3>2
      <4>2. QED BY <2>1, <4>1
    <3>3. QED BY <3>1, <3>2
  <2>6. k + 1 \in Nat
    OBVIOUS
  <2> HIDE DEF G
  <2>7. \E H : /\ H = [i \in 0 .. n |-> H[i]] /\ H[0] = <<>>
               /\ \A i \in 1 .. n : i <= k + 1 => H[i] = H[i - 1] \o seqs[i]
               /\ \A i \in 0 .. n : H[i] \in Seq(S)
    BY <2>2, <2>3, <2>4, <2>5
  <2>8. QED BY <2>6, <2>7, Zenon
<1>3. n \in K
  <2> HIDE DEF K
  <2>1. Nat \subseteq K BY <1>1, <1>2, SetInduction
  <2>2. QED BY <1>0, <2>1
<1>4. PICK F : /\ F = [i \in 0 .. n |-> F[i]] /\ F[0] = <<>>
               /\ \A i \in 1 .. n : i <= n => F[i] = F[i - 1] \o seqs[i]
               /\ \A i \in 0 .. n : F[i] \in Seq(S)
  BY <1>3
<1>5. \A i \in 1 .. n : F[i] = F[i - 1] \o seqs[i]
  <2>1. \A i \in 1 .. n : i <= n BY <1>0
  <2>2. QED BY <1>4, <2>1
<1>6. QED BY <1>4, <1>5 DEF Parts

\* One turn of the recursive function of FlattenSeq.
FlatStep(seqs, f, i) == IF i = 1 THEN seqs[i] ELSE f[i - 1] \o seqs[i]

\* serializeTuple appends the values' cells one after the other.
LEMMA FlattenParts ==
  ASSUME NEW S, NEW seqs \in Seq(Seq(S))
  PROVE  \E F : Parts(S, seqs, F) /\ FlattenSeq(seqs) = F[Len(seqs)]
<1> DEFINE n == Len(seqs)
<1>0. n \in Nat
  OBVIOUS
<1>1. PICK F : Parts(S, seqs, F) /\ F = [i \in 0 .. Len(seqs) |-> F[i]]
  BY PartsExist
<1>2. CASE n = 0
  <2>1. FlattenSeq(seqs) = seqs BY <1>2 DEF FlattenSeq
  <2>2. seqs = <<>> BY <1>2
  <2>3. QED BY <1>1, <1>2, <2>1, <2>2 DEF Parts
<1>3. CASE n # 0
  <2> DEFINE f == CHOOSE f : f = [i \in 1 .. n |-> FlatStep(seqs, f, i)]
             G == [i \in 1 .. n |-> F[i]]
  <2>1. \A i \in 1 .. n : G[i] = FlatStep(seqs, G, i)
    <3> SUFFICES ASSUME NEW i \in 1 .. n PROVE G[i] = FlatStep(seqs, G, i)
      OBVIOUS
    <3>1. F[i] = F[i - 1] \o seqs[i] /\ G[i] = F[i] BY <1>1 DEF Parts
    <3>2. CASE i = 1
      <4>1. F[i - 1] = <<>> BY <1>1, <3>2 DEF Parts
      <4> DEFINE b == seqs[i]
      <4>2. b \in Seq(S) BY ElementOfSeq
      <4> HIDE DEF b
      <4>3. <<>> \o b = b BY <4>2
      <4> HIDE DEF G
      <4>4. QED BY <3>1, <3>2, <4>1, <4>3 DEF FlatStep, b
    <3>3. CASE i # 1
      <4>1. i - 1 \in 1 .. n BY <1>0, <3>3
      <4>2. G[i - 1] = F[i - 1] BY <4>1
      <4> HIDE DEF G
      <4>3. QED BY <3>1, <3>3, <4>2 DEF FlatStep
    <3>4. QED BY <3>2, <3>3
  <2>2. G = [i \in 1 .. n |-> FlatStep(seqs, G, i)]
    <3>1. G = [i \in 1 .. n |-> G[i]] OBVIOUS
    <3> HIDE DEF G
    <3>2. QED BY <2>1, <3>1
  <2> HIDE DEF G
  <2>3. f = [i \in 1 .. n |-> FlatStep(seqs, f, i)]
    BY <2>2
  <2>4. FlattenSeq(seqs) = f[n]
    BY <1>3 DEF FlattenSeq, FlatStep
  <2> HIDE DEF f
  <2>5. \A i \in 1 .. n : f[i] = FlatStep(seqs, f, i)
    BY <2>3
  <2> DEFINE M == {k \in Nat : k + 1 <= n => f[k + 1] = F[k + 1]}
  <2>6. 0 \in M
    <3> SUFFICES f[1] = F[1] OBVIOUS
    <3>1. 1 \in 1 .. n BY <1>0, <1>3
    <3>2. f[1] = seqs[1] BY <2>5, <3>1 DEF FlatStep
    <3>3. F[1] = F[1 - 1] \o seqs[1] /\ F[0] = <<>> BY <1>1, <3>1 DEF Parts
    <3> DEFINE b == seqs[1]
    <3>4. b \in Seq(S) BY <3>1, ElementOfSeq
    <3> HIDE DEF b
    <3>5. <<>> \o b = b BY <3>4
    <3>6. 1 - 1 = 0 OBVIOUS
    <3>7. F[1] = <<>> \o b BY <3>3, <3>6 DEF b
    <3>8. QED BY <3>2, <3>5, <3>7 DEF b
  <2>7. ASSUME NEW k \in Nat, k \in M PROVE k + 1 \in M
    <3> SUFFICES ASSUME (k + 1) + 1 <= n PROVE f[(k + 1) + 1] = F[(k + 1) + 1]
      OBVIOUS
    <3> DEFINE i == (k + 1) + 1
    <3>1. i \in 1 .. n /\ i # 1 /\ i - 1 = k + 1 /\ k + 1 <= n BY <1>0
    <3> HIDE DEF i
    <3>2. f[i] = f[i - 1] \o seqs[i] BY <2>5, <3>1 DEF FlatStep
    <3>3. F[i] = F[i - 1] \o seqs[i] BY <1>1, <3>1 DEF Parts
    <3>4. f[k + 1] = F[k + 1] BY <2>7, <3>1
    <3>5. f[i] = F[i] BY <3>1, <3>2, <3>3, <3>4
    <3>6. QED BY <3>5 DEF i
  <2>8. Nat \subseteq M
    <3> HIDE DEF M
    <3>1. QED BY <2>6, <2>7, SetInduction
  <2>9. f[n] = F[n]
    <3>1. n - 1 \in Nat /\ (n - 1) + 1 = n BY <1>0, <1>3
    <3>2. n - 1 \in M BY <2>8, <3>1
    <3>3. QED BY <3>1, <3>2
  <2>10. QED BY <1>1, <2>4, <2>9
<1>4. QED BY <1>2, <1>3

\* seqs[i] is in the whole behind the ones before it.
PartIn(seqs, F, i) ==
  /\ Len(F[i]) = Len(F[i - 1]) + Len(seqs[i])
  /\ Len(F[i]) <= Len(F[Len(seqs)])
  /\ \A k \in 1 .. Len(seqs[i]) : F[Len(seqs)][Len(F[i - 1]) + k] = seqs[i][k]

\* Every one of seqs is in the whole at that place.
LEMMA PartAt ==
  ASSUME NEW S, NEW seqs \in Seq(Seq(S)), NEW F, Parts(S, seqs, F), NEW i \in 1 .. Len(seqs)
  PROVE  PartIn(seqs, F, i)
<1> DEFINE n == Len(seqs)
           Same(j) == /\ Len(F[i]) <= Len(F[j])
                      /\ \A k \in 1 .. Len(F[i]) : F[j][k] = F[i][k]
           M == {m \in Nat : i + m <= n => Same(i + m)}
<1>0. n \in Nat /\ i \in 0 .. n /\ i - 1 \in 0 .. n
  OBVIOUS
<1>1. F[i] \in Seq(S) /\ F[i - 1] \in Seq(S) /\ F[i] = F[i - 1] \o seqs[i] /\ seqs[i] \in Seq(S)
  <2>1. F[i] \in Seq(S) /\ F[i - 1] \in Seq(S) BY <1>0 DEF Parts
  <2>2. F[i] = F[i - 1] \o seqs[i] BY DEF Parts
  <2>3. seqs[i] \in Seq(S) BY ElementOfSeq
  <2>4. QED BY <2>1, <2>2, <2>3
<1>2. /\ Len(F[i]) = Len(F[i - 1]) + Len(seqs[i])
      /\ \A k \in 1 .. Len(seqs[i]) : F[i][Len(F[i - 1]) + k] = seqs[i][k]
  <2> DEFINE a == F[i - 1]
             b == seqs[i]
             c == F[i]
  <2>1. a \in Seq(S) /\ b \in Seq(S) /\ c = a \o b BY <1>1
  <2> HIDE DEF a, b, c
  <2>2. /\ Len(a \o b) = Len(a) + Len(b)
        /\ \A k \in 1 .. Len(b) : (a \o b)[Len(a) + k] = b[k]
    BY <2>1, ConcatAt
  <2>3. Len(c) = Len(a) + Len(b) /\ \A k \in 1 .. Len(b) : c[Len(a) + k] = b[k]
    BY <2>1, <2>2
  <2>4. QED BY <2>3 DEF a, b, c
<1>3. 0 \in M
  <2>1. i + 0 = i OBVIOUS
  <2>2. Len(F[i]) \in Nat
    <3> DEFINE c == F[i]
    <3>1. c \in Seq(S) BY <1>1
    <3> HIDE DEF c
    <3>2. Len(c) \in Nat BY <3>1
    <3>3. QED BY <3>2 DEF c
  <2>3. Same(i) BY <2>2
  <2> HIDE DEF Same
  <2>4. Same(i + 0) BY <2>1, <2>3
  <2>5. QED BY <2>4
<1>4. ASSUME NEW m \in Nat, m \in M PROVE m + 1 \in M
  <2> SUFFICES ASSUME i + (m + 1) <= n PROVE Same(i + (m + 1))
    OBVIOUS
  <2> DEFINE j == i + (m + 1)
  <2>1. j \in 1 .. n /\ j - 1 = i + m /\ i + m <= n /\ j - 1 \in 0 .. n BY <1>0
  <2>2. Same(j - 1) BY <1>4, <2>1
  <2> HIDE DEF j
  <2> DEFINE a == F[j - 1]
             b == seqs[j]
             c == F[j]
             d == F[i]
  <2>3. a \in Seq(S) /\ b \in Seq(S) /\ c = a \o b
    <3>1. a \in Seq(S) BY <2>1 DEF Parts
    <3>2. b \in Seq(S) BY <2>1, ElementOfSeq
    <3>3. c = a \o b BY <2>1 DEF Parts
    <3>4. QED BY <3>1, <3>2, <3>3
  <2>4. d \in Seq(S) /\ Len(d) <= Len(a) /\ \A k \in 1 .. Len(d) : a[k] = d[k]
    BY <1>1, <2>2
  <2> HIDE DEF a, b, c, d
  <2>5. Len(a \o b) = Len(a) + Len(b) /\ \A k \in 1 .. Len(a) : (a \o b)[k] = a[k]
    BY <2>3, ConcatAt
  <2>6. Len(d) \in Nat /\ Len(a) \in Nat /\ Len(b) \in Nat
    BY <2>3, <2>4
  <2>7. Len(c) = Len(a) + Len(b) /\ \A k \in 1 .. Len(a) : c[k] = a[k]
    BY <2>3, <2>5
  <2>8. Len(d) <= Len(c) /\ \A k \in 1 .. Len(d) : c[k] = d[k]
    BY <2>4, <2>6, <2>7
  <2>9. Same(j) BY <2>8 DEF c, d
  <2>10. QED BY <2>9 DEF j
<1>5. Nat \subseteq M
  <2> HIDE DEF M
  <2>1. QED BY <1>3, <1>4, SetInduction
<1>6. Same(n)
  <2>1. n - i \in Nat /\ i + (n - i) = n BY <1>0
  <2>2. n - i \in M BY <1>5, <2>1
  <2> HIDE DEF Same
  <2>3. Same(i + (n - i)) BY <2>1, <2>2
  <2>4. QED BY <2>1, <2>3
<1>7. \A k \in 1 .. Len(seqs[i]) : Len(F[i - 1]) + k \in 1 .. Len(F[i])
  <2> DEFINE a == F[i - 1]
             b == seqs[i]
             c == Len(F[i])
  <2>1. a \in Seq(S) /\ b \in Seq(S) /\ c = Len(a) + Len(b) BY <1>1, <1>2
  <2> HIDE DEF a, b, c
  <2>2. \A k \in 1 .. Len(b) : Len(a) + k \in 1 .. c BY <2>1
  <2>3. QED BY <2>2 DEF a, b, c
<1>8. QED BY <1>2, <1>6, <1>7 DEF PartIn

\* The cells of one value: a marker, the int or the length, and the text.
LEMMA CellsOf ==
  ASSUME NEW v \in Val
  PROVE  /\ cells(v) \in Seq(CellOf)
         /\ \/ /\ v = IntValue(v.int) /\ v.int \in Int /\ v.type = "INT"
               /\ Len(cells(v)) = 2 /\ cells(v)[1] = 1 /\ cells(v)[2] = v.int
            \/ /\ v = TextValue(v.text) /\ v.text \in Text /\ v.type = "TEXT"
               /\ Len(cells(v)) = 2 + Len(v.text)
               /\ cells(v)[1] = 2 /\ cells(v)[2] = Len(v.text) % 2^16
               /\ \A k \in 1 .. Len(v.text) : cells(v)[2 + k] = v.text[k]
<1>1. CASE \E n \in Int : v = IntValue(n)
  <2>1. PICK n \in Int : v = IntValue(n)
    BY <1>1
  <2>2. v.int = n /\ v.type = "INT"
    BY <2>1 DEF IntValue
  <2>3. cells(v) = <<1, n>>
    BY <2>2 DEF cells
  <2>4. 1 \in CellOf /\ n \in CellOf
    BY DEF CellOf
  <2> DEFINE c == <<1, n>>
  <2>5. c \in Seq(CellOf) /\ Len(c) = 2 /\ c[1] = 1 /\ c[2] = n
    BY <2>4
  <2> HIDE DEF c
  <2>6. cells(v) = c
    BY <2>3 DEF c
  <2>7. QED BY <2>1, <2>2, <2>5, <2>6
<1>2. CASE \E s \in Text : v = TextValue(s)
  <2>1. PICK s \in Text : v = TextValue(s)
    BY <1>2
  <2>2. v.text = s /\ v.type = "TEXT"
    BY <2>1 DEF TextValue
  <2> DEFINE m == Len(s) % 2^16
             a == <<2, m>>
  <2>3. cells(v) = a \o s
    BY <2>2 DEF cells
  <2>4. s \in Seq(STRING) /\ Len(s) \in Nat /\ \A k \in 1 .. Len(s) : s[k] \in STRING
    BY ElementOfSeq DEF Text
  <2>5. s \in Seq(CellOf)
    BY <2>4 DEF CellOf
  <2>6. m \in Int
    BY <2>4
  <2> HIDE DEF m
  <2>7. 2 \in CellOf /\ m \in CellOf
    BY <2>6 DEF CellOf
  <2>8. a \in Seq(CellOf) /\ Len(a) = 2 /\ a[1] = 2 /\ a[2] = m
    BY <2>7
  <2> HIDE DEF a
  <2>9. /\ a \o s \in Seq(CellOf) /\ Len(a \o s) = Len(a) + Len(s)
        /\ \A k \in 1 .. Len(a) : (a \o s)[k] = a[k]
        /\ \A k \in 1 .. Len(s) : (a \o s)[Len(a) + k] = s[k]
    <3>1. a \in Seq(CellOf) BY <2>8
    <3>2. QED BY ONLY <2>5, <3>1, ConcatAt
  <2>10. 1 \in 1 .. Len(a) /\ 2 \in 1 .. Len(a)
    BY <2>8
  <2> DEFINE c == a \o s
  <2>11. /\ c \in Seq(CellOf) /\ Len(c) = 2 + Len(s) /\ c[1] = 2 /\ c[2] = m
         /\ \A k \in 1 .. Len(s) : c[2 + k] = s[k]
    BY <2>8, <2>9, <2>10
  <2> HIDE DEF c
  <2>12. cells(v) = c
    BY <2>3 DEF c
  <2>13. QED BY <2>1, <2>2, <2>11, <2>12 DEF m
<1>3. QED BY <1>1, <1>2 DEF Val

\* One turn of the loop of deserializeTuple.
ReadColumn(data, R, i) ==
  IF i = 0 THEN [values |-> <<>>, offset |-> 1]
  ELSE LET r == R[i - 1]
           p == r.offset
       IN  IF p > Len(data) THEN r
           ELSE IF data[p] = 1
           THEN [values |-> Append(r.values, IntValue(data[p + 1])), offset |-> p + 2]
           ELSE [values |-> Append(r.values, TextValue(textAt(data, p))),
                 offset |-> p + 2 + data[p + 1]]

\* The recursive function of deserializeTuple exists.
LEMMA ColumnsExist ==
  ASSUME NEW data, NEW n \in Nat
  PROVE  \E R : R = [i \in 0 .. n |-> ReadColumn(data, R, i)]
<1> DEFINE Good(R, k) == \A i \in 0 .. n : i < k => R[i] = ReadColumn(data, R, i)
           K == {k \in Nat : \E R : R = [i \in 0 .. n |-> R[i]] /\ Good(R, k)}
<1>1. 0 \in K
  <2> DEFINE Z == [i \in 0 .. n |-> <<>>]
  <2>1. Z = [i \in 0 .. n |-> Z[i]] /\ Good(Z, 0)
    OBVIOUS
  <2>2. QED BY <2>1
<1>2. ASSUME NEW k \in Nat, k \in K PROVE k + 1 \in K
  <2>1. PICK R : R = [i \in 0 .. n |-> R[i]] /\ Good(R, k)
    BY <1>2
  <2> DEFINE Q == [i \in 0 .. n |-> IF i = k THEN ReadColumn(data, R, i) ELSE R[i]]
  <2>2. ASSUME NEW i \in 0 .. n, i < k + 1 PROVE Q[i] = ReadColumn(data, Q, i)
    <3>1. ReadColumn(data, Q, i) = ReadColumn(data, R, i)
      <4>1. CASE i = 0 BY <4>1 DEF ReadColumn
      <4>2. CASE i # 0
        <5>1. i - 1 \in 0 .. n /\ i - 1 # k BY <2>2, <4>2
        <5>2. Q[i - 1] = R[i - 1] BY <5>1
        <5> HIDE DEF Q
        <5>3. QED BY <4>2, <5>2 DEF ReadColumn
      <4>3. QED BY <4>1, <4>2
    <3>2. Q[i] = ReadColumn(data, R, i)
      <4>1. CASE i = k BY <4>1
      <4>2. CASE i # k
        <5>1. i < k BY <2>2, <4>2
        <5>2. QED BY <2>1, <4>2, <5>1
      <4>3. QED BY <4>1, <4>2
    <3>3. QED BY <3>1, <3>2
  <2>3. Q = [i \in 0 .. n |-> Q[i]]
    OBVIOUS
  <2> HIDE DEF Q
  <2>4. Good(Q, k + 1)
    BY <2>2
  <2>5. QED BY <2>3, <2>4
<1>3. Nat \subseteq K
  <2> HIDE DEF K
  <2>1. QED BY <1>1, <1>2, SetInduction
<1>4. PICK R : R = [i \in 0 .. n |-> R[i]] /\ Good(R, n + 1)
  BY <1>3
<1>5. \A i \in 0 .. n : R[i] = ReadColumn(data, R, i)
  BY <1>4
<1>6. R = [i \in 0 .. n |-> ReadColumn(data, R, i)]
  BY <1>4, <1>5
<1>7. QED BY <1>6

\* deserializeTuple is its loop, turn after turn.
LEMMA DeserializeEq ==
  ASSUME NEW data, NEW schema, Len(schema) \in Nat
  PROVE  \E R : /\ deserializeTuple(data, schema) = R[Len(schema)].values
                /\ \A i \in 0 .. Len(schema) : R[i] = ReadColumn(data, R, i)
<1> DEFINE R == CHOOSE R : R = [i \in 0 .. Len(schema) |-> ReadColumn(data, R, i)]
<1>1. R = [i \in 0 .. Len(schema) |-> ReadColumn(data, R, i)]
  BY ColumnsExist
<1>2. deserializeTuple(data, schema) = R[Len(schema)].values
  BY DEF deserializeTuple, ReadColumn
<1> HIDE DEF R
<1>3. QED BY <1>1, <1>2

\* The cells of value i are in data from o[i - 1] on, and end before o[i].
Layout(v, data, o) ==
  /\ o[0] = 1
  /\ \A i \in 0 .. Len(v) : o[i] \in Nat
  /\ \A i \in 1 .. Len(v) :
       /\ o[i] = o[i - 1] + Len(cells(v[i]))
       /\ o[i] <= Len(data) + 1
       /\ \A k \in 1 .. Len(cells(v[i])) : data[o[i - 1] + k - 1] = cells(v[i])[k]

\* serializeTuple writes the values' cells without a gap.
LEMMA TupleLayout ==
  ASSUME NEW v \in Seq(Val)
  PROVE  serializeTuple(v) \in Seq(CellOf) /\ \E o : Layout(v, serializeTuple(v), o)
<1> DEFINE seqs == [i \in 1 .. Len(v) |-> cells(v[i])]
           n == Len(v)
<1>0. n \in Nat /\ DOMAIN v = 1 .. n
  OBVIOUS
<1>1. \A i \in 1 .. n : cells(v[i]) \in Seq(CellOf)
  <2>1. \A i \in 1 .. n : v[i] \in Val
    BY ElementOfSeq
  <2>2. QED BY <2>1, CellsOf
<1>2. seqs \in Seq(Seq(CellOf)) /\ Len(seqs) = n /\ \A i \in 1 .. n : seqs[i] = cells(v[i])
  BY <1>0, <1>1
<1>3. serializeTuple(v) = FlattenSeq(seqs)
  BY <1>0 DEF serializeTuple
<1> HIDE DEF seqs, n
<1>4. PICK F : Parts(CellOf, seqs, F) /\ FlattenSeq(seqs) = F[Len(seqs)]
  BY <1>2, FlattenParts
<1> DEFINE data == serializeTuple(v)
           o == [i \in 0 .. n |-> Len(F[i]) + 1]
<1>5. data = F[n]
  BY <1>2, <1>3, <1>4
<1> HIDE DEF data
<1>6. \A i \in 0 .. n : F[i] \in Seq(CellOf)
  BY <1>2, <1>4 DEF Parts
<1>7. \A i \in 0 .. n : Len(F[i]) \in Nat
  <2> TAKE i \in 0 .. n
  <2> DEFINE f == F[i]
  <2>1. f \in Seq(CellOf) BY <1>6
  <2> HIDE DEF f
  <2>2. Len(f) \in Nat BY <2>1
  <2>3. QED BY <2>2 DEF f
<1>8. o[0] = 1
  <2>1. F[0] = <<>> BY <1>4 DEF Parts
  <2>2. Len(<<>>) = 0 OBVIOUS
  <2>3. o[0] = Len(F[0]) + 1 BY <1>0
  <2> HIDE DEF o
  <2>4. QED BY <2>1, <2>2, <2>3
<1>9. \A i \in 0 .. n : o[i] \in Nat
  BY <1>7
<1>10. ASSUME NEW i \in 1 .. n
       PROVE  /\ o[i] = o[i - 1] + Len(cells(v[i]))
              /\ o[i] <= Len(data) + 1
              /\ \A k \in 1 .. Len(cells(v[i])) : data[o[i - 1] + k - 1] = cells(v[i])[k]
  <2>1. i \in 1 .. Len(seqs) /\ i \in 0 .. n /\ i - 1 \in 0 .. n /\ n \in 0 .. n
    BY <1>0, <1>2
  <2>2. /\ Len(F[i]) = Len(F[i - 1]) + Len(seqs[i])
        /\ Len(F[i]) <= Len(F[Len(seqs)])
        /\ \A k \in 1 .. Len(seqs[i]) : F[Len(seqs)][Len(F[i - 1]) + k] = seqs[i][k]
    <3>1. seqs \in Seq(Seq(CellOf)) /\ Parts(CellOf, seqs, F) BY <1>2, <1>4
    <3>2. PartIn(seqs, F, i) BY <2>1, <3>1, PartAt
    <3>3. QED BY <3>2 DEF PartIn
  <2>3. seqs[i] = cells(v[i]) /\ Len(seqs) = n
    BY <1>2
  <2>4. /\ Len(F[i]) = Len(F[i - 1]) + Len(cells(v[i]))
        /\ Len(F[i]) <= Len(data)
        /\ \A k \in 1 .. Len(cells(v[i])) : data[Len(F[i - 1]) + k] = cells(v[i])[k]
    BY <1>5, <2>2, <2>3
  <2>5. o[i] = Len(F[i]) + 1 /\ o[i - 1] = Len(F[i - 1]) + 1
    BY <2>1
  <2>6. Len(F[i]) \in Nat /\ Len(F[i - 1]) \in Nat /\ Len(data) \in Nat
    BY <1>5, <1>7, <2>1
  <2> DEFINE c == cells(v[i])
             a == Len(F[i - 1])
             b == Len(F[i])
  <2> HIDE DEF o
  <2>7. Len(c) \in Nat
    <3>1. c \in Seq(CellOf) BY <1>1
    <3> HIDE DEF c
    <3>2. QED BY <3>1
  <2>8. /\ b = a + Len(c) /\ b <= Len(data) /\ \A k \in 1 .. Len(c) : data[a + k] = c[k]
        /\ o[i] = b + 1 /\ o[i - 1] = a + 1 /\ a \in Nat /\ b \in Nat /\ Len(data) \in Nat
    BY <2>4, <2>5, <2>6
  <2> HIDE DEF c, a, b
  <2>9. \A k \in 1 .. Len(c) : o[i - 1] + k - 1 = a + k
    BY <2>7, <2>8
  <2>10. /\ o[i] = o[i - 1] + Len(c) /\ o[i] <= Len(data) + 1
         /\ \A k \in 1 .. Len(c) : data[o[i - 1] + k - 1] = c[k]
    BY <2>7, <2>8, <2>9
  <2>11. QED BY <2>10 DEF c
<1> HIDE DEF o
<1>11. Layout(v, data, o)
  BY <1>8, <1>9, <1>10 DEF Layout, n
<1>12. data \in Seq(CellOf)
  <2>1. n \in 0 .. n BY <1>0
  <2>2. QED BY <1>5, <1>6, <2>1
<1>13. QED BY <1>11, <1>12 DEF data

\* After i columns, vals are read and the next cell is at p.
HasRead(R, i, vals, p) == R[i] = [values |-> vals, offset |-> p]

\* One turn of the loop reads one value.
LEMMA ReadOne ==
  ASSUME NEW v \in Seq(Val), NEW data \in Seq(CellOf), Len(data) <= 2^16 - 1,
         NEW o, Layout(v, data, o), NEW i \in 1 .. Len(v), NEW R, NEW vals,
         HasRead(R, i - 1, vals, o[i - 1])
  PROVE  ReadColumn(data, R, i) = [values |-> Append(vals, v[i]), offset |-> o[i]]
<1> DEFINE w == v[i]
           c == cells(w)
           p == o[i - 1]
<1>1. w \in Val
  BY ElementOfSeq
<1>2. /\ i \in Nat /\ i # 0 /\ p \in Nat /\ o[i] = p + Len(c) /\ o[i] <= Len(data) + 1
      /\ \A k \in 1 .. Len(c) : data[p + k - 1] = c[k]
  <2>1. i \in Nat /\ i # 0 /\ i - 1 \in 0 .. Len(v)
    OBVIOUS
  <2>2. p \in Nat
    BY <2>1 DEF Layout
  <2>3. /\ o[i] = p + Len(c) /\ o[i] <= Len(data) + 1
        /\ \A k \in 1 .. Len(c) : data[p + k - 1] = c[k]
    BY DEF Layout
  <2>4. QED BY <2>1, <2>2, <2>3
<1>3. R[i - 1].offset = p /\ R[i - 1].values = vals
  BY DEF HasRead
<1>4. Len(data) \in Nat
  OBVIOUS
<1>5. /\ c \in Seq(CellOf)
      /\ \/ /\ w = IntValue(w.int) /\ w.int \in Int /\ w.type = "INT"
            /\ Len(c) = 2 /\ c[1] = 1 /\ c[2] = w.int
         \/ /\ w = TextValue(w.text) /\ w.text \in Text /\ w.type = "TEXT"
            /\ Len(c) = 2 + Len(w.text)
            /\ c[1] = 2 /\ c[2] = Len(w.text) % 2^16
            /\ \A k \in 1 .. Len(w.text) : c[2 + k] = w.text[k]
  BY <1>1, CellsOf
<1> HIDE DEF c, p
<1>6. CASE w.type = "INT"
  <2>1. w = IntValue(w.int) /\ Len(c) = 2 /\ c[1] = 1 /\ c[2] = w.int
    BY <1>5, <1>6
  <2>2. /\ p <= Len(data) /\ p + 1 - 1 = p /\ p + 2 - 1 = p + 1
        /\ 1 \in 1 .. Len(c) /\ 2 \in 1 .. Len(c)
    BY <1>2, <1>4, <2>1
  <2>3. data[p] = 1 /\ data[p + 1] = w.int
    <3>1. data[p + 1 - 1] = c[1] /\ data[p + 2 - 1] = c[2] BY ONLY <1>2, <2>2
    <3>2. QED BY <2>1, <2>2, <3>1
  <2>4. ~(p > Len(data))
    BY <1>2, <1>4, <2>2
  <2>5. ReadColumn(data, R, i) = [values |-> Append(vals, IntValue(data[p + 1])), offset |-> p + 2]
    BY <1>2, <1>3, <2>3, <2>4 DEF ReadColumn
  <2> HIDE DEF w
  <2>6. IntValue(data[p + 1]) = w /\ o[i] = p + 2
    BY <1>2, <2>1, <2>3
  <2>7. QED BY <2>5, <2>6 DEF w
<1>7. CASE w.type = "TEXT"
  <2> DEFINE t == w.text
  <2>1. /\ w = TextValue(t) /\ t \in Text /\ Len(c) = 2 + Len(t) /\ c[1] = 2 /\ c[2] = Len(t) % 2^16
        /\ \A k \in 1 .. Len(t) : c[2 + k] = t[k]
    BY <1>5, <1>7
  <2> HIDE DEF w
  <2>0. w = TextValue(t) BY <2>1
  <2> HIDE DEF t
  <2>2. t \in Seq(STRING) /\ Len(t) \in Nat
    BY <2>1 DEF Text
  <2>3. /\ p <= Len(data) /\ p + 1 - 1 = p /\ p + 2 - 1 = p + 1
        /\ 1 \in 1 .. Len(c) /\ 2 \in 1 .. Len(c) /\ Len(t) <= Len(data)
        /\ p + 1 + Len(t) <= Len(data) /\ p >= 1
    <3>1. p \in Nat /\ p + 2 + Len(t) <= Len(data) + 1 BY <1>2, <2>1
    <3>2. p >= 1
      <4>1. o[0] = 1 BY DEF Layout
      <4>2. \A j \in 0 .. Len(v) : o[j] >= 1
        <5> DEFINE M == {j \in Nat : j <= Len(v) => o[j] >= 1}
        <5>1. 0 \in M BY <4>1
        <5>2. ASSUME NEW j \in Nat, j \in M PROVE j + 1 \in M
          <6> SUFFICES ASSUME j + 1 <= Len(v) PROVE o[j + 1] >= 1 OBVIOUS
          <6> DEFINE x == cells(v[j + 1])
          <6>1. j + 1 \in 1 .. Len(v) /\ j <= Len(v) /\ (j + 1) - 1 = j /\ j \in 0 .. Len(v) OBVIOUS
          <6>2. v[j + 1] \in Val BY <6>1, ElementOfSeq
          <6>3. x \in Seq(CellOf) BY <6>2, CellsOf
          <6>4. o[j + 1] = o[(j + 1) - 1] + Len(x) /\ o[j] \in Nat BY <6>1 DEF Layout
          <6> HIDE DEF x
          <6>5. Len(x) \in Nat BY <6>3
          <6>6. o[j] >= 1 BY <5>2, <6>1
          <6>7. QED BY <6>1, <6>4, <6>5, <6>6
        <5>3. Nat \subseteq M
          <6> HIDE DEF M
          <6>1. QED BY <5>1, <5>2, SetInduction
        <5>4. QED BY <5>3
      <4>3. i - 1 \in 0 .. Len(v) OBVIOUS
      <4>4. QED BY <4>2, <4>3 DEF p
    <3>3. QED BY <1>4, <2>1, <2>2, <3>1, <3>2
  <2>4. data[p] = 2 /\ data[p + 1] = Len(t) % 2^16
    <3>1. data[p + 1 - 1] = c[1] /\ data[p + 2 - 1] = c[2] BY ONLY <1>2, <2>3
    <3>2. QED BY <2>1, <2>3, <3>1
  <2>5. data[p + 1] = Len(t)
    <3>1. Len(t) \in 0 .. 2^16 - 1 BY <1>4, <2>2, <2>3
    <3>2. Len(t) % 2^16 = Len(t) BY ONLY <3>1, SMTT(30)
    <3>3. QED BY <2>4, <3>2
  <2>6. textAt(data, p) = t
    <3> DEFINE s == SubSeq(data, p + 2, p + 1 + Len(t))
    <3>1. p + 2 \in Nat /\ p + 1 + Len(t) \in Nat /\ 1 <= p + 2 /\ p + 2 <= p + 1 + Len(t) + 1
          /\ p + 1 + Len(t) <= Len(data) /\ (p + 1 + Len(t)) - (p + 2) + 1 = Len(t)
      BY <1>2, <2>2, <2>3
    <3>2. s \in Seq(CellOf) /\ Len(s) = Len(t) /\ \A k \in 1 .. Len(t) : s[k] = data[p + 2 + k - 1]
      BY <3>1, PartOf, SMTT(30)
    <3> HIDE DEF s
    <3>3. \A k \in 1 .. Len(t) : s[k] = t[k]
      <4> TAKE k \in 1 .. Len(t)
      <4>1. 2 + k \in 1 .. Len(c) /\ p + (2 + k) - 1 = p + 2 + k - 1 BY <1>2, <2>1, <2>2
      <4>2. data[p + (2 + k) - 1] = c[2 + k] BY ONLY <1>2, <4>1
      <4>3. c[2 + k] = t[k] BY <2>1
      <4>4. s[k] = data[p + 2 + k - 1] BY <3>2
      <4>5. QED BY <4>1, <4>2, <4>3, <4>4
    <3>4. s = t
      <4>1. s = [k \in 1 .. Len(s) |-> s[k]] BY ONLY <3>2
      <4>2. t = [k \in 1 .. Len(t) |-> t[k]] BY ONLY <2>2
      <4>3. QED BY ONLY <3>2, <3>3, <4>1, <4>2
    <3>5. QED BY <2>5, <3>4 DEF textAt, s
  <2>7. ~(p > Len(data)) /\ data[p] # 1
    BY <1>2, <1>4, <2>3, <2>4
  <2>8. ReadColumn(data, R, i) = [values |-> Append(vals, TextValue(textAt(data, p))),
                                  offset |-> p + 2 + data[p + 1]]
    BY <1>2, <1>3, <2>7 DEF ReadColumn
  <2>9. p + 2 + data[p + 1] = o[i]
    <3>1. p \in Nat /\ o[i] = p + Len(c) /\ Len(c) = 2 + Len(t) BY <1>2, <2>1
    <3>2. QED BY ONLY <2>2, <2>5, <3>1
  <2>10. QED BY <2>0, <2>6, <2>8, <2>9 DEF w
<1>8. QED BY <1>5, <1>6, <1>7

\* What deserializeTuple has read of v after i columns.
ReadSoFar(v, o, R, i) == HasRead(R, i, [k \in 1 .. i |-> v[k]], o[i])

\* The first i values are the first i - 1 and the next one.
LEMMA Longer ==
  ASSUME NEW S, NEW v \in Seq(S), NEW i \in 1 .. Len(v)
  PROVE  Append([k \in 1 .. i - 1 |-> v[k]], v[i]) = [k \in 1 .. i |-> v[k]]
<1> DEFINE a == [k \in 1 .. i - 1 |-> v[k]]
           x == v[i]
           b == [k \in 1 .. i |-> v[k]]
<1>1. i - 1 \in Nat /\ i \in Nat /\ (i - 1) + 1 = i
  OBVIOUS
<1>2. \A k \in 1 .. Len(v) : v[k] \in S
  BY ElementOfSeq
<1>3. a \in Seq(S) /\ Len(a) = i - 1 /\ \A k \in 1 .. i - 1 : a[k] = v[k]
  BY <1>1, <1>2
<1>4. b \in Seq(S) /\ Len(b) = i /\ \A k \in 1 .. i : b[k] = v[k]
  BY <1>1, <1>2
<1>5. x \in S
  BY <1>2
<1> HIDE DEF a, x, b
<1>6. /\ Append(a, x) \in Seq(S) /\ Len(Append(a, x)) = i
      /\ \A k \in 1 .. i - 1 : Append(a, x)[k] = a[k]
      /\ Append(a, x)[i] = x
  BY <1>1, <1>3, <1>5
<1>7. \A k \in 1 .. i : Append(a, x)[k] = b[k]
  <2> TAKE k \in 1 .. i
  <2>1. CASE k = i BY <1>4, <1>6, <2>1 DEF x
  <2>2. CASE k # i
    <3>1. k \in 1 .. i - 1 BY <1>1, <2>2
    <3>2. Append(a, x)[k] = v[k] BY <1>3, <1>6, <3>1
    <3>3. QED BY <1>4, <3>2
  <2>3. QED BY <2>1, <2>2
<1>8. Append(a, x) = b
  <2> DEFINE c == Append(a, x)
  <2>1. c \in Seq(S) /\ Len(c) = i /\ \A k \in 1 .. i : c[k] = b[k] BY <1>6, <1>7
  <2> HIDE DEF c
  <2>2. c = [k \in 1 .. Len(c) |-> c[k]] BY <2>1
  <2>3. b = [k \in 1 .. Len(b) |-> b[k]] BY <1>4
  <2>4. c = b BY <1>4, <2>1, <2>2, <2>3
  <2>5. QED BY <2>4 DEF c
<1>9. QED BY <1>8 DEF a, x, b

\* What serializeTuple stores, deserializeTuple reads back, value by value, for every
\* schema and every tuple whose cells the 16 bits of a length can count.
THEOREM TupleRoundTrip ==
  ASSUME NEW v \in Seq(Val), NEW schema, Len(schema) = Len(v),
         Len(serializeTuple(v)) <= 2^16 - 1
  PROVE  deserializeTuple(serializeTuple(v), schema) = v
<1> DEFINE data == serializeTuple(v)
           n == Len(v)
<1>1. data \in Seq(CellOf) /\ Len(data) <= 2^16 - 1
  BY TupleLayout
<1>2. PICK o : Layout(v, data, o)
  BY TupleLayout
<1>3. n \in Nat /\ Len(schema) = n /\ Len(schema) \in Nat
  OBVIOUS
<1> HIDE DEF data
<1>4. PICK R : /\ deserializeTuple(data, schema) = R[Len(schema)].values
               /\ \A i \in 0 .. Len(schema) : R[i] = ReadColumn(data, R, i)
  BY <1>3, DeserializeEq
<1> HIDE DEF n
<1> DEFINE M == {i \in Nat : i <= n => ReadSoFar(v, o, R, i)}
<1>5. 0 \in M
  <2>1. R[0] = [values |-> <<>>, offset |-> 1]
    <3>1. 0 \in 0 .. Len(schema) BY <1>3
    <3>2. QED BY <1>4, <3>1 DEF ReadColumn
  <2>2. o[0] = 1
    BY <1>2 DEF Layout
  <2>3. [k \in 1 .. 0 |-> v[k]] = <<>>
    OBVIOUS
  <2>4. ReadSoFar(v, o, R, 0)
    BY <2>1, <2>2, <2>3 DEF ReadSoFar, HasRead
  <2>5. QED BY <2>4
<1>6. ASSUME NEW j \in Nat, j \in M PROVE j + 1 \in M
  <2> SUFFICES ASSUME j + 1 <= n PROVE ReadSoFar(v, o, R, j + 1)
    OBVIOUS
  <2> DEFINE i == j + 1
             vals == [k \in 1 .. i - 1 |-> v[k]]
  <2>1. i - 1 = j /\ i \in 1 .. n /\ i \in 0 .. Len(schema) /\ j <= n
    BY <1>3
  <2>2. ReadSoFar(v, o, R, j)
    BY <1>6, <2>1
  <2> HIDE DEF i
  <2>3. HasRead(R, i - 1, vals, o[i - 1])
    BY <2>1, <2>2 DEF ReadSoFar
  <2>4. Append(vals, v[i]) = [k \in 1 .. i |-> v[k]]
    BY <2>1, Longer DEF n
  <2> HIDE DEF vals
  <2>5. ReadColumn(data, R, i) = [values |-> Append(vals, v[i]), offset |-> o[i]]
    <3>1. i \in 1 .. Len(v) BY <2>1 DEF n
    <3>2. QED BY <1>1, <1>2, <2>3, <3>1, ReadOne
  <2>6. R[i] = ReadColumn(data, R, i)
    BY <1>4, <2>1
  <2>7. ReadSoFar(v, o, R, i)
    BY <2>4, <2>5, <2>6 DEF ReadSoFar, HasRead
  <2>8. QED BY <2>7 DEF i
<1>7. Nat \subseteq M
  <2> HIDE DEF M
  <2>1. QED BY <1>5, <1>6, SetInduction
<1>8. ReadSoFar(v, o, R, n)
  BY <1>3, <1>7
<1>9. R[n].values = [k \in 1 .. n |-> v[k]]
  BY <1>8 DEF ReadSoFar, HasRead
<1>10. v = [k \in 1 .. n |-> v[k]]
  BY DEF n
<1>11. deserializeTuple(data, schema) = v
  BY <1>3, <1>4, <1>9, <1>10
<1>12. QED BY <1>11 DEF data

\* A tuple that has a value is no empty entry.
LEMMA Stored ==
  ASSUME NEW v \in Seq(Val), serializeTuple(v) # NoTuple
  PROVE  v # <<>>
<1>1. CASE v = <<>>
  <2> DEFINE seqs == [i \in DOMAIN v |-> cells(v[i])]
  <2>1. seqs = <<>>
    BY <1>1
  <2>2. Len(seqs) = 0
    BY <2>1
  <2>3. serializeTuple(v) = seqs
    BY <2>2 DEF serializeTuple, FlattenSeq
  <2>4. QED BY <2>1, <2>3 DEF NoTuple
<1>2. QED BY <1>1

\* The values of an insertion are a row of the table.
LEMMA Converted ==
  ASSUME NEW texts \in Seq(Text), NEW schema \in Seq(Column), Len(texts) = Len(schema)
  PROVE  convert(texts, schema) \in Row(schema)
<1> DEFINE v == convert(texts, schema)
           n == Len(schema)
<1>1. n \in Nat /\ DOMAIN schema = 1 .. n
  OBVIOUS
<1>2. v = [i \in 1 .. n |-> IF schema[i].type = "INT" THEN IntValue(stoi(texts[i]))
                            ELSE TextValue(texts[i])]
  BY <1>1 DEF convert
<1>3. ASSUME NEW i \in 1 .. n PROVE v[i] \in Val /\ v[i].type = schema[i].type
  <2>1. schema[i].type \in {"INT", "TEXT"}
    <3>1. schema[i] \in Column BY ElementOfSeq
    <3>2. QED BY <3>1 DEF Column, DataType
  <2>2. texts[i] \in Text
    BY ElementOfSeq
  <2>3. stoi(texts[i]) \in Int
    BY <2>2, StoiType
  <2>4. CASE schema[i].type = "INT"
    <3>1. v[i] = IntValue(stoi(texts[i])) BY <1>2, <2>4
    <3> HIDE DEF v
    <3>2. QED BY <2>3, <2>4, <3>1 DEF Val, IntValue
  <2>5. CASE schema[i].type = "TEXT"
    <3>1. v[i] = TextValue(texts[i]) BY <1>2, <2>5
    <3> HIDE DEF v
    <3>2. QED BY <2>2, <2>5, <3>1 DEF Val, TextValue
  <2>6. QED BY <2>1, <2>4, <2>5
<1>4. v = [i \in 1 .. n |-> v[i]]
  BY <1>2
<1> HIDE DEF v
<1>5. v \in Seq(Val) /\ Len(v) = n
  BY <1>1, <1>3, <1>4
<1>6. v \in Row(schema)
  BY <1>3, <1>5 DEF Row
<1>7. QED BY <1>6 DEF v

\* A tuple of one value or more has a cell.
LEMMA RowNotEmpty ==
  ASSUME NEW v \in Seq(Val), v # <<>>
  PROVE  serializeTuple(v) # NoTuple
<1> DEFINE data == serializeTuple(v)
           c == cells(v[1])
<1>1. data \in Seq(CellOf)
  BY TupleLayout
<1>2. PICK o : Layout(v, data, o)
  BY TupleLayout
<1>3. 1 \in 1 .. Len(v) /\ 1 - 1 = 0
  OBVIOUS
<1>4. v[1] \in Val
  BY <1>3, ElementOfSeq
<1>5. c \in Seq(CellOf) /\ (Len(c) = 2 \/ \E t \in Text : Len(c) = 2 + Len(t))
  BY <1>4, CellsOf
<1> HIDE DEF data
<1>6. o[1] = 1 + Len(c) /\ o[1] <= Len(data) + 1
  <2>1. o[1] = o[1 - 1] + Len(c) /\ o[0] = 1 /\ o[1] <= Len(data) + 1
    BY <1>2, <1>3 DEF Layout
  <2>2. QED BY <1>3, <2>1
<1> HIDE DEF c
<1>7. Len(c) >= 2
  <2>1. \A t \in Text : Len(t) \in Nat BY DEF Text
  <2>2. CASE Len(c) = 2 BY <2>2
  <2>3. CASE \E t \in Text : Len(c) = 2 + Len(t)
    <3>1. PICK t \in Text : Len(c) = 2 + Len(t) BY <2>3
    <3>2. Len(t) \in Nat BY <2>1
    <3>3. QED BY <3>1, <3>2
  <2>4. QED BY <1>5, <2>2, <2>3
<1>8. Len(data) # 0
  <2>1. Len(data) \in Nat /\ Len(c) \in Nat BY <1>1, <1>5
  <2>2. QED BY <1>6, <1>7, <2>1
<1>9. QED BY <1>8 DEF data, NoTuple

-------------------------------------------------------------------------------
(* A table *)

\* The index of a table, by its keys.
Index == UNION {[K -> RID] : K \in SUBSET Int}

\* The fields of an entry of the catalog.
TableInfo(info) ==
  /\ info = [schema |-> info.schema, rowCount |-> info.rowCount, hasIndex |-> info.hasIndex,
             heap |-> info.heap, index |-> info.index]
  /\ info.schema \in Seq(Column) /\ info.rowCount \in Nat
  /\ info.heap \in [RID -> Seq(CellOf)] /\ info.index \in Index

\* What is stored is read back as a row of the table.
RowsOK(info) == \A rid \in Live(info) : tupleAt(info, rid) \in Row(info.schema) \ {<<>>}

\* IndexSound, for one table.
IndexOK(info) ==
  \A k \in DOMAIN info.index : k >= 0 =>
    info.index[k] \in Live(info) /\ tupleAt(info, info.index[k])[1] = IntValue(k)

\* RowCountCovers, for one table.
CountOK(info) == Cardinality(Live(info)) <= info.rowCount

\* What holds of every table of the catalog.
TableInv(info) ==
  TableInfo(info) /\ RowsOK(info) /\ IndexOK(info) /\ CountOK(info)

\* A table has finitely many RIDs.
LEMMA LiveFinite ==
  ASSUME NEW S, S \subseteq RID
  PROVE  IsFiniteSet(S) /\ Cardinality(S) \in Nat
<1>1. IsFiniteSet(RID)
  BY EngineAssumption, FS_Interval DEF RID
<1>2. IsFiniteSet(S)
  BY <1>1, FS_Subset
<1>3. QED BY <1>2, FS_CardinalityType

\* What it is to be an index.
LEMMA IndexFunction ==
  ASSUME NEW x
  PROVE  x \in Index <=> /\ x = [k \in DOMAIN x |-> x[k]] /\ DOMAIN x \subseteq Int
                         /\ \A k \in DOMAIN x : x[k] \in RID
<1>1. ASSUME x \in Index
      PROVE  /\ x = [k \in DOMAIN x |-> x[k]] /\ DOMAIN x \subseteq Int
             /\ \A k \in DOMAIN x : x[k] \in RID
  <2>1. PICK K \in SUBSET Int : x \in [K -> RID] BY <1>1 DEF Index
  <2>2. QED BY <2>1
<1>2. ASSUME x = [k \in DOMAIN x |-> x[k]], DOMAIN x \subseteq Int,
             \A k \in DOMAIN x : x[k] \in RID
      PROVE  x \in Index
  <2>1. x \in [DOMAIN x -> RID] BY <1>2
  <2>2. DOMAIN x \in SUBSET Int BY <1>2
  <2>3. QED BY <2>1, <2>2 DEF Index
<1>3. QED BY <1>1, <1>2

\* CREATE TABLE makes a table without rows.
LEMMA NewTableInv ==
  ASSUME NEW schema \in Seq(Column)
  PROVE  TableInv(NewTable(schema))
<1> DEFINE n == NewTable(schema)
<1>1. /\ n.schema = schema /\ n.rowCount = 0 /\ TRUE
      /\ n.heap = [rid \in RID |-> NoTuple] /\ n.index = <<>>
      /\ n = [schema |-> n.schema, rowCount |-> n.rowCount, hasIndex |-> n.hasIndex,
              heap |-> n.heap, index |-> n.index]
  BY DEF NewTable
<1> HIDE DEF n
<1>2. DOMAIN n.index = {}
  BY <1>1
<1>3. n.index \in Index
  <2>1. n.index = [k \in {} |-> 0]
    BY <1>1
  <2>2. n.index \in [{} -> RID]
    BY <2>1
  <2>3. QED BY <2>2 DEF Index
<1>4. n.heap \in [RID -> Seq(CellOf)]
  <2>1. NoTuple \in Seq(CellOf) BY DEF NoTuple
  <2>2. QED BY <1>1, <2>1
<1>5. TableInfo(n)
  BY <1>1, <1>3, <1>4 DEF TableInfo
<1>6. Live(n) = {}
  BY <1>1 DEF Live
<1>7. RowsOK(n) /\ IndexOK(n)
  BY <1>2, <1>6 DEF RowsOK, IndexOK
<1>8. CountOK(n)
  BY <1>1, <1>6, FS_EmptySet DEF CountOK
<1>9. QED BY <1>5, <1>7, <1>8 DEF TableInv, n

\* InsertExecutor, and the second increment of the row count.
LEMMA InsertInv ==
  ASSUME NEW info, TableInv(info), NEW values \in Row(info.schema),
         Len(serializeTuple(values)) <= MaxCells, NEW rid \in RID \ Live(info)
  PROVE  TableInv([InsertExecutor(info, values, rid) EXCEPT !.rowCount = @ + 1])
<1> DEFINE n == [InsertExecutor(info, values, rid) EXCEPT !.rowCount = @ + 1]
           data == serializeTuple(values)
<1>1. TableInfo(info)
  BY DEF TableInv
<1>2. /\ n.schema = info.schema /\ n.rowCount = info.rowCount + 1 + 1
      /\ n.hasIndex = info.hasIndex /\ n.heap = [info.heap EXCEPT ![rid] = data]
      /\ n.index = treeInsert(info, values, rid)
      /\ n = [schema |-> n.schema, rowCount |-> n.rowCount, hasIndex |-> n.hasIndex,
              heap |-> n.heap, index |-> n.index]
  <2> DEFINE m == InsertExecutor(info, values, rid)
             t == treeInsert(info, values, rid)
  <2>1. info = [schema |-> info.schema, rowCount |-> info.rowCount, hasIndex |-> info.hasIndex,
                heap |-> info.heap, index |-> info.index]
    BY <1>1 DEF TableInfo
  <2>2. m = [info EXCEPT !.heap[rid] = data, !.index = t, !.rowCount = @ + 1]
    BY DEF InsertExecutor
  <2>3. n = [m EXCEPT !.rowCount = @ + 1]
    OBVIOUS
  <2> HIDE DEF m, n, t, data
  <2>4. /\ m.schema = info.schema /\ m.rowCount = info.rowCount + 1 /\ m.hasIndex = info.hasIndex
        /\ m.heap = [info.heap EXCEPT ![rid] = data] /\ m.index = t
    BY ONLY <2>1, <2>2
  <2>5. m = [schema |-> m.schema, rowCount |-> m.rowCount, hasIndex |-> m.hasIndex,
             heap |-> m.heap, index |-> m.index]
    BY ONLY <2>1, <2>2
  <2>6. /\ n.schema = m.schema /\ n.rowCount = m.rowCount + 1 /\ n.hasIndex = m.hasIndex
        /\ n.heap = m.heap /\ n.index = m.index
        /\ n = [schema |-> n.schema, rowCount |-> n.rowCount, hasIndex |-> n.hasIndex,
                heap |-> n.heap, index |-> n.index]
    BY ONLY <2>3, <2>5
  <2>7. QED BY ONLY <2>4, <2>6 DEF t
<1>3. values \in Seq(Val) /\ Len(values) = Len(info.schema)
  BY DEF Row
<1>4. data \in Seq(CellOf)
  BY <1>3, TupleLayout
<1> HIDE DEF n, data
<1>5. /\ n.schema = info.schema /\ n.rowCount = info.rowCount + 2 /\ n.hasIndex = info.hasIndex
      /\ n.heap = [info.heap EXCEPT ![rid] = data] /\ n.index = treeInsert(info, values, rid)
  BY <1>1, <1>2 DEF TableInfo
<1>6. /\ info.heap \in [RID -> Seq(CellOf)] /\ info.index \in Index /\ info.rowCount \in Nat
      /\ info.schema \in Seq(Column)
  BY <1>1 DEF TableInfo
<1>7. /\ n.heap \in [RID -> Seq(CellOf)] /\ n.heap[rid] = data
      /\ \A r \in RID \ {rid} : n.heap[r] = info.heap[r]
  BY <1>4, <1>5, <1>6
<1>8. \A r \in Live(info) : r \in RID \ {rid} /\ r \in Live(n) /\ tupleAt(n, r) = tupleAt(info, r)
  BY <1>5, <1>7 DEF Live, tupleAt
<1>9. Live(n) \subseteq Live(info) \cup {rid}
  BY <1>7 DEF Live
<1>10. tupleAt(n, rid) = values
  <2>1. Len(data) <= 2^16 - 1
    <3>1. Len(data) \in Nat BY <1>4
    <3>2. Len(data) <= MaxCells /\ MaxCells <= 2^16 - 1 /\ MaxCells \in Nat
      BY MiniDBAssumption DEF data
    <3>3. 2^16 - 1 \in Nat OBVIOUS
    <3>4. QED BY <3>1, <3>2, <3>3
  <2>2. Len(n.schema) = Len(values)
    BY <1>3, <1>5
  <2>3. deserializeTuple(serializeTuple(values), n.schema) = values
    BY <1>3, <2>1, <2>2, TupleRoundTrip DEF data
  <2>4. QED BY <1>7, <2>3 DEF tupleAt, data
<1>11. RowsOK(n)
  <2> SUFFICES ASSUME NEW r \in Live(n) PROVE tupleAt(n, r) \in Row(n.schema) \ {<<>>}
    BY DEF RowsOK
  <2>1. CASE r \in Live(info)
    BY <1>5, <1>8, <2>1 DEF TableInv, RowsOK
  <2>2. CASE r = rid
    <3>1. data # NoTuple BY <1>7, <2>2 DEF Live
    <3>2. values # <<>> BY <1>3, <3>1, Stored DEF data
    <3>3. QED BY <1>5, <1>10, <2>2, <3>2
  <2>3. QED BY <1>9, <2>1, <2>2
<1>12. /\ n.index \in Index
       /\ \A k \in DOMAIN n.index : \/ k \in DOMAIN info.index /\ n.index[k] = info.index[k]
                                    \/ isKeyed(values) /\ k = values[1].int /\ n.index[k] = rid
  <2>1. CASE ~isKeyed(values) \/ values[1].int \in DOMAIN info.index
    BY <1>5, <1>6, <2>1 DEF treeInsert
  <2>2. CASE isKeyed(values) /\ values[1].int \notin DOMAIN info.index
    <3> DEFINE key == values[1].int
               old == info.index
               new == [k \in DOMAIN old \cup {key} |-> IF k = key THEN rid ELSE old[k]]
    <3>1. n.index = new
      BY <1>5, <2>2 DEF treeInsert
    <3>2. key \in Int
      <4>1. values # <<>> /\ values[1].type = "INT" BY <2>2 DEF isKeyed
      <4>2. 1 \in 1 .. Len(values) BY <1>3, <4>1
      <4>3. values[1] \in Val BY <1>3, <4>2, ElementOfSeq
      <4>4. QED BY <4>1, <4>3, CellsOf
    <3>3. DOMAIN old \subseteq Int /\ \A k \in DOMAIN old : old[k] \in RID
      BY <1>6, IndexFunction
    <3> HIDE DEF key, old
    <3>4. new \in [DOMAIN old \cup {key} -> RID] /\ DOMAIN old \cup {key} \in SUBSET Int
      BY <3>2, <3>3
    <3>5. new \in Index
      BY <3>4 DEF Index
    <3>6. \A k \in DOMAIN new : \/ k \in DOMAIN old /\ new[k] = old[k]
                                \/ k = key /\ new[k] = rid
      OBVIOUS
    <3> HIDE DEF new
    <3>7. QED BY <2>2, <3>1, <3>5, <3>6 DEF key, old
  <2>3. QED BY <2>1, <2>2
<1>13. IndexOK(n)
  <2> SUFFICES ASSUME NEW k \in DOMAIN n.index, k >= 0
               PROVE  n.index[k] \in Live(n) /\ tupleAt(n, n.index[k])[1] = IntValue(k)
    BY DEF IndexOK
  <2>1. CASE k \in DOMAIN info.index /\ n.index[k] = info.index[k]
    <3>1. info.index[k] \in Live(info) /\ tupleAt(info, info.index[k])[1] = IntValue(k)
      BY <2>1 DEF TableInv, IndexOK
    <3>2. QED BY <1>8, <2>1, <3>1
  <2>2. CASE isKeyed(values) /\ k = values[1].int /\ n.index[k] = rid
    <3>1. values # <<>> /\ values[1].type = "INT"
      BY <2>2 DEF isKeyed
    <3>2. data # NoTuple
      BY <1>3, <3>1, RowNotEmpty DEF data
    <3>3. rid \in Live(n)
      BY <1>7, <3>2 DEF Live
    <3>4. 1 \in 1 .. Len(values)
      BY <1>3, <3>1
    <3>5. values[1] \in Val
      BY <1>3, <3>4, ElementOfSeq
    <3>6. values[1] = IntValue(values[1].int)
      BY <3>1, <3>5, CellsOf
    <3>7. QED BY <1>10, <2>2, <3>3, <3>6
  <2>3. QED BY <1>12, <2>1, <2>2
<1>14. CountOK(n)
  <2>1. IsFiniteSet(Live(info)) /\ Cardinality(Live(info)) \in Nat
    BY LiveFinite DEF Live
  <2>2. Cardinality(Live(info) \cup {rid}) = Cardinality(Live(info)) + 1
        /\ IsFiniteSet(Live(info) \cup {rid})
    BY <2>1, FS_AddElement
  <2>3. Cardinality(Live(n)) <= Cardinality(Live(info) \cup {rid}) /\ Cardinality(Live(n)) \in Nat
    <3>1. Live(n) \in SUBSET (Live(info) \cup {rid}) BY <1>9
    <3>2. IsFiniteSet(Live(n)) /\ Cardinality(Live(n)) <= Cardinality(Live(info) \cup {rid})
      BY <2>2, <3>1, FS_Subset
    <3>3. QED BY <3>2, FS_CardinalityType
  <2>4. Cardinality(Live(info)) <= info.rowCount
    BY DEF TableInv, CountOK
  <2>5. QED BY <1>5, <1>6, <2>1, <2>2, <2>3, <2>4 DEF CountOK
<1>15. TableInfo(n)
  BY <1>2, <1>5, <1>6, <1>7, <1>12 DEF TableInfo
<1>16. TableInv(n)
  BY <1>11, <1>13, <1>14, <1>15 DEF TableInv
<1>17. QED BY <1>16 DEF n

\* DeleteExecutor.
LEMMA DeleteInv ==
  ASSUME NEW info, TableInv(info), NEW where
  PROVE  TableInv(DeleteExecutor(info, where))
<1> DEFINE n == DeleteExecutor(info, where)
           rids == matching(info, where)
           gone == removedKeys(info, rids)
<1>1. TableInfo(info)
  BY DEF TableInv
<1>2. /\ n.schema = info.schema /\ n.rowCount = restCount(info, Cardinality(rids))
      /\ n.hasIndex = info.hasIndex
      /\ n.heap = [rid \in RID |-> IF rid \in rids THEN NoTuple ELSE info.heap[rid]]
      /\ n.index = [k \in DOMAIN info.index \ gone |-> info.index[k]]
      /\ n = [schema |-> n.schema, rowCount |-> n.rowCount, hasIndex |-> n.hasIndex,
              heap |-> n.heap, index |-> n.index]
  <2> DEFINE c == restCount(info, Cardinality(rids))
  <2>1. info = [schema |-> info.schema, rowCount |-> info.rowCount, hasIndex |-> info.hasIndex,
                heap |-> info.heap, index |-> info.index]
    BY <1>1 DEF TableInfo
  <2>2. n = [info EXCEPT !.heap = [rid \in RID |-> IF rid \in rids THEN NoTuple ELSE @[rid]],
                         !.index = [k \in DOMAIN @ \ gone |-> @[k]],
                         !.rowCount = c]
    BY DEF DeleteExecutor
  <2> HIDE DEF n, rids, gone, c
  <2>3. /\ n.schema = info.schema /\ n.rowCount = c /\ n.hasIndex = info.hasIndex
        /\ n.heap = [rid \in RID |-> IF rid \in rids THEN NoTuple ELSE info.heap[rid]]
        /\ n.index = [k \in DOMAIN info.index \ gone |-> info.index[k]]
    BY ONLY <2>1, <2>2
  <2>4. n = [schema |-> n.schema, rowCount |-> n.rowCount, hasIndex |-> n.hasIndex,
             heap |-> n.heap, index |-> n.index]
    BY ONLY <2>1, <2>2
  <2>5. QED BY ONLY <2>3, <2>4 DEF c
<1>3. rids \subseteq Live(info)
  BY DEF matching
<1> HIDE DEF n, rids
<1>4. /\ n.schema = info.schema /\ n.rowCount = restCount(info, Cardinality(rids))
      /\ n.hasIndex = info.hasIndex
      /\ n.heap = [rid \in RID |-> IF rid \in rids THEN NoTuple ELSE info.heap[rid]]
      /\ n.index = [k \in DOMAIN info.index \ gone |-> info.index[k]]
  BY <1>2
<1>5. /\ info.heap \in [RID -> Seq(CellOf)] /\ info.index \in Index /\ info.rowCount \in Nat
      /\ info.schema \in Seq(Column)
  BY <1>1 DEF TableInfo
<1>6. n.heap \in [RID -> Seq(CellOf)]
  <2>1. NoTuple \in Seq(CellOf) BY DEF NoTuple
  <2>2. QED BY <1>4, <1>5, <2>1
<1>7. Live(n) = Live(info) \ rids
  BY <1>4 DEF Live
<1>8. \A r \in Live(n) : tupleAt(n, r) = tupleAt(info, r)
  BY <1>4, <1>7 DEF tupleAt, Live
<1>9. RowsOK(n)
  BY <1>4, <1>7, <1>8 DEF TableInv, RowsOK
<1>10. n.index \in Index
  <2>1. DOMAIN info.index \subseteq Int /\ \A k \in DOMAIN info.index : info.index[k] \in RID
    BY <1>5, IndexFunction
  <2>2. n.index \in [DOMAIN info.index \ gone -> RID] /\ DOMAIN info.index \ gone \in SUBSET Int
    BY <1>4, <2>1
  <2>3. QED BY <2>2 DEF Index
<1>11. IndexOK(n)
  <2> SUFFICES ASSUME NEW k \in DOMAIN n.index, k >= 0
               PROVE  n.index[k] \in Live(n) /\ tupleAt(n, n.index[k])[1] = IntValue(k)
    BY DEF IndexOK
  <2> DEFINE r == info.index[k]
  <2>1. k \in DOMAIN info.index /\ k \notin gone /\ n.index[k] = r
    BY <1>4
  <2>2. r \in Live(info) /\ tupleAt(info, r)[1] = IntValue(k)
    BY <2>1 DEF TableInv, IndexOK
  <2>3. tupleAt(info, r) # <<>>
    BY <2>2 DEF TableInv, RowsOK
  <2>4. isKeyed(tupleAt(info, r)) /\ tupleAt(info, r)[1].int = k
    BY <2>2, <2>3 DEF isKeyed, IntValue
  <2>5. r \notin rids
    BY <2>1, <2>4 DEF removedKeys
  <2>6. r \in Live(n)
    BY <1>7, <2>2, <2>5
  <2>7. QED BY <1>8, <2>1, <2>2, <2>6
<1>12. CountOK(n)
  <2>1. IsFiniteSet(Live(info)) /\ Cardinality(Live(info)) \in Nat
    BY LiveFinite DEF Live
  <2>2. IsFiniteSet(rids) /\ Cardinality(rids) \in Nat
    BY <1>3, LiveFinite DEF Live
  <2>3. Live(info) \cap rids = rids
    BY <1>3
  <2>4. Cardinality(Live(n)) = Cardinality(Live(info)) - Cardinality(rids)
    BY <1>7, <2>1, <2>3, FS_Difference
  <2>5. Cardinality(Live(info)) <= info.rowCount
    BY DEF TableInv, CountOK
  <2>6. Cardinality(rids) <= Cardinality(Live(info))
    BY <1>3, <2>1, FS_Subset
  <2>7. n.rowCount = info.rowCount - Cardinality(rids)
    BY <1>4, <1>5, <2>1, <2>2, <2>5, <2>6 DEF restCount
  <2>8. QED BY <1>5, <2>1, <2>2, <2>4, <2>5, <2>7 DEF CountOK
<1>13. n.rowCount \in Nat
  <2>1. Cardinality(rids) \in Nat
    BY <1>3, LiveFinite DEF Live
  <2>2. QED BY <1>4, <1>5, <2>1 DEF restCount
<1>14. TableInfo(n)
  BY <1>2, <1>4, <1>5, <1>6, <1>10, <1>13 DEF TableInfo
<1>15. TableInv(n)
  BY <1>9, <1>11, <1>12, <1>14 DEF TableInv
<1>16. QED BY <1>15 DEF n

-------------------------------------------------------------------------------
(* The order of a scan *)

\* s has the numbers of S, the smallest first.
Ascending(s, S) ==
  s \in [1 .. Cardinality(S) -> S] /\ \A i, j \in DOMAIN s : i < j => s[i] < s[j]

\* A set of numbers up to N is finite.
LEMMA FiniteUpTo ==
  ASSUME NEW N \in Nat, NEW S, S \subseteq 1 .. N
  PROVE  IsFiniteSet(S) /\ Cardinality(S) \in Nat
<1>1. IsFiniteSet(1 .. N)
  BY FS_Interval
<1>2. IsFiniteSet(S)
  BY <1>1, FS_Subset
<1>3. QED BY <1>2, FS_CardinalityType

\* The CHOOSE of ascending has a witness, by induction on the greatest number.
LEMMA AscendingExists ==
  ASSUME NEW N \in Nat, NEW S, S \subseteq 1 .. N
  PROVE  Ascending(ascending(S), S)
<1> DEFINE K == {n \in Nat : \A T \in SUBSET (1 .. n) : \E s : Ascending(s, T)}
<1>1. 0 \in K
  <2> SUFFICES ASSUME NEW T \in SUBSET (1 .. 0) PROVE \E s : Ascending(s, T)
    OBVIOUS
  <2>1. T = {}
    OBVIOUS
  <2>2. Cardinality(T) = 0
    BY <2>1, FS_EmptySet
  <2> DEFINE s == [i \in 1 .. 0 |-> 0]
  <2>3. s \in [1 .. 0 -> T] /\ DOMAIN s = {}
    OBVIOUS
  <2> HIDE DEF s
  <2>4. Ascending(s, T)
    BY <2>2, <2>3 DEF Ascending
  <2>5. QED BY <2>4
<1>2. ASSUME NEW n \in Nat, n \in K PROVE n + 1 \in K
  <2> SUFFICES ASSUME NEW T \in SUBSET (1 .. n + 1) PROVE \E s : Ascending(s, T)
    OBVIOUS
  <2>1. CASE n + 1 \notin T
    <3>1. T \in SUBSET (1 .. n) BY <2>1
    <3>2. QED BY <1>2, <3>1
  <2>2. CASE n + 1 \in T
    <3> DEFINE U == T \ {n + 1}
               m == Cardinality(U)
    <3>1. U \in SUBSET (1 .. n)
      OBVIOUS
    <3>2. PICK u : Ascending(u, U)
      BY <1>2, <3>1
    <3>3. m \in Nat /\ Cardinality(T) = m + 1
      <4>0. n + 1 \in Nat /\ T \subseteq 1 .. n + 1 OBVIOUS
      <4>1. IsFiniteSet(T) /\ Cardinality(T) \in Nat BY <4>0, FiniteUpTo
      <4>2. m = Cardinality(T) - 1 BY <2>2, <4>1, FS_RemoveElement
      <4>3. m \in Nat BY <3>1, FiniteUpTo
      <4> HIDE DEF m
      <4>4. QED BY <4>1, <4>2, <4>3
    <3>4. u \in [1 .. m -> U] /\ \A i, j \in 1 .. m : i < j => u[i] < u[j]
      BY <3>2 DEF Ascending
    <3> HIDE DEF m
    <3> DEFINE s == [i \in 1 .. m + 1 |-> IF i = m + 1 THEN n + 1 ELSE u[i]]
    <3>5. \A i \in 1 .. m : u[i] \in T /\ u[i] \in 1 .. n
      BY <3>1, <3>4
    <3>6. s \in [1 .. m + 1 -> T]
      <4>1. \A i \in 1 .. m + 1 : i # m + 1 => i \in 1 .. m BY <3>3
      <4>2. QED BY <2>2, <3>5, <4>1
    <3>7. ASSUME NEW i \in 1 .. m + 1, NEW j \in 1 .. m + 1, i < j PROVE s[i] < s[j]
      <4>1. i \in 1 .. m /\ i # m + 1 BY <3>3, <3>7
      <4>2. s[i] = u[i] /\ u[i] \in 1 .. n BY <3>5, <4>1
      <4>3. CASE j = m + 1 BY <4>2, <4>3
      <4>4. CASE j # m + 1
        <5>1. j \in 1 .. m BY <3>3, <4>4
        <5>2. QED BY <3>4, <3>7, <4>1, <4>2, <4>4, <5>1
      <4>5. QED BY <4>3, <4>4
    <3>8. DOMAIN s = 1 .. m + 1
      OBVIOUS
    <3> HIDE DEF s
    <3>9. Ascending(s, T)
      BY <3>3, <3>6, <3>7, <3>8 DEF Ascending
    <3>10. QED BY <3>9
  <2>3. QED BY <2>1, <2>2
<1>3. Nat \subseteq K
  <2> HIDE DEF K
  <2>1. QED BY <1>1, <1>2, SetInduction
<1>4. \E s : Ascending(s, S)
  BY <1>3
<1>5. QED BY <1>4 DEF ascending, Ascending

\* Every element is in it.
LEMMA AscendingOnto ==
  ASSUME NEW N \in Nat, NEW S, S \subseteq 1 .. N, NEW f, Ascending(f, S)
  PROVE  /\ \A i, j \in 1 .. Cardinality(S) : i # j => f[i] # f[j]
         /\ \A x \in S : \E k \in 1 .. Cardinality(S) : f[k] = x
<1> DEFINE n == Cardinality(S)
<1>1. IsFiniteSet(S) /\ n \in Nat
  BY FiniteUpTo
<1>2. f \in [1 .. n -> S] /\ \A i, j \in 1 .. n : i < j => f[i] < f[j]
  BY DEF Ascending
<1>3. \A x \in S : x \in Nat
  OBVIOUS
<1>4. \A i \in 1 .. n : f[i] \in Nat
  BY <1>2, <1>3
<1>5. \A i, j \in 1 .. n : i # j => f[i] # f[j]
  <2> TAKE i, j \in 1 .. n
  <2>1. CASE i < j BY <1>2, <1>4, <2>1
  <2>2. CASE j < i BY <1>2, <1>4, <2>2
  <2>3. i = j \/ i < j \/ j < i BY <1>1
  <2>4. QED BY <2>1, <2>2, <2>3
<1>6. f \in Injection(1 .. n, S)
  BY <1>2, <1>5 DEF Injection, IsInjective
<1>7. Cardinality(1 .. n) = n
  BY <1>1, FS_Interval
<1>8. f \in Surjection(1 .. n, S)
  BY <1>1, <1>6, <1>7, FS_Injection
<1>9. QED BY <1>5, <1>8 DEF Surjection

\* There is one such sequence.
LEMMA AscendingUnique ==
  ASSUME NEW N \in Nat, NEW S, S \subseteq 1 .. N, NEW s, NEW t, Ascending(s, S), Ascending(t, S)
  PROVE  s = t
<1> DEFINE n == Cardinality(S)
<1>1. IsFiniteSet(S) /\ n \in Nat
  BY FiniteUpTo
<1>2. /\ s \in [1 .. n -> S] /\ \A i, j \in 1 .. n : i < j => s[i] < s[j]
      /\ t \in [1 .. n -> S] /\ \A i, j \in 1 .. n : i < j => t[i] < t[j]
  BY DEF Ascending
<1>0. \A x \in S : x \in Nat
  OBVIOUS
<1>3. \A i \in 1 .. n : s[i] \in Nat /\ t[i] \in Nat
  BY <1>0, <1>2
<1>4. /\ \A x \in S : \E k \in 1 .. n : s[k] = x
      /\ \A x \in S : \E k \in 1 .. n : t[k] = x
  BY AscendingOnto, ZenonT(30)
<1> HIDE DEF n
<1> DEFINE M == {k \in Nat : \A i \in 1 .. n : i <= k => s[i] = t[i]}
<1>5. 0 \in M
  BY <1>1
<1>6. ASSUME NEW k \in Nat, k \in M PROVE k + 1 \in M
  <2> SUFFICES ASSUME k + 1 \in 1 .. n PROVE s[k + 1] = t[k + 1]
    <3>1. \A i \in 1 .. n : i <= k + 1 => i <= k \/ i = k + 1 BY <1>1
    <3>2. QED BY <1>6, <3>1
  <2> DEFINE i == k + 1
  <2>0. i \in 1 .. n /\ \A j \in 1 .. n : j < i => s[j] = t[j]
    BY <1>1, <1>6
  <2> HIDE DEF i
  <2>1. ASSUME s[i] < t[i] PROVE FALSE
    <3>1. PICK j \in 1 .. n : t[j] = s[i] BY <1>2, <1>4, <2>0
    <3>2. j < i
      <4>1. i < j => t[i] < t[j] BY <1>2, <2>0
      <4>2. s[i] \in Nat /\ t[i] \in Nat BY <1>3, <2>0
      <4>3. ~(i < j) /\ j # i BY <2>1, <3>1, <4>1, <4>2
      <4>4. QED BY <1>1, <2>0, <4>3
    <3>3. s[j] = s[i] /\ s[j] < s[i] BY <1>2, <2>0, <3>1, <3>2
    <3>4. QED BY <1>3, <2>0, <3>3
  <2>2. ASSUME t[i] < s[i] PROVE FALSE
    <3>1. PICK j \in 1 .. n : s[j] = t[i] BY <1>2, <1>4, <2>0
    <3>2. j < i
      <4>1. i < j => s[i] < s[j] BY <1>2, <2>0
      <4>2. s[i] \in Nat /\ t[i] \in Nat BY <1>3, <2>0
      <4>3. ~(i < j) /\ j # i BY <2>2, <3>1, <4>1, <4>2
      <4>4. QED BY <1>1, <2>0, <4>3
    <3>3. t[j] = t[i] /\ t[j] < t[i] BY <1>2, <2>0, <3>1, <3>2
    <3>4. QED BY <1>3, <2>0, <3>3
  <2>3. s[i] \in Nat /\ t[i] \in Nat
    BY <1>3, <2>0
  <2>4. s[i] = t[i]
    BY <2>1, <2>2, <2>3
  <2>5. QED BY <2>4 DEF i
<1>7. Nat \subseteq M
  <2> HIDE DEF M
  <2>1. QED BY <1>5, <1>6, SetInduction
<1>8. \A i \in 1 .. n : s[i] = t[i]
  BY <1>1, <1>7
<1>9. s = [i \in 1 .. n |-> s[i]] /\ t = [i \in 1 .. n |-> t[i]]
  BY <1>2
<1>10. QED BY <1>8, <1>9

-------------------------------------------------------------------------------
(* The engine *)

\* The records that the engine writes to the log.
LogEntry == [type : {"BEGIN_TXN", "COMMIT_TXN"}, txnId : Nat \ {0}]

\* TableInv, for every table.
CatalogInv == \A t \in DOMAIN catalog : TableInv(catalog[t])

\* The inductive invariant of the engine.
EngineInv ==
  /\ line \in Text /\ typos \in 0 .. MaxTypos
  /\ StmtOK(stmt)
  /\ CatalogInv
  /\ mode \in {"read", "parse", "execute", "gone"}
  /\ nextTxnId \in Nat \ {0}
  /\ log \in Seq(LogEntry) /\ Len(log) <= MaxLog
  /\ out.kind \in AnswerKind /\ out.count \in Nat

\* The statement before the first and behind the last one.
LEMMA EmptyStatement ==
  StmtOK(ParseError)
<1>1. <<>> \in Seq(Column) /\ <<>> \in Seq(Text)
  OBVIOUS
<1>2. QED BY <1>1 DEF StmtOK, ParseError, Statement

\* A sequence of one element.
LEMMA OneElement ==
  ASSUME NEW S, NEW c \in S
  PROVE  <<c>> \in Seq(S)
OBVIOUS

\* A mistyped line is a line.
LEMMA TypoText ==
  ASSUME NEW s \in Text
  PROVE  /\ \A i \in 1 .. Len(s) + 1, c \in STRING : InsertAt(s, i, c) \in Text
         /\ \A i \in 1 .. Len(s) : RemoveAt(s, i) \in Text
<1>1. s \in Seq(STRING) /\ Len(s) \in Nat
  BY DEF Text
<1>2. ASSUME NEW i \in 1 .. Len(s) + 1, NEW c \in STRING PROVE InsertAt(s, i, c) \in Text
  <2> DEFINE a == SubSeq(s, 1, i - 1)
             b == SubSeq(s, i, Len(s))
             m == <<c>>
  <2>1. i \in Nat /\ i - 1 \in Nat /\ 1 <= 1 /\ 1 <= (i - 1) + 1 /\ i - 1 <= Len(s)
        /\ 1 <= i /\ i <= Len(s) + 1 /\ Len(s) <= Len(s)
    BY <1>1
  <2>2. a \in Seq(STRING)
    BY <1>1, <2>1, PartOf
  <2>3. b \in Seq(STRING)
    BY <1>1, <2>1, PartOf
  <2>4. m \in Seq(STRING)
    BY OneElement
  <2> HIDE DEF a, b, m
  <2>5. a \o m \in Seq(STRING)
    BY <2>2, <2>4, ConcatAt
  <2>6. (a \o m) \o b \in Seq(STRING)
    BY <2>3, <2>5, ConcatAt
  <2>7. QED BY <2>6 DEF InsertAt, Text, a, b, m
<1>3. ASSUME NEW i \in 1 .. Len(s) PROVE RemoveAt(s, i) \in Text
  <2> DEFINE a == SubSeq(s, 1, i - 1)
             b == SubSeq(s, i + 1, Len(s))
  <2>1. i + 1 \in Nat /\ i - 1 \in Nat /\ 1 <= 1 /\ 1 <= (i - 1) + 1 /\ i - 1 <= Len(s)
        /\ 1 <= i + 1 /\ i + 1 <= Len(s) + 1 /\ Len(s) <= Len(s)
    BY <1>1
  <2>2. a \in Seq(STRING)
    BY <1>1, <2>1, PartOf
  <2>3. b \in Seq(STRING)
    BY <1>1, <2>1, PartOf
  <2> HIDE DEF a, b
  <2>4. a \o b \in Seq(STRING)
    BY <2>2, <2>3, ConcatAt
  <2>5. QED BY <2>4 DEF RemoveAt, Text, a, b
<1>4. QED BY <1>2, <1>3

\* The engine starts with the invariant.
LEMMA EngineInit ==
  Init => EngineInv
<1> SUFFICES ASSUME Init PROVE EngineInv
  OBVIOUS
<1>1. line \in Text
  BY DEF Init, Text
<1>2. typos \in 0 .. MaxTypos
  BY MiniDBAssumption DEF Init
<1>3. StmtOK(stmt)
  BY EmptyStatement DEF Init
<1>4. CatalogInv
  <2>1. DOMAIN catalog = {} BY DEF Init
  <2>2. QED BY <2>1 DEF CatalogInv
<1>5. log \in Seq(LogEntry) /\ Len(log) <= MaxLog
  BY MiniDBAssumption DEF Init
<1>6. mode \in {"read", "parse", "execute", "gone"} /\ nextTxnId \in Nat \ {0}
  BY DEF Init
<1>7. out.kind \in AnswerKind /\ out.count \in Nat
  BY DEF Init, Silence, Answer, AnswerKind
<1>8. QED BY <1>1, <1>2, <1>3, <1>4, <1>5, <1>6, <1>7 DEF EngineInv

\* The answer that ends a statement.
LEMMA Answered ==
  ASSUME EngineInv, NEW a, answer(a), a.kind \in AnswerKind, a.count \in Nat
  PROVE  /\ line' \in Text /\ typos' \in 0 .. MaxTypos /\ StmtOK(stmt')
         /\ mode' \in {"read", "parse", "execute", "gone"}
         /\ out'.kind \in AnswerKind /\ out'.count \in Nat
BY EmptyStatement DEF EngineInv, answer

\* A step without a transaction leaves the log as it was.
LEMMA SameLog ==
  ASSUME EngineInv, UNCHANGED <<nextTxnId, log>>
  PROVE  nextTxnId' \in Nat \ {0} /\ log' \in Seq(LogEntry) /\ Len(log') <= MaxLog
BY DEF EngineInv

\* begin and commit append two records, and the log stays within its bound.
LEMMA LoggedTransaction ==
  ASSUME EngineInv, transaction
  PROVE  nextTxnId' \in Nat \ {0} /\ log' \in Seq(LogEntry) /\ Len(log') <= MaxLog
<1> DEFINE b == Record("BEGIN_TXN")
           c == Record("COMMIT_TXN")
           p == <<b, c>>
<1>1. log \in Seq(LogEntry) /\ nextTxnId \in Nat \ {0}
  BY DEF EngineInv
<1>2. b \in LogEntry /\ c \in LogEntry
  BY <1>1 DEF LogEntry, Record
<1> HIDE DEF b, c
<1>3. p \in Seq(LogEntry) /\ Len(p) = 2
  BY <1>2
<1>4. log' = log \o p /\ Len(log) + 2 <= MaxLog /\ nextTxnId' = nextTxnId + 1
  BY DEF transaction, b, c
<1> HIDE DEF p
<1>5. log \o p \in Seq(LogEntry) /\ Len(log \o p) = Len(log) + Len(p)
  BY <1>1, <1>3, ConcatAt
<1>6. log' \in Seq(LogEntry) /\ Len(log') <= MaxLog
  BY <1>3, <1>4, <1>5
<1>7. QED BY <1>1, <1>4, <1>6

\* The table of the statement has the invariant.
LEMMA TableOf ==
  ASSUME EngineInv, Known
  PROVE  TableInv(Info) /\ stmt.tableName \in DOMAIN catalog
BY DEF EngineInv, CatalogInv, Known, Info

\* A statement replaces one table of the catalog.
LEMMA ReplacedTable ==
  ASSUME EngineInv, NEW info, TableInv(info), catalog' = [catalog EXCEPT ![stmt.tableName] = info]
  PROVE  CatalogInv'
BY DEF EngineInv, CatalogInv

\* executeCreateTable keeps the invariant.
LEMMA CreateInv ==
  ASSUME EngineInv, executeCreateTable
  PROVE  EngineInv'
<1>1. nextTxnId' \in Nat \ {0} /\ log' \in Seq(LogEntry) /\ Len(log') <= MaxLog
  BY SameLog DEF executeCreateTable
<1>2. CASE answer(Error) /\ UNCHANGED catalog
  <2>1. Error.kind \in AnswerKind /\ Error.count \in Nat
    BY DEF Error, Answer, AnswerKind
  <2>2. CatalogInv'
    BY <1>2 DEF EngineInv, CatalogInv
  <2>3. QED BY <1>1, <1>2, <2>1, <2>2, Answered DEF EngineInv
<1>3. CASE /\ catalog' = [t \in DOMAIN catalog \cup {stmt.tableName} |->
                            IF t = stmt.tableName THEN NewTable(stmt.columns) ELSE catalog[t]]
           /\ answer(Answer("created", <<>>, 0))
  <2> DEFINE a == Answer("created", <<>>, 0)
  <2>1. a.kind \in AnswerKind /\ a.count \in Nat
    BY DEF Answer, AnswerKind
  <2>2. TableInv(NewTable(stmt.columns))
    <3>1. stmt.columns \in Seq(Column) BY DEF EngineInv, StmtOK
    <3>2. QED BY <3>1, NewTableInv
  <2>3. CatalogInv'
    BY <1>3, <2>2 DEF EngineInv, CatalogInv
  <2> HIDE DEF a
  <2>4. answer(a)
    BY <1>3 DEF a
  <2>5. QED BY <1>1, <2>1, <2>3, <2>4, Answered DEF EngineInv
<1>4. QED BY <1>2, <1>3 DEF executeCreateTable

\* executeInsert keeps the invariant.
LEMMA InsertStepInv ==
  ASSUME EngineInv, executeInsert
  PROVE  EngineInv'
<1>1. CASE answer(Error) /\ UNCHANGED <<catalog, nextTxnId, log>>
  <2>1. Error.kind \in AnswerKind /\ Error.count \in Nat
    BY DEF Error, Answer, AnswerKind
  <2>2. CatalogInv'
    BY <1>1 DEF EngineInv, CatalogInv
  <2>3. nextTxnId' \in Nat \ {0} /\ log' \in Seq(LogEntry) /\ Len(log') <= MaxLog
    BY <1>1, SameLog
  <2>4. QED BY <1>1, <2>1, <2>2, <2>3, Answered DEF EngineInv
<1>2. ASSUME insertable, NEW values, values = convert(stmt.values, Info.schema),
             Len(serializeTuple(values)) <= MaxCells,
             NEW rid \in RID \ Live(Info),
             catalog' = [catalog EXCEPT ![stmt.tableName] = inserted(values, rid)],
             transaction, answer(Answer("inserted", <<>>, 1))
      PROVE  EngineInv'
  <2> DEFINE a == Answer("inserted", <<>>, 1)
  <2>1. a.kind \in AnswerKind /\ a.count \in Nat
    BY DEF Answer, AnswerKind
  <2>2. TableInv(Info)
    BY <1>2, TableOf DEF insertable
  <2>3. values \in Row(Info.schema)
    <3>1. Info.schema \in Seq(Column) BY <2>2 DEF TableInv, TableInfo
    <3>2. stmt.values \in Seq(Text) BY DEF EngineInv, StmtOK
    <3>3. Len(stmt.values) = Len(Info.schema) BY <1>2 DEF insertable, convertible
    <3>4. QED BY <1>2, <3>1, <3>2, <3>3, Converted
  <2>4. TableInv(inserted(values, rid))
    BY <1>2, <2>2, <2>3, InsertInv DEF inserted
  <2>5. CatalogInv'
    BY <1>2, <2>4, ReplacedTable
  <2>6. nextTxnId' \in Nat \ {0} /\ log' \in Seq(LogEntry) /\ Len(log') <= MaxLog
    BY <1>2, LoggedTransaction
  <2> HIDE DEF a
  <2>7. answer(a)
    BY <1>2 DEF a
  <2>8. QED BY <2>1, <2>5, <2>6, <2>7, Answered DEF EngineInv
<1>3. QED BY <1>1, <1>2 DEF executeInsert

\* An insertion that ends the process keeps the invariant.
LEMMA InsertDiesInv ==
  ASSUME EngineInv, executeInsertDies
  PROVE  EngineInv'
<1>1. CatalogInv'
  BY DEF EngineInv, CatalogInv, executeInsertDies
<1>2. log' \in Seq(LogEntry) /\ Len(log') <= MaxLog
  <2> DEFINE b == Record("BEGIN_TXN")
  <2>1. log \in Seq(LogEntry) /\ nextTxnId \in Nat \ {0} /\ Len(log) < MaxLog
    BY DEF EngineInv, executeInsertDies
  <2>2. b \in LogEntry
    BY <2>1 DEF LogEntry, Record
  <2>3. log' \in {log, Append(log, b)}
    BY DEF executeInsertDies
  <2> HIDE DEF b
  <2>4. Append(log, b) \in Seq(LogEntry) /\ Len(Append(log, b)) = Len(log) + 1 /\ Len(log) \in Nat
    BY <2>1, <2>2
  <2>5. QED BY <2>1, <2>3, <2>4, MiniDBAssumption
<1>3. QED BY <1>1, <1>2 DEF EngineInv, executeInsertDies

\* A scan ends: it has a number of rows.
LEMMA ScanCount ==
  ASSUME NEW info, NEW where
  PROVE  Len(SeqScanExecutor(info, where).rows) \in Nat
<1> DEFINE S == matching(info, where)
           s == ascending(S)
           r == [i \in DOMAIN s |-> tupleAt(info, s[i])]
<1>1. S \subseteq 1 .. MaxRids /\ MaxRids \in Nat
  BY EngineAssumption DEF matching, Live, RID
<1> HIDE DEF S
<1>2. Ascending(s, S) /\ Cardinality(S) \in Nat
  BY <1>1, AscendingExists, FiniteUpTo
<1>3. DOMAIN s = 1 .. Cardinality(S)
  BY <1>2 DEF Ascending
<1> HIDE DEF s
<1>4. r = [i \in 1 .. Cardinality(S) |-> tupleAt(info, s[i])]
  BY <1>3
<1>5. Len(r) = Cardinality(S)
  BY <1>2, <1>4
<1>6. SeqScanExecutor(info, where).rows = r
  BY DEF SeqScanExecutor, Result, s, S
<1>7. QED BY <1>2, <1>5, <1>6

\* executeSelect keeps the invariant.
LEMMA SelectInv ==
  ASSUME EngineInv, executeSelect
  PROVE  EngineInv'
<1>1. CatalogInv'
  BY DEF EngineInv, CatalogInv, executeSelect
<1>2. nextTxnId' \in Nat \ {0} /\ log' \in Seq(LogEntry) /\ Len(log') <= MaxLog
  BY SameLog DEF executeSelect
<1>3. \E a : answer(a) /\ a.kind \in AnswerKind /\ a.count \in Nat
  <2>1. CASE answer(Error)
    <3>1. Error.kind \in AnswerKind /\ Error.count \in Nat
      BY DEF Error, Answer, AnswerKind
    <3>2. QED BY <2>1, <3>1
  <2>2. ASSUME NEW rows, rows = SeqScanExecutor(Info, stmt.where).rows,
               answer(Answer("rows", printed(rows, Info.schema, stmt.selectColumns), Len(rows)))
        PROVE  \E a : answer(a) /\ a.kind \in AnswerKind /\ a.count \in Nat
    <3> DEFINE shown == printed(rows, Info.schema, stmt.selectColumns)
               a == Answer("rows", shown, Len(rows))
    <3>1. Len(rows) \in Nat BY <2>2, ScanCount
    <3> HIDE DEF shown
    <3>2. a.kind = "rows" /\ a.count = Len(rows) BY DEF Answer
    <3>3. answer(a) BY <2>2 DEF shown
    <3> HIDE DEF a
    <3>4. a.kind \in AnswerKind BY <3>2 DEF AnswerKind
    <3>5. QED BY <3>1, <3>2, <3>3, <3>4
  <2>3. QED BY <2>1, <2>2 DEF executeSelect
<1>4. PICK a : answer(a) /\ a.kind \in AnswerKind /\ a.count \in Nat
  BY <1>3
<1>5. QED BY <1>1, <1>2, <1>4, Answered DEF EngineInv

\* executeDelete keeps the invariant.
LEMMA DeleteStepInv ==
  ASSUME EngineInv, executeDelete
  PROVE  EngineInv'
<1>1. CASE answer(Error) /\ UNCHANGED <<catalog, nextTxnId, log>>
  <2>1. Error.kind \in AnswerKind /\ Error.count \in Nat
    BY DEF Error, Answer, AnswerKind
  <2>2. CatalogInv'
    BY <1>1 DEF EngineInv, CatalogInv
  <2>3. nextTxnId' \in Nat \ {0} /\ log' \in Seq(LogEntry) /\ Len(log') <= MaxLog
    BY <1>1, SameLog
  <2>4. QED BY <1>1, <2>1, <2>2, <2>3, Answered DEF EngineInv
<1>2. CASE /\ deletable
           /\ catalog' = [catalog EXCEPT ![stmt.tableName] = DeleteExecutor(Info, stmt.where)]
           /\ transaction
           /\ answer(Answer("deleted", <<>>, Cardinality(matching(Info, stmt.where))))
  <2> DEFINE m == Cardinality(matching(Info, stmt.where))
             a == Answer("deleted", <<>>, m)
  <2>1. m \in Nat
    <3>1. matching(Info, stmt.where) \subseteq RID BY DEF matching, Live
    <3>2. QED BY <3>1, LiveFinite
  <2> HIDE DEF m
  <2>2. a.kind \in AnswerKind /\ a.count \in Nat
    BY <2>1 DEF Answer, AnswerKind
  <2>3. TableInv(DeleteExecutor(Info, stmt.where))
    BY <1>2, TableOf, DeleteInv DEF deletable
  <2>4. CatalogInv'
    BY <1>2, <2>3, ReplacedTable
  <2>5. nextTxnId' \in Nat \ {0} /\ log' \in Seq(LogEntry) /\ Len(log') <= MaxLog
    BY <1>2, LoggedTransaction
  <2> HIDE DEF a
  <2>6. answer(a)
    BY <1>2 DEF a, m
  <2>7. QED BY <2>2, <2>4, <2>5, <2>6, Answered DEF EngineInv
<1>3. QED BY <1>1, <1>2 DEF executeDelete

\* Every step keeps the invariant.
LEMMA EngineNext ==
  EngineInv /\ [Next]_vars => EngineInv'
<1> SUFFICES ASSUME EngineInv, [Next]_vars PROVE EngineInv'
  OBVIOUS
<1>1. ASSUME NEW l \in Lines, readLine(l) PROVE EngineInv'
  <2>1. line' \in Text
    BY <1>1, MiniDBAssumption DEF readLine
  <2>2. out'.kind \in AnswerKind /\ out'.count \in Nat
    BY <1>1 DEF readLine, Silence, Answer, AnswerKind
  <2>3. CatalogInv'
    BY <1>1 DEF readLine, EngineInv, CatalogInv
  <2>4. QED BY <1>1, <2>1, <2>2, <2>3 DEF readLine, EngineInv
<1>2. CASE typo
  <2>1. line' \in Text
    <3>1. line \in Text BY DEF EngineInv
    <3>2. DOMAIN line = 1 .. Len(line) BY <3>1 DEF Text
    <3>3. ASSUME NEW i \in 1 .. Len(line) + 1, NEW c \in TypoChar, line' = InsertAt(line, i, c)
          PROVE  line' \in Text
      <4>1. c \in STRING BY MiniDBAssumption
      <4>2. QED BY <3>1, <3>3, <4>1, TypoText
    <3>4. ASSUME NEW i \in DOMAIN line, line' = RemoveAt(line, i) PROVE line' \in Text
      BY <3>1, <3>2, <3>4, TypoText
    <3>5. QED BY <1>2, <3>3, <3>4 DEF typo
  <2>2. typos' \in 0 .. MaxTypos
    BY <1>2, MiniDBAssumption DEF typo, EngineInv
  <2>3. CatalogInv'
    BY <1>2 DEF typo, EngineInv, CatalogInv
  <2>4. QED BY <1>2, <2>1, <2>2, <2>3 DEF typo, EngineInv
<1>3. CASE parseLine
  <2> DEFINE s == parse(handleInput(line))
  <2>1. StmtOK(s)
    BY LexerType, ParserType DEF EngineInv
  <2>2. /\ stmt' = s /\ mode' = IF s = ParseError THEN "read" ELSE "execute"
        /\ out' = IF s = ParseError THEN Error ELSE out
        /\ line' = <<>>
        /\ UNCHANGED <<typos, catalog, nextTxnId, log>>
    BY <1>3 DEF parseLine
  <2> HIDE DEF s
  <2>3. CatalogInv'
    BY <2>2 DEF EngineInv, CatalogInv
  <2>4. Error.kind \in AnswerKind /\ Error.count \in Nat
    BY DEF Error, Answer, AnswerKind
  <2>5. out'.kind \in AnswerKind /\ out'.count \in Nat
    BY <2>2, <2>4 DEF EngineInv
  <2>6. line' \in Text
    BY <2>2 DEF Text
  <2>7. QED BY <2>1, <2>2, <2>3, <2>5, <2>6 DEF EngineInv
<1>4. CASE execute
  BY <1>4, CreateInv, InsertStepInv, InsertDiesInv, SelectInv, DeleteStepInv DEF execute
<1>5. CASE exit
  <2>1. CatalogInv'
    BY <1>5 DEF exit, EngineInv, CatalogInv
  <2>2. QED BY <1>5, <2>1 DEF exit, EngineInv
<1>6. CASE restart
  <2>1. CatalogInv'
    <3>1. DOMAIN catalog' = {} BY <1>6 DEF restart
    <3>2. QED BY <3>1 DEF CatalogInv
  <2>2. out'.kind \in AnswerKind /\ out'.count \in Nat
    BY <1>6 DEF restart, Silence, Answer, AnswerKind
  <2>3. QED BY <1>6, <2>1, <2>2, EmptyStatement DEF restart, EngineInv
<1>7. CASE UNCHANGED vars
  <2>1. CatalogInv'
    BY <1>7 DEF vars, EngineInv, CatalogInv
  <2>2. QED BY <1>7, <2>1 DEF vars, EngineInv
<1>8. QED BY <1>1, <1>2, <1>3, <1>4, <1>5, <1>6, <1>7 DEF Next

\* Everything the engine's other theorems need holds in every state: see EngineInv.
THEOREM EngineCorrect ==
  Spec => []EngineInv
BY EngineInit, EngineNext, PTL DEF Spec

\* The invariant implies the type invariant of the engine.
LEMMA EngineTyped ==
  EngineInv => TypeOK
<1> SUFFICES ASSUME EngineInv PROVE TypeOK
  OBVIOUS
<1>1. TablesTyped
  <2> SUFFICES ASSUME NEW t \in DOMAIN catalog
               PROVE  LET info == catalog[t] IN
                      /\ info.rowCount \in Nat
                      /\ DOMAIN info.heap = RID
                      /\ \A rid \in Live(info) : matchesSchema(tupleAt(info, rid), info.schema)
                      /\ \A k \in DOMAIN info.index : k \in Int /\ info.index[k] \in RID
    BY DEF TablesTyped
  <2> DEFINE info == catalog[t]
  <2>1. TableInv(info)
    BY DEF EngineInv, CatalogInv
  <2> HIDE DEF info
  <2>2. info.rowCount \in Nat /\ DOMAIN info.heap = RID
    BY <2>1 DEF TableInv, TableInfo
  <2>3. \A rid \in Live(info) : matchesSchema(tupleAt(info, rid), info.schema)
    <3>1. DOMAIN info.schema = 1 .. Len(info.schema) BY <2>1 DEF TableInv, TableInfo
    <3>2. QED BY <2>1, <3>1 DEF TableInv, RowsOK, Row, matchesSchema
  <2>4. \A k \in DOMAIN info.index : k \in Int /\ info.index[k] \in RID
    <3>1. info.index \in Index BY <2>1 DEF TableInv, TableInfo
    <3>2. QED BY <3>1, IndexFunction
  <2>5. QED BY <2>2, <2>3, <2>4 DEF info
<1>2. \A i \in DOMAIN log :
        log[i].type \in {"BEGIN_TXN", "COMMIT_TXN"} /\ log[i].txnId \in Nat \ {0}
  <2>1. log \in Seq(LogEntry) BY DEF EngineInv
  <2>2. \A i \in DOMAIN log : log[i] \in LogEntry BY <2>1
  <2>3. QED BY <2>2 DEF LogEntry
<1>3. QED BY <1>1, <1>2 DEF EngineInv, TypeOK

\* Every variable of the engine has its type, and every stored tuple is read back by
\* deserializeTuple with a value of the right type for every column of its table.
THEOREM EngineTypeCorrect ==
  Spec => []TypeOK
BY EngineCorrect, EngineTyped, PTL

\* An entry of the index with a key that is not negative leads to a stored tuple with
\* that key, whatever was inserted and deleted before, with RIDs used again.
THEOREM IndexSoundHolds ==
  Spec => []IndexSound
<1>1. EngineInv => IndexSound
  BY DEF EngineInv, CatalogInv, TableInv, IndexOK, IndexSound
<1>2. QED BY <1>1, EngineCorrect, PTL

\* The row count that the optimizer reads is never below the number of stored tuples.
THEOREM RowCountCoversHolds ==
  Spec => []RowCountCovers
<1>1. EngineInv => RowCountCovers
  BY DEF EngineInv, CatalogInv, TableInv, CountOK, RowCountCovers
<1>2. QED BY <1>1, EngineCorrect, PTL

-------------------------------------------------------------------------------
(* Bags *)

\* The bag of what f has at the members of L.
BagOf(L, f) == [v \in {f[x] : x \in L} |-> Cardinality({x \in L : f[x] = v})]

\* h leads from A to C, and to every member of C from one of A.
Paired(h, A, C) ==
  /\ \A x \in A : h[x] \in C
  /\ \A x, y \in A : h[x] = h[y] => x = y
  /\ \A c \in C : \E x \in A : h[x] = c

\* As many here as there.
LEMMA PairedCount ==
  ASSUME NEW h, NEW A, NEW C, IsFiniteSet(A), Paired(h, A, C)
  PROVE  IsFiniteSet(C) /\ Cardinality(C) = Cardinality(A)
<1> DEFINE g == [x \in A |-> h[x]]
<1>1. g \in [A -> C]
  BY DEF Paired
<1>2. g \in Injection(A, C)
  BY <1>1 DEF Paired, Injection, IsInjective
<1>3. g \in Surjection(A, C)
  BY <1>1 DEF Paired, Surjection
<1>4. ExistsBijection(A, C)
  BY <1>2, <1>3 DEF ExistsBijection, Bijection
<1>5. QED BY <1>4, FS_Bijection

\* A pairing of two sets pairs the parts of them that answer to each other.
LEMMA PairedPart ==
  ASSUME NEW h, NEW A, NEW C, NEW P, NEW Q, Paired(h, A, C), P \subseteq A, Q \subseteq C,
         \A x \in A : x \in P <=> h[x] \in Q
  PROVE  Paired(h, P, Q)
<1>1. \A x \in P : h[x] \in Q
  OBVIOUS
<1>2. \A x, y \in P : h[x] = h[y] => x = y
  BY DEF Paired
<1>3. ASSUME NEW c \in Q PROVE \E x \in P : h[x] = c
  <2>1. PICK x \in A : h[x] = c BY DEF Paired
  <2>2. QED BY <2>1
<1>4. QED BY <1>1, <1>2, <1>3 DEF Paired

\* Paired members that have the same value make the same bag.
LEMMA PairedBags ==
  ASSUME NEW h, NEW A, NEW C, IsFiniteSet(A), Paired(h, A, C), NEW f, NEW g,
         \A x \in A : g[h[x]] = f[x]
  PROVE  BagOf(A, f) = BagOf(C, g)
<1>1. {f[x] : x \in A} = {g[c] : c \in C}
  <2>1. ASSUME NEW x \in A PROVE f[x] \in {g[c] : c \in C}
    <3>1. h[x] \in C /\ g[h[x]] = f[x] BY DEF Paired
    <3>2. QED BY <3>1
  <2>2. ASSUME NEW c \in C PROVE g[c] \in {f[x] : x \in A}
    <3>1. PICK x \in A : h[x] = c BY DEF Paired
    <3>2. QED BY <3>1
  <2>3. QED BY <2>1, <2>2
<1>2. ASSUME NEW v PROVE Cardinality({x \in A : f[x] = v}) = Cardinality({c \in C : g[c] = v})
  <2> DEFINE P == {x \in A : f[x] = v}
             Q == {c \in C : g[c] = v}
  <2>1. P \subseteq A /\ Q \subseteq C
    OBVIOUS
  <2>2. \A x \in A : x \in P <=> h[x] \in Q
    BY DEF Paired
  <2>3. IsFiniteSet(P)
    BY <2>1, FS_Subset
  <2> HIDE DEF P, Q
  <2>4. Paired(h, P, Q)
    BY <2>1, <2>2, PairedPart
  <2>5. Cardinality(Q) = Cardinality(P)
    BY <2>3, <2>4, PairedCount
  <2>6. QED BY <2>5 DEF P, Q
<1> DEFINE c1(v) == Cardinality({x \in A : f[x] = v})
           c2(v) == Cardinality({c \in C : g[c] = v})
<1>3. \A v : c1(v) = c2(v) BY <1>2
<1>4. BagOf(A, f) = [v \in {f[x] : x \in A} |-> c1(v)] BY DEF BagOf
<1>5. BagOf(C, g) = [v \in {g[c] : c \in C} |-> c2(v)] BY DEF BagOf
<1> HIDE DEF c1, c2
<1>6. QED BY <1>1, <1>3, <1>4, <1>5

\* The copies of rows.
CopiesOf(rows) == UNION {{row} \X (1 .. rows[row]) : row \in DOMAIN rows}

\* The members of L that have what x has, up to x, give x its number.
LEMMA CopiesPaired ==
  ASSUME NEW L, Numbers(L), NEW f
  PROVE  \E h : /\ Paired(h, L, CopiesOf(BagOf(L, f)))
                /\ \A x \in L : h[x][1] = f[x]
<1> DEFINE same(v) == {x \in L : f[x] = v}
           B == BagOf(L, f)
           h == [x \in L |-> <<f[x], rank(same(f[x]), x)>>]
<1>1. \A v : Numbers(same(v))
  <2> TAKE v
  <2>1. same(v) \in SUBSET L OBVIOUS
  <2> HIDE DEF same
  <2>2. QED BY <2>1, FS_Subset DEF Numbers
<1>2. DOMAIN B = {f[x] : x \in L} /\ \A v \in DOMAIN B : B[v] = Cardinality(same(v))
  BY DEF BagOf
<1>3. \A v, i : <<v, i>> \in CopiesOf(B) <=> v \in DOMAIN B /\ i \in 1 .. B[v]
  BY DEF CopiesOf
<1>4. \A c \in CopiesOf(B) : c = <<c[1], c[2]>>
  BY DEF CopiesOf
<1>5. \A x \in L : h[x] = <<f[x], rank(same(f[x]), x)>> /\ x \in same(f[x]) /\ f[x] \in DOMAIN B
  BY <1>2
<1>6. \A v : \A x \in same(v) : x \in L /\ f[x] = v
  OBVIOUS
<1> HIDE DEF same, B, h
<1>7. ASSUME NEW x \in L PROVE h[x] \in CopiesOf(B) /\ h[x][1] = f[x]
  <2>1. rank(same(f[x]), x) \in 1 .. Cardinality(same(f[x]))
    BY <1>1, <1>5, RankIs
  <2> DEFINE v == f[x]
             i == rank(same(v), x)
  <2>2. h[x] = <<v, i>> /\ v \in DOMAIN B BY <1>5
  <2>3. i \in 1 .. B[v] BY <1>2, <2>1, <2>2
  <2> HIDE DEF v, i
  <2>4. <<v, i>> \in CopiesOf(B) BY <1>3, <2>2, <2>3
  <2>5. h[x][1] = v BY <2>2
  <2>6. QED BY <2>2, <2>4, <2>5 DEF v
<1>8. ASSUME NEW x \in L, NEW y \in L, h[x] = h[y] PROVE x = y
  <2>1. f[x] = f[y] /\ rank(same(f[x]), x) = rank(same(f[y]), y)
    BY <1>5, <1>8
  <2> DEFINE S == same(f[x])
  <2>2. x \in S /\ y \in S /\ rank(S, x) = rank(S, y) /\ Numbers(S)
    BY <1>1, <1>5, <2>1
  <2> HIDE DEF S
  <2>3. QED BY <2>2, RankOnce
<1>9. ASSUME NEW c \in CopiesOf(B) PROVE \E x \in L : h[x] = c
  <2> DEFINE v == c[1]
             i == c[2]
  <2>1. c = <<v, i>> BY <1>4
  <2>2. v \in DOMAIN B /\ i \in 1 .. Cardinality(same(v))
    <3>1. <<v, i>> \in CopiesOf(B) BY <2>1
    <3> HIDE DEF v, i
    <3>2. QED BY <1>2, <1>3, <3>1
  <2> HIDE DEF v, i
  <2>3. PICK x \in same(v) : rank(same(v), x) = i
    BY <1>1, <2>2, RankTaken
  <2>4. x \in L /\ f[x] = v
    BY <1>6
  <2>5. QED BY <1>5, <2>1, <2>3, <2>4
<1>10. Paired(h, L, CopiesOf(B))
  BY <1>7, <1>8, <1>9 DEF Paired
<1>11. QED BY <1>7, <1>10 DEF B

\* Only what f has at the members of L matters.
LEMMA SameBag ==
  ASSUME NEW L, NEW f, NEW g, \A x \in L : f[x] = g[x]
  PROVE  BagOf(L, f) = BagOf(L, g)
<1>1. {f[x] : x \in L} = {g[x] : x \in L}
  OBVIOUS
<1>2. \A v : {x \in L : f[x] = v} = {x \in L : g[x] = v}
  OBVIOUS
<1> DEFINE c1(v) == Cardinality({x \in L : f[x] = v})
           c2(v) == Cardinality({x \in L : g[x] = v})
<1>3. \A v : c1(v) = c2(v) BY <1>2
<1>4. BagOf(L, f) = [v \in {f[x] : x \in L} |-> c1(v)] BY DEF BagOf
<1>5. BagOf(L, g) = [v \in {g[x] : x \in L} |-> c2(v)] BY DEF BagOf
<1> HIDE DEF c1, c2
<1>6. QED BY <1>1, <1>3, <1>4, <1>5

\* The bag of some of the values.
LEMMA BagPart ==
  ASSUME NEW L, NEW f, NEW S, S \subseteq DOMAIN BagOf(L, f)
  PROVE  [v \in S |-> BagOf(L, f)[v]] = BagOf({x \in L : f[x] \in S}, f)
<1> DEFINE M == {x \in L : f[x] \in S}
           c1(v) == Cardinality({x \in L : f[x] = v})
           c2(v) == Cardinality({x \in M : f[x] = v})
<1>1. DOMAIN BagOf(L, f) = {f[x] : x \in L} /\ \A v \in S : BagOf(L, f)[v] = c1(v)
  BY DEF BagOf
<1>2. {f[x] : x \in M} = S
  BY <1>1
<1>3. ASSUME NEW v \in S PROVE c1(v) = c2(v)
  <2>1. {x \in L : f[x] = v} = {x \in M : f[x] = v} OBVIOUS
  <2>2. QED BY <2>1
<1>4. BagOf(M, f) = [v \in {f[x] : x \in M} |-> c2(v)]
  BY DEF BagOf
<1> HIDE DEF c1, c2, M
<1>5. [v \in S |-> BagOf(L, f)[v]] = BagOf(M, f)
  BY <1>1, <1>2, <1>3, <1>4
<1>6. QED BY <1>5 DEF M

\* A bag and one value more.
More(B, w) == Abs!(+)(B, Abs!SetToBag({w}))

\* Insert of the abstract specification counts one value once more.
LEMMA BagMore ==
  ASSUME NEW L, IsFiniteSet(L), NEW f, NEW g, NEW y, y \notin L, \A x \in L : g[x] = f[x]
  PROVE  BagOf(L \cup {y}, g) = More(BagOf(L, f), g[y])
<1> DEFINE M == L \cup {y}
           c1(v) == Cardinality({x \in L : f[x] = v})
           c2(v) == Cardinality({x \in M : g[x] = v})
           B == BagOf(L, f)
           w == g[y]
<1>1. DOMAIN B = {f[x] : x \in L} /\ \A v \in DOMAIN B : B[v] = c1(v)
  BY DEF BagOf
<1>2. BagOf(M, g) = [v \in {g[x] : x \in M} |-> c2(v)]
  BY DEF BagOf
<1>3. {g[x] : x \in M} = DOMAIN B \cup {w}
  BY <1>1
<1>4. ASSUME NEW v, v # w PROVE c2(v) = c1(v)
  <2>1. {x \in M : g[x] = v} = {x \in L : f[x] = v} BY <1>4
  <2>2. QED BY <2>1
<1>5. ASSUME NEW v PROVE c1(v) \in Nat
  <2> DEFINE S == {x \in L : f[x] = v}
  <2>1. S \in SUBSET L OBVIOUS
  <2> HIDE DEF S
  <2>2. Cardinality(S) \in Nat BY <2>1, FS_Subset, FS_CardinalityType
  <2>3. QED BY <2>2 DEF S
<1>6. c2(w) = c1(w) + 1
  <2> DEFINE S == {x \in L : f[x] = w}
  <2>1. {x \in M : g[x] = w} = S \cup {y} OBVIOUS
  <2>2. IsFiniteSet(S) /\ y \notin S BY FS_Subset
  <2> HIDE DEF S
  <2>3. Cardinality(S \cup {y}) = Cardinality(S) + 1 BY <2>2, FS_AddElement
  <2>4. QED BY <2>1, <2>3 DEF S
<1>7. w \notin DOMAIN B => c1(w) = 0
  <2> DEFINE S == {x \in L : f[x] = w}
  <2>1. w \notin DOMAIN B => S = {} BY <1>1
  <2> HIDE DEF S
  <2>2. w \notin DOMAIN B => Cardinality(S) = 0 BY <2>1, FS_EmptySet
  <2>3. QED BY <2>2 DEF S
<1> HIDE DEF M, c1, c2, B, w
<1> DEFINE m(e) == (IF e \in DOMAIN B THEN B[e] ELSE 0) + (IF e = w THEN 1 ELSE 0)
<1>8. More(B, w) = [e \in DOMAIN B \cup {w} |-> m(e)]
  BY DEF More, Abs!(+), Abs!SetToBag
<1>9. ASSUME NEW e \in DOMAIN B \cup {w} PROVE c2(e) = m(e)
  <2>1. CASE e = w
    <3>1. (IF e \in DOMAIN B THEN B[e] ELSE 0) = c1(w) BY <1>1, <1>7, <2>1
    <3>2. QED BY <1>6, <2>1, <3>1
  <2>2. CASE e # w
    <3>1. e \in DOMAIN B /\ B[e] = c1(e) /\ c1(e) \in Nat BY <1>1, <1>5, <2>2
    <3>2. QED BY <1>4, <2>2, <3>1
  <2>3. QED BY <2>1, <2>2
<1> HIDE DEF m
<1>10. BagOf(M, g) = More(B, w)
  BY <1>2, <1>3, <1>8, <1>9
<1>11. QED BY <1>10 DEF M, B, w

\* ToBag counts positions.
LEMMA ListBag ==
  ASSUME NEW s
  PROVE  ToBag(s) = BagOf(DOMAIN s, s)
BY DEF ToBag, BagOf, Range

-------------------------------------------------------------------------------
(* The abstract specification reads values as the engine does *)

\* The abstract specification looks a column up as the engine does.
LEMMA SameColumn ==
  ASSUME NEW schema, NEW name
  PROVE Abs!findColumn(schema, name) = findColumn(schema, name)
BY DEF Abs!findColumn, findColumn, Abs!SelectInSeq, SelectInSeq, Abs!Min, Min

\* It reads an INT as std::stoi does.
LEMMA SameInt ==
  ASSUME NEW s
  PROVE (Abs!isInt(s) <=> isInt(s)) /\ Abs!stoi(s) = stoi(s)
<1>0. Abs!Space = Space
  BY DEF Abs!Space, Space
<1>1. \A x : Abs!trimmed(x) = trimmed(x)
  BY <1>0 DEF Abs!trimmed, trimmed, Abs!From, From, Abs!SelectInSeq, SelectInSeq, Abs!Min, Min
<1>2. \A x : Abs!leadingDigits(x) = leadingDigits(x)
  BY DEF Abs!leadingDigits, leadingDigits, Abs!SelectInSeq, SelectInSeq, Abs!Min, Min,
         Abs!Digit, Digit
<1>3. \A x : Abs!number(x) = number(x)
  BY DEF Abs!number, number, Abs!digitValue, digitValue, Abs!leadingDigits, leadingDigits,
         Abs!SelectInSeq, SelectInSeq, Abs!Min, Min, Abs!Digit, Digit
<1>4. Abs!isNegative(s) <=> isNegative(s)
  BY <1>1 DEF Abs!isNegative, isNegative
<1>5. Abs!magnitude(s) = magnitude(s)
  BY <1>1 DEF Abs!magnitude, magnitude
<1>6. QED BY <1>2, <1>3, <1>4, <1>5 DEF Abs!isInt, isInt, Abs!stoi, stoi

\* It converts the texts of an INSERT as executeInsert does.
LEMMA SameConvert ==
  ASSUME NEW texts, NEW schema
  PROVE  /\ Abs!convertible(texts, schema) <=> convertible(texts, schema)
         /\ Abs!convert(texts, schema) = convert(texts, schema)
<1>1. Abs!convertible(texts, schema) <=> convertible(texts, schema)
  BY SameInt DEF Abs!convertible, convertible
<1>2. Abs!convert(texts, schema) = convert(texts, schema)
  <2>1. \A i : Abs!IntValue(Abs!stoi(texts[i])) = IntValue(stoi(texts[i]))
    BY SameInt DEF Abs!IntValue, IntValue
  <2>2. \A i : Abs!TextValue(texts[i]) = TextValue(texts[i])
    BY DEF Abs!TextValue, TextValue
  <2>3. QED BY <2>1, <2>2 DEF Abs!convert, convert
<1>3. QED BY <1>1, <1>2

\* It chooses rows with the predicate of the WHERE clause.
LEMMA SamePredicate ==
  ASSUME NEW schema, NEW where, NEW tuple
  PROVE  Abs!predicate(schema, where, tuple) <=> predicate(schema, where, tuple)
BY SameInt, SameColumn DEF Abs!predicate, predicate, Abs!NoWhere, NoWhere

-------------------------------------------------------------------------------
(* The statement and what waits for it *)

\* Only a SELECT names columns to show, and an INSERT has no WHERE clause.
Fits(s) ==
  /\ s.type = "INSERT" => s.where = NoWhere
  /\ s.type \in {"INSERT", "DELETE_STMT"} => s.selectColumns = <<>>

\* The parser makes such statements only.
LEMMA ParsedFits ==
  ASSUME NEW toks
  PROVE  Fits(parse(toks))
<1>0. Fits(ParseError)
  BY DEF Fits, ParseError, Statement
<1>1. Fits(parseCreateTable(toks))
  <2>1. \A name, cols : Fits([Statement("CREATE_TABLE", name) EXCEPT !.columns = cols])
    BY DEF Fits, Statement
  <2>2. QED BY <1>0, <2>1 DEF parseCreateTable
<1>2. Fits(parseInsert(toks))
  <2>1. \A name, vals : Fits([Statement("INSERT", name) EXCEPT !.values = vals])
    BY DEF Fits, Statement, NoWhere
  <2>2. QED BY <1>0, <2>1 DEF parseInsert
<1>3. Fits(parseSelect(toks))
  <2>1. \A p, name, cols :
          Fits(parseWhere(toks, p, [Statement("SELECT", name) EXCEPT !.selectColumns = cols]))
    BY <1>0 DEF Fits, Statement, parseWhere
  <2>2. QED BY <1>0, <2>1 DEF parseSelect
<1>4. Fits(parseDelete(toks))
  <2>1. \A p, name : Fits(parseWhere(toks, p, Statement("DELETE_STMT", name)))
    BY <1>0 DEF Fits, Statement, parseWhere
  <2>2. QED BY <1>0, <2>1 DEF parseDelete
<1>5. QED BY <1>0, <1>1, <1>2, <1>3, <1>4 DEF parse

\* A statement is kept from the parser to its answer.
StmtFits == Fits(stmt) /\ (mode \in {"read", "parse"} => stmt = ParseError)

\* It is so in every state: an answer takes the statement away.
LEMMA StmtFitsAlways ==
  Spec => []StmtFits
<1>1. Fits(ParseError)
  BY DEF Fits, ParseError, Statement
<1>2. Init => StmtFits
  BY <1>1 DEF Init, StmtFits
<1>3. StmtFits /\ [Next]_vars => StmtFits'
  <2> SUFFICES ASSUME StmtFits, [Next]_vars PROVE StmtFits'
    OBVIOUS
  <2>1. ASSUME NEW l \in Lines, readLine(l) PROVE StmtFits'
    BY <2>1 DEF readLine, StmtFits
  <2>2. CASE typo
    BY <2>2 DEF typo, StmtFits
  <2>3. CASE parseLine
    <3> DEFINE s == parse(handleInput(line))
    <3>1. Fits(s) BY ParsedFits
    <3>2. stmt' = s /\ mode' = IF s = ParseError THEN "read" ELSE "execute"
      BY <2>3 DEF parseLine
    <3> HIDE DEF s
    <3>3. QED BY <3>1, <3>2 DEF StmtFits
  <2>4. CASE execute
    <3>1. ASSUME NEW a, answer(a) PROVE StmtFits'
      BY <1>1, <3>1 DEF answer, StmtFits
    <3>2. CASE executeCreateTable BY <3>1, <3>2 DEF executeCreateTable
    <3>3. CASE executeInsert BY <3>1, <3>3 DEF executeInsert
    <3>4. CASE executeInsertDies BY <3>4 DEF executeInsertDies, StmtFits
    <3>5. CASE executeSelect BY <3>1, <3>5 DEF executeSelect
    <3>6. CASE executeDelete BY <3>1, <3>6 DEF executeDelete
    <3>7. QED BY <2>4, <3>2, <3>3, <3>4, <3>5, <3>6 DEF execute
  <2>5. CASE exit
    BY <2>5 DEF exit, StmtFits
  <2>6. CASE restart
    BY <1>1, <2>6 DEF restart, StmtFits
  <2>7. CASE UNCHANGED vars
    BY <2>7 DEF vars, StmtFits
  <2>8. QED BY <2>1, <2>2, <2>3, <2>4, <2>5, <2>6, <2>7 DEF Next
<1>4. QED BY <1>2, <1>3, PTL DEF Spec

-------------------------------------------------------------------------------
(* The rows of a table *)

\* What a scan reads at the RIDs.
rowOf(info) == [rid \in Live(info) |-> tupleAt(info, rid)]

\* The bag of the rows of a table counts its RIDs.
LEMMA RowBagIs ==
  ASSUME NEW info
  PROVE  RowBag(info) = BagOf(Live(info), rowOf(info))
BY DEF RowBag, BagOf, rowOf

\* A table starts without rows.
LEMMA NewRows ==
  ASSUME NEW schema
  PROVE  RowBag(NewTable(schema)) = <<>> /\ NewTable(schema).schema = schema
<1> DEFINE n == NewTable(schema)
<1>1. n.schema = schema /\ n.heap = [rid \in RID |-> NoTuple]
  BY DEF NewTable
<1> HIDE DEF n
<1>2. Live(n) = {}
  BY <1>1 DEF Live
<1>3. DOMAIN RowBag(n) = {} /\ RowBag(n) = [v \in DOMAIN RowBag(n) |-> RowBag(n)[v]]
  BY <1>2 DEF RowBag
<1>4. RowBag(n) = <<>>
  BY <1>3
<1>5. QED BY <1>1, <1>4 DEF n

\* The table after executeInsert, which counts the row once more than InsertExecutor did.
afterInsert(info, values, rid) ==
  [InsertExecutor(info, values, rid) EXCEPT !.rowCount = @ + 1]

\* An INSERT adds its row to the bag and touches no other; a row of no columns is stored as
\* nothing and is lost.
LEMMA InsertedRows ==
  ASSUME NEW info, TableInv(info), NEW values \in Row(info.schema),
         Len(serializeTuple(values)) <= MaxCells, NEW rid \in RID \ Live(info),
         NEW n, n = afterInsert(info, values, rid)
  PROVE  /\ n.schema = info.schema
         /\ RowBag(n) = IF values = <<>> THEN RowBag(info) ELSE More(RowBag(info), values)
<1> DEFINE data == serializeTuple(values)
<1>1. TableInfo(info)
  BY DEF TableInv
<1>2. n.schema = info.schema /\ n.heap = [info.heap EXCEPT ![rid] = data]
  <2> DEFINE m == InsertExecutor(info, values, rid)
             t == treeInsert(info, values, rid)
  <2>1. info = [schema |-> info.schema, rowCount |-> info.rowCount, hasIndex |-> info.hasIndex,
                heap |-> info.heap, index |-> info.index]
    BY <1>1 DEF TableInfo
  <2>2. m = [info EXCEPT !.heap[rid] = data, !.index = t, !.rowCount = @ + 1]
    BY DEF InsertExecutor
  <2> HIDE DEF data, t
  <2>3. m.schema = info.schema /\ m.heap = [info.heap EXCEPT ![rid] = data]
        /\ m = [schema |-> m.schema, rowCount |-> m.rowCount, hasIndex |-> m.hasIndex,
                heap |-> m.heap, index |-> m.index]
    BY <2>1, <2>2
  <2> HIDE DEF m
  <2>4. n = [m EXCEPT !.rowCount = @ + 1] BY DEF m, afterInsert
  <2>5. QED BY <2>3, <2>4
<1>3. DOMAIN info.heap = RID /\ rid \in RID /\ rid \notin Live(info)
  BY <1>1 DEF TableInfo
<1>4. values \in Seq(Val) /\ Len(values) = Len(info.schema)
  BY DEF Row
<1>5. \A x \in RID : n.heap[x] = IF x = rid THEN data ELSE info.heap[x]
  BY <1>2, <1>3
<1>6. info.heap[rid] = NoTuple
  BY <1>3 DEF Live
<1>7. \A x \in Live(info) : x # rid /\ tupleAt(n, x) = tupleAt(info, x)
  BY <1>2, <1>3, <1>5 DEF Live, tupleAt
<1> HIDE DEF data
<1>8. CASE values = <<>>
  <2>1. data = NoTuple BY <1>4, <1>8, Stored DEF data
  <2>2. Live(n) = Live(info) BY <1>5, <1>6, <2>1 DEF Live
  <2>3. \A x \in Live(info) : rowOf(n)[x] = rowOf(info)[x] BY <1>7, <2>2 DEF rowOf
  <2>4. RowBag(n) = RowBag(info) BY <2>2, <2>3, RowBagIs, SameBag
  <2>5. QED BY <1>2, <1>8, <2>4
<1>9. CASE values # <<>>
  <2>1. data # NoTuple BY <1>4, <1>9, RowNotEmpty DEF data
  <2>2. Live(n) = Live(info) \cup {rid} BY <1>3, <1>5, <2>1 DEF Live
  <2>3. \A x \in Live(info) : rowOf(n)[x] = rowOf(info)[x] BY <1>7, <2>2 DEF rowOf
  <2>4. rowOf(n)[rid] = values
    <3>1. Len(serializeTuple(values)) <= 2^16 - 1
      <4>1. Len(serializeTuple(values)) \in Nat BY <1>4, TupleLayout
      <4>2. MaxCells \in 0 .. 2^16 - 1 BY MiniDBAssumption
      <4>3. 2^16 - 1 \in Int OBVIOUS
      <4>4. QED BY <4>1, <4>2, <4>3
    <3>2. deserializeTuple(serializeTuple(values), info.schema) = values
      BY <1>4, <3>1, TupleRoundTrip
    <3>3. tupleAt(n, rid) = values BY <1>2, <1>3, <1>5, <3>2 DEF tupleAt, data
    <3>4. QED BY <2>2, <3>3 DEF rowOf
  <2>5. IsFiniteSet(Live(info)) BY LiveFinite DEF Live
  <2>6. BagOf(Live(n), rowOf(n)) = More(BagOf(Live(info), rowOf(info)), values)
    <3> DEFINE L == Live(info)
               f == rowOf(info)
               g == rowOf(n)
    <3>1. IsFiniteSet(L) /\ rid \notin L /\ Live(n) = L \cup {rid} /\ g[rid] = values
      BY <1>3, <2>2, <2>4, <2>5
    <3>2. \A x \in L : g[x] = f[x] BY <2>3
    <3> HIDE DEF L, f, g
    <3>3. BagOf(L \cup {rid}, g) = More(BagOf(L, f), g[rid])
      BY ONLY <3>1, <3>2, BagMore
    <3>4. QED BY <3>1, <3>3 DEF L, f, g
  <2>7. RowBag(n) = More(RowBag(info), values)
    BY <2>6, RowBagIs
  <2>8. QED BY <1>2, <1>9, <2>7
<1>10. QED BY <1>8, <1>9

\* A DELETE takes the tuples of its RIDs and leaves the others as they are.
LEMMA DeletedRows ==
  ASSUME NEW info, TableInv(info), NEW where, NEW n, n = DeleteExecutor(info, where)
  PROVE  /\ n.schema = info.schema
         /\ Live(n) = Live(info) \ matching(info, where)
         /\ \A x \in Live(n) : tupleAt(n, x) = tupleAt(info, x)
<1>1. info = [schema |-> info.schema, rowCount |-> info.rowCount, hasIndex |-> info.hasIndex,
              heap |-> info.heap, index |-> info.index]
  BY DEF TableInv, TableInfo
<1> DEFINE R == matching(info, where)
           x == [k \in DOMAIN info.index \ removedKeys(info, R) |-> info.index[k]]
           c == restCount(info, Cardinality(R))
           h == [rid \in RID |-> IF rid \in R THEN NoTuple ELSE info.heap[rid]]
<1>2. n = [info EXCEPT !.heap = h, !.index = x, !.rowCount = c]
  BY DEF DeleteExecutor
<1>3. \A rid \in RID : h[rid] = IF rid \in R THEN NoTuple ELSE info.heap[rid]
  OBVIOUS
<1> HIDE DEF x, c, h, R
<1>4. n.schema = info.schema /\ n.heap = h
  BY <1>1, <1>2
<1>5. Live(n) = Live(info) \ R
  BY <1>3, <1>4 DEF Live
<1>6. \A y \in Live(n) : tupleAt(n, y) = tupleAt(info, y)
  <2>1. \A y \in Live(n) : y \in RID /\ y \notin R BY <1>5 DEF Live
  <2>2. QED BY <1>3, <1>4, <2>1 DEF tupleAt
<1>7. QED BY <1>4, <1>5, <1>6 DEF R

-------------------------------------------------------------------------------
(* Steps of the abstract specification *)

\* A table of the abstract specification.
Entry(info) == [schema |-> info.schema, rows |-> RowBag(info)]

\* The tables of the abstract specification.
tablesOf ==
  [t \in DOMAIN catalog |-> [schema |-> catalog[t].schema, rows |-> RowBag(catalog[t])]]

\* The answer, its rows taken as a bag.
outOf == [out EXCEPT !.rows = ToBag(@)]

\* An answer of the abstract specification.
said(kind, rows, count) == [kind |-> kind, rows |-> rows, count |-> count]

\* The bag without rows is the same on both sides.
LEMMA NoRows == Abs!EmptyBag = <<>> /\ ToBag(<<>>) = <<>>
<1>1. Abs!EmptyBag = <<>>
  BY DEF Abs!EmptyBag, Abs!SetToBag
<1>2. DOMAIN ToBag(<<>>) = {} /\ ToBag(<<>>) = [x \in DOMAIN ToBag(<<>>) |-> ToBag(<<>>)[x]]
  BY DEF ToBag, Range
<1>3. QED BY <1>1, <1>2

\* Answers of the engine, their rows taken as a bag, are answers of the abstract specification.
LEMMA Outs ==
  /\ \A kind, rows, count :
       [Answer(kind, rows, count) EXCEPT !.rows = ToBag(@)] = said(kind, ToBag(rows), count)
  /\ \A kind, count :
       [Answer(kind, <<>>, count) EXCEPT !.rows = ToBag(@)] = said(kind, <<>>, count)
  /\ \A kind, rows, count : Abs!Answer(kind, rows, count) = said(kind, rows, count)
  /\ \A kind, count : Abs!Answer(kind, Abs!EmptyBag, count) = said(kind, <<>>, count)
<1>1. \A kind, rows, count :
        [Answer(kind, rows, count) EXCEPT !.rows = ToBag(@)] = said(kind, ToBag(rows), count)
  BY DEF Answer, said
<1>2. \A kind, rows, count : Abs!Answer(kind, rows, count) = said(kind, rows, count)
  BY DEF Abs!Answer, said
<1>3. QED BY <1>1, <1>2, NoRows

\* When no statement waits, reading and parsing a line is an Ask.
LEMMA AbsAsk ==
  ASSUME stmt.type = "ERROR", outOf' = outOf \/ outOf' = said("none", <<>>, 0),
         tablesOf' = tablesOf
  PROVE  Abs!Next
<1>1. Abs!Ask
  BY Outs DEF Abs!Ask, tablesOf, outOf
<1>2. QED BY <1>1 DEF Abs!Next

\* While a statement executes, the abstract tables are those of the catalog.
LEMMA AbsKnown ==
  ASSUME mode = "execute"
  PROVE  /\ DOMAIN tablesOf = DOMAIN catalog
         /\ \A t \in DOMAIN catalog : tablesOf[t] = Entry(catalog[t])
         /\ Abs!Known <=> selectable
         /\ Known => Abs!Table = Entry(Info)
<1>1. tablesOf = [t \in DOMAIN catalog |-> Entry(catalog[t])]
  BY DEF tablesOf, Entry
<1>2. /\ DOMAIN tablesOf = DOMAIN catalog
      /\ \A t \in DOMAIN catalog : tablesOf[t] = Entry(catalog[t])
  BY <1>1
<1>3. Abs!Table = tablesOf[stmt.tableName]
  BY DEF Abs!Table, tablesOf
<1>4. Known => Abs!Table = Entry(Info)
  BY <1>2, <1>3 DEF Known, Info
<1>5. Abs!Known <=>
        /\ stmt.tableName \in DOMAIN tablesOf
        /\ stmt.where # Abs!NoWhere => Abs!findColumn(Abs!Table.schema, stmt.where[1]) # 0
        /\ \A i \in DOMAIN stmt.selectColumns :
             Abs!findColumn(Abs!Table.schema, stmt.selectColumns[i]) # 0
  BY DEF Abs!Known, tablesOf
<1>6. Known <=> stmt.tableName \in DOMAIN tablesOf
  BY <1>2 DEF Known
<1>7. Known => Abs!Table.schema = Info.schema
  BY <1>4 DEF Entry
<1>8. Abs!NoWhere = NoWhere
  BY DEF Abs!NoWhere, NoWhere
<1>9. Abs!Known <=> selectable
  BY <1>5, <1>6, <1>7, <1>8, SameColumn DEF selectable, deletable, hasColumns
<1>10. QED BY <1>2, <1>4, <1>9

\* An error that leaves the tables alone is a Refuse.
LEMMA AbsRefuse ==
  ASSUME mode = "execute" \/ stmt.type = "ERROR",
         \/ stmt.type = "ERROR"
         \/ stmt.type = "CREATE_TABLE" /\ Known
         \/ stmt.type \in {"INSERT", "SELECT", "DELETE_STMT"} /\ ~selectable
         \/ stmt.type = "INSERT" /\ selectable /\ ~convertible(stmt.values, Info.schema),
         outOf' = said("error", <<>>, 0), tablesOf' = tablesOf
  PROVE  Abs!Next
<1>1. outOf' = Abs!Answer("error", Abs!EmptyBag, 0)
  BY Outs
<1>2. ASSUME mode = "execute" 
      PROVE /\ Abs!Known <=> selectable
            /\ Known <=> stmt.tableName \in DOMAIN tablesOf
            /\ Known => (Abs!convertible(stmt.values, Abs!Table.schema)
                           <=> convertible(stmt.values, Info.schema))
  <2>1. Known => Abs!Table.schema = Info.schema BY <1>2, AbsKnown DEF Entry
  <2>2. QED BY <1>2, <2>1, AbsKnown, SameConvert DEF Known
<1>3. \/ stmt.type = "ERROR"
      \/ stmt.type = "CREATE_TABLE" /\ stmt.tableName \in DOMAIN tablesOf
      \/ stmt.type \in {"INSERT", "SELECT", "DELETE_STMT"} /\ ~Abs!Known
      \/ stmt.type = "INSERT" /\ Abs!Known /\ ~Abs!convertible(stmt.values, Abs!Table.schema)
  <2>1. selectable => Known BY DEF selectable, deletable
  <2>2. QED BY <1>2, <2>1
<1>4. Abs!Refuse
  BY <1>1, <1>3 DEF Abs!Refuse, tablesOf, outOf
<1>5. QED BY <1>4 DEF Abs!Next

\* A new table without rows is a Create.
LEMMA AbsCreate ==
  ASSUME mode = "execute", stmt.type = "CREATE_TABLE", ~Known,
         tablesOf' = [t \in DOMAIN catalog \cup {stmt.tableName} |->
                        IF t = stmt.tableName THEN [schema |-> stmt.columns, rows |-> <<>>]
                        ELSE Entry(catalog[t])],
         outOf' = said("created", <<>>, 0)
  PROVE  Abs!Next
<1>1. outOf' = Abs!Answer("created", Abs!EmptyBag, 0)
  BY Outs
<1>2. tablesOf' = [t \in DOMAIN tablesOf \cup {stmt.tableName} |->
                     IF t = stmt.tableName THEN [schema |-> stmt.columns, rows |-> Abs!EmptyBag]
                     ELSE tablesOf[t]]
  BY AbsKnown, NoRows
<1>3. stmt.tableName \notin DOMAIN tablesOf
  BY AbsKnown DEF Known
<1>4. Abs!Create
  BY <1>1, <1>2, <1>3 DEF Abs!Create, tablesOf, outOf
<1>5. QED BY <1>4 DEF Abs!Next

\* One table changes, and its schema does not.
LEMMA Replaced ==
  ASSUME mode = "execute", mode' = "read", Known, NEW n, n.schema = Info.schema,
         catalog' = [catalog EXCEPT ![stmt.tableName] = n]
  PROVE  tablesOf' = [tablesOf EXCEPT ![stmt.tableName].rows = RowBag(n)]
<1> DEFINE T == [t \in DOMAIN catalog |-> Entry(catalog[t])]
           nm == stmt.tableName
<1>1. tablesOf = T
  BY DEF tablesOf, Entry
<1>2. nm \in DOMAIN catalog
  BY DEF Known
<1>3. catalog' = [catalog EXCEPT ![nm] = n]
  OBVIOUS
<1>4. tablesOf' = [t \in DOMAIN catalog' |-> Entry(catalog'[t])]
  BY DEF tablesOf, Entry, RowBag, tupleAt, Live
<1> HIDE DEF nm
<1>5. /\ DOMAIN catalog' = DOMAIN catalog
      /\ \A t \in DOMAIN catalog : catalog'[t] = IF t = nm THEN n ELSE catalog[t]
  BY <1>2, <1>3
<1>6. Entry(n) = [Entry(catalog[nm]) EXCEPT !.rows = RowBag(n)]
  BY DEF Entry, Info, nm
<1>7. tablesOf' = [t \in DOMAIN catalog |-> IF t = nm THEN Entry(n) ELSE Entry(catalog[t])]
  BY <1>4, <1>5
<1>8. [T EXCEPT ![nm] = Entry(n)] = [T EXCEPT ![nm].rows = RowBag(n)]
  <2>1. T[nm] = Entry(catalog[nm]) BY <1>2
  <2> HIDE DEF T
  <2>2. QED BY <1>6, <2>1
<1>9. tablesOf' = [T EXCEPT ![nm] = Entry(n)]
  BY <1>2, <1>7
<1>10. QED BY <1>1, <1>8, <1>9 DEF nm

\* One row more is an Insert.
LEMMA AbsInsert ==
  ASSUME mode = "execute", stmt.type = "INSERT", selectable,
         convertible(stmt.values, Info.schema), NEW row, row = convert(stmt.values, Info.schema),
         tablesOf' = [tablesOf EXCEPT ![stmt.tableName].rows =
                        IF row = <<>> THEN RowBag(Info) ELSE More(RowBag(Info), row)],
         outOf' = said("inserted", <<>>, 1)
  PROVE  Abs!Next
<1>1. outOf' = Abs!Answer("inserted", Abs!EmptyBag, 1)
  BY Outs
<1>2. Known
  BY DEF selectable, deletable
<1>3. Abs!Known /\ Abs!Table = Entry(Info) /\ Abs!Table.schema = Info.schema
  BY <1>2, AbsKnown DEF Entry
<1>4. tablesOf[stmt.tableName].rows = RowBag(Info)
  BY <1>2, AbsKnown DEF Entry, Known, Info
<1>5. Abs!convert(stmt.values, Abs!Table.schema) = row
      /\ Abs!convertible(stmt.values, Abs!Table.schema)
  BY <1>3, SameConvert
<1>6. tablesOf' = [tablesOf EXCEPT ![stmt.tableName].rows =
                     IF Abs!convert(stmt.values, Abs!Table.schema) = <<>> THEN @
                     ELSE Abs!(+)(@, Abs!SetToBag({Abs!convert(stmt.values, Abs!Table.schema)}))]
  BY <1>4, <1>5 DEF More
<1>7. Abs!Insert
  BY <1>1, <1>3, <1>5, <1>6 DEF Abs!Insert, tablesOf, outOf
<1>8. QED BY <1>7 DEF Abs!Next

\* Both sides count alike.
LEMMA SameCardinality == \A S : Abs!Cardinality(S) = Cardinality(S)
BY DEF Abs!Cardinality, Cardinality

\* Rows taken away and counted are a Delete.
LEMMA AbsDelete ==
  ASSUME mode = "execute", stmt.type = "DELETE_STMT", selectable,
         tablesOf' = [tablesOf EXCEPT ![stmt.tableName].rows = Abs!Part(Entry(Info), FALSE)],
         outOf' = said("deleted", <<>>, Cardinality(Abs!Copies(Abs!Part(Entry(Info), TRUE))))
  PROVE  Abs!Next
<1> DEFINE k == Abs!Cardinality(Abs!Copies(Abs!Part(Abs!Table, TRUE)))
<1>1. Known
  BY DEF selectable, deletable
<1>2. Abs!Known /\ Abs!Table = Entry(Info)
  BY <1>1, AbsKnown
<1>3. outOf' = Abs!Answer("deleted", Abs!EmptyBag, k)
  BY <1>2, Outs, SameCardinality
<1>4. tablesOf' = [tablesOf EXCEPT ![stmt.tableName].rows = Abs!Part(Abs!Table, FALSE)]
  BY <1>2
<1>5. Abs!Delete
  BY <1>2, <1>3, <1>4 DEF Abs!Delete, tablesOf, outOf
<1>6. QED BY <1>5 DEF Abs!Next

\* What is shown of the copies of a bag.
shownBag(C, t) ==
  [v \in {Abs!Shown(t, c[1]) : c \in C} |-> Abs!Cardinality({c \in C : Abs!Shown(t, c[1]) = v})]

\* The chosen rows, shown and counted, are a Select.
LEMMA AbsSelect ==
  ASSUME mode = "execute", stmt.type = "SELECT", selectable,
         tablesOf' = tablesOf,
         NEW C, C = Abs!Copies(Abs!Part(Entry(Info), TRUE)),
         outOf' = said("rows", shownBag(C, Entry(Info)), Cardinality(C))
  PROVE  Abs!Next
<1>1. Known
  BY DEF selectable, deletable
<1>2. Abs!Known /\ Abs!Table = Entry(Info)
  BY <1>1, AbsKnown
<1>3. outOf' = Abs!Answer("rows", shownBag(C, Abs!Table), Abs!Cardinality(C))
  BY <1>2, Outs, SameCardinality
<1>4. C = Abs!Copies(Abs!Part(Abs!Table, TRUE))
  BY <1>2
<1>5. Abs!Select
  BY <1>2, <1>3, <1>4 DEF Abs!Select, tablesOf, outOf, shownBag
<1>6. QED BY <1>5 DEF Abs!Next

\* The rows that a statement chooses, or leaves, are those at some RIDs.
LEMMA ChosenRows ==
  ASSUME NEW info, NEW b \in BOOLEAN, NEW M,
         M = {rid \in Live(info) : predicate(info.schema, stmt.where, tupleAt(info, rid)) <=> b}
  PROVE  Abs!Part(Entry(info), b) = BagOf(M, rowOf(info))
<1> DEFINE L == Live(info)
           f == rowOf(info)
           B == BagOf(L, f)
           P(r) == predicate(info.schema, stmt.where, r)
           S == {r \in DOMAIN B : P(r) <=> b}
<1>1. Entry(info).schema = info.schema /\ Entry(info).rows = B
  BY RowBagIs DEF Entry
<1>2. \A r : Abs!Chosen(Entry(info), r) <=> P(r)
  BY <1>1, SamePredicate DEF Abs!Chosen
<1>3. Abs!Part(Entry(info), b) = [r \in S |-> B[r]]
  BY <1>1, <1>2 DEF Abs!Part
<1>4. \A rid \in L : f[rid] = tupleAt(info, rid) /\ f[rid] \in DOMAIN B
  BY DEF rowOf, BagOf
<1>5. M = {rid \in L : P(tupleAt(info, rid)) <=> b}
  OBVIOUS
<1>6. \A r : r \in S <=> r \in DOMAIN B /\ (P(r) <=> b)
  OBVIOUS
<1>7. S \subseteq DOMAIN B
  OBVIOUS
<1> HIDE DEF L, f, P, S
<1>8. M = {rid \in L : f[rid] \in S}
  BY <1>4, <1>5, <1>6
<1> HIDE DEF B
<1>9. [r \in S |-> BagOf(L, f)[r]] = BagOf({rid \in L : f[rid] \in S}, f)
  BY <1>7, BagPart DEF B
<1>10. QED BY <1>3, <1>8, <1>9 DEF B, f

\* The copies of the abstract specification.
LEMMA CopiesIs == \A B : Abs!Copies(B) = CopiesOf(B)
BY DEF Abs!Copies, CopiesOf

-------------------------------------------------------------------------------
(* What a SELECT prints *)

\* What is shown of a row.
shownRow(info, row) ==
  IF stmt.selectColumns = <<>> THEN row
  ELSE [i \in DOMAIN stmt.selectColumns |-> row[findColumn(info.schema, stmt.selectColumns[i])]]

\* It shows the columns that the engine prints.
LEMMA ShownIs ==
  ASSUME NEW info, NEW row
  PROVE  Abs!Shown(Entry(info), row) = shownRow(info, row)
<1>1. Entry(info).schema = info.schema
  BY DEF Entry
<1>2. QED BY <1>1, SameColumn DEF Abs!Shown, shownRow

\* A scan reads each of its RIDs once.
LEMMA ScanPairs ==
  ASSUME NEW info, NEW where
  PROVE  LET M == matching(info, where)
             rows == SeqScanExecutor(info, where).rows
         IN  /\ IsFiniteSet(M) /\ Numbers(M) /\ Cardinality(M) \in Nat
             /\ Len(rows) = Cardinality(M) /\ DOMAIN rows = 1 .. Cardinality(M)
             /\ rows = [i \in DOMAIN rows |-> rows[i]]
             /\ \E h : /\ Paired(h, 1 .. Cardinality(M), M)
                       /\ \A i \in 1 .. Cardinality(M) : rows[i] = tupleAt(info, h[i])
<1> DEFINE M == matching(info, where)
           n == Cardinality(M)
           h == ascending(M)
           r == [i \in DOMAIN h |-> tupleAt(info, h[i])]
<1>1. M \subseteq 1 .. MaxRids /\ MaxRids \in Nat
  BY EngineAssumption DEF matching, Live, RID
<1>2. SeqScanExecutor(info, where).rows = r
  BY DEF SeqScanExecutor, Result
<1> HIDE DEF M, n
<1>3. Ascending(h, M) /\ IsFiniteSet(M) /\ n \in Nat
  BY <1>1, AscendingExists, FiniteUpTo DEF n
<1>4. DOMAIN h = 1 .. n /\ \A i \in 1 .. n : h[i] \in M
  BY <1>3 DEF Ascending, n
<1>5. /\ \A i, j \in 1 .. n : i # j => h[i] # h[j]
      /\ \A x \in M : \E k \in 1 .. n : h[k] = x
  BY <1>1, <1>3, AscendingOnto, ZenonT(30) DEF n
<1> HIDE DEF h
<1>6. Paired(h, 1 .. n, M)
  BY <1>4, <1>5 DEF Paired
<1>7. r = [i \in 1 .. n |-> tupleAt(info, h[i])]
  BY <1>4
<1> HIDE DEF r
<1>8. Len(r) = n /\ DOMAIN r = 1 .. n /\ \A i \in 1 .. n : r[i] = tupleAt(info, h[i])
  BY <1>3, <1>7
<1>9. r = [i \in DOMAIN r |-> r[i]]
  BY <1>7
<1>10. Numbers(M)
  <2>1. \A x \in M : x \in Int BY <1>1
  <2>2. QED BY <1>3, <2>1 DEF Numbers
<1>11. \E hh : Paired(hh, 1 .. n, M) /\ \A i \in 1 .. n : r[i] = tupleAt(info, hh[i])
  BY <1>6, <1>8
<1>12. QED BY <1>2, <1>3, <1>8, <1>9, <1>10, <1>11 DEF M, n

\* As many copies of rows as RIDs.
LEMMA CopyCount ==
  ASSUME NEW M, Numbers(M), NEW f
  PROVE  Cardinality(CopiesOf(BagOf(M, f))) = Cardinality(M)
<1>1. IsFiniteSet(M)
  BY DEF Numbers
<1>2. PICK h : Paired(h, M, CopiesOf(BagOf(M, f)))
  BY CopiesPaired
<1>3. QED BY <1>1, <1>2, PairedCount

\* What a SELECT prints, as a bag.
LEMMA PrintedBag ==
  ASSUME NEW info, NEW M, M = matching(info, stmt.where),
         NEW rows, rows = SeqScanExecutor(info, stmt.where).rows,
         NEW C, C = CopiesOf(BagOf(M, rowOf(info)))
  PROVE  ToBag(printed(rows, info.schema, stmt.selectColumns)) = shownBag(C, Entry(info))
<1> DEFINE f == rowOf(info)
           n == Cardinality(M)
           p == printed(rows, info.schema, stmt.selectColumns)
           g == [x \in M |-> shownRow(info, f[x])]
           k == [c \in C |-> shownRow(info, c[1])]
<1>1. /\ IsFiniteSet(M) /\ Numbers(M) /\ n \in Nat /\ DOMAIN rows = 1 .. n
      /\ rows = [i \in DOMAIN rows |-> rows[i]]
      /\ \E h : Paired(h, 1 .. n, M) /\ \A i \in 1 .. n : rows[i] = tupleAt(info, h[i])
  BY ScanPairs
<1>2. PICK h : Paired(h, 1 .. n, M) /\ \A i \in 1 .. n : rows[i] = tupleAt(info, h[i])
  BY <1>1
<1>3. \A x \in M : f[x] = tupleAt(info, x)
  BY DEF matching, rowOf
<1>4. p = [i \in 1 .. n |-> shownRow(info, rows[i])]
  <2>1. rows = [i \in DOMAIN rows |-> rows[i]] /\ DOMAIN rows = 1 .. n BY <1>1
  <2>2. p = [i \in DOMAIN rows |-> shownRow(info, rows[i])] BY <2>1 DEF printed, shownRow
  <2> HIDE DEF p
  <2>3. QED BY <2>1, <2>2
<1>5. DOMAIN p = 1 .. n /\ \A i \in 1 .. n : p[i] = shownRow(info, rows[i])
  BY <1>4
<1>6. \A x \in M : g[x] = shownRow(info, f[x])
  OBVIOUS
<1>7. \A c \in C : k[c] = shownRow(info, c[1])
  OBVIOUS
<1> HIDE DEF p, g, k, f, n
<1>8. \A i \in 1 .. n : g[h[i]] = p[i]
  <2> TAKE i \in 1 .. n
  <2>1. h[i] \in M BY <1>2 DEF Paired
  <2>2. QED BY <1>2, <1>3, <1>5, <1>6, <2>1
<1>9. IsFiniteSet(1 .. n)
  BY <1>1, FS_Interval
<1>10. BagOf(1 .. n, p) = BagOf(M, g)
  <2> DEFINE I == 1 .. n
  <2>1. IsFiniteSet(I) /\ Paired(h, I, M) /\ \A x \in I : g[h[x]] = p[x] BY <1>2, <1>8, <1>9
  <2> HIDE DEF I
  <2>2. BagOf(I, p) = BagOf(M, g) BY ONLY <2>1, PairedBags
  <2>3. QED BY <2>2 DEF I
<1>11. PICK hh : Paired(hh, M, C) /\ \A x \in M : hh[x][1] = f[x]
  BY <1>1, CopiesPaired DEF f
<1>12. \A x \in M : k[hh[x]] = g[x]
  <2> TAKE x \in M
  <2>1. hh[x] \in C BY <1>11 DEF Paired
  <2>2. QED BY <1>6, <1>7, <1>11, <2>1
<1>13. BagOf(M, g) = BagOf(C, k)
  BY <1>1, <1>11, <1>12, PairedBags
<1>14. BagOf(C, k) = shownBag(C, Entry(info))
  <2> DEFINE s(c) == Abs!Shown(Entry(info), c[1])
  <2>1. \A c \in C : k[c] = s(c) BY <1>7, ShownIs
  <2>2. shownBag(C, Entry(info)) =
          [v \in {s(c) : c \in C} |-> Abs!Cardinality({c \in C : s(c) = v})]
    BY DEF shownBag
  <2> HIDE DEF s
  <2>3. {s(c) : c \in C} = {k[c] : c \in C} BY <2>1
  <2> DEFINE c1(v) == Abs!Cardinality({c \in C : s(c) = v})
             c2(v) == Cardinality({c \in C : k[c] = v})
  <2>4. ASSUME NEW v PROVE c1(v) = c2(v)
    <3>1. {c \in C : s(c) = v} = {c \in C : k[c] = v} BY <2>1
    <3>2. QED BY <3>1, SameCardinality
  <2>5. BagOf(C, k) = [v \in {k[c] : c \in C} |-> c2(v)] BY DEF BagOf
  <2>6. shownBag(C, Entry(info)) = [v \in {k[c] : c \in C} |-> c1(v)] BY <2>2, <2>3
  <2> HIDE DEF c1, c2
  <2>7. QED BY <2>4, <2>5, <2>6
<1>15. ToBag(p) = BagOf(1 .. n, p)
  BY <1>5, ListBag
<1>16. ToBag(p) = shownBag(C, Entry(info))
  BY <1>10, <1>13, <1>14, <1>15
<1>17. QED BY <1>16 DEF p

-------------------------------------------------------------------------------
(* The engine implements SqlTables *)

\* The optimizer keeps the kind of the statement.
LEMMA PlanTypes ==
  /\ plan.type = "INSERT_OP" => stmt.type = "INSERT"
  /\ plan.type = "DELETE_OP" => stmt.type = "DELETE_STMT"
  /\ plan.type \in {"SEQ_SCAN", "INDEX_SCAN", "PROJECTION"} => stmt.type = "SELECT"
BY DEF plan, optimize

\* What an answer of the engine is to the abstract specification.
LEMMA AnswerOut ==
  ASSUME NEW a, answer(a)
  PROVE  /\ mode' = "read"
         /\ \A kind, rows, count : a = Answer(kind, rows, count) =>
              outOf' = said(kind, ToBag(rows), count)
         /\ \A kind, count : a = Answer(kind, <<>>, count) => outOf' = said(kind, <<>>, count)
<1>1. mode' = "read" /\ out' = a
  BY DEF answer
<1>2. outOf' = [a EXCEPT !.rows = ToBag(@)]
  BY <1>1 DEF outOf
<1>3. QED BY <1>1, <1>2, Outs

\* And what an error is.
LEMMA ErrorOut ==
  ASSUME answer(Error)
  PROVE  mode' = "read" /\ outOf' = said("error", <<>>, 0)
BY AnswerOut DEF Error

\* The tables are as the catalog is.
LEMMA SameTables ==
  ASSUME catalog' = catalog
  PROVE  tablesOf' = tablesOf
BY DEF tablesOf, RowBag, Live, tupleAt

\* executeCreateTable is a Create or a Refuse.
LEMMA RefineCreate ==
  ASSUME EngineInv, mode = "execute", executeCreateTable
  PROVE  Abs!Next
<1>1. stmt.type = "CREATE_TABLE"
  BY DEF executeCreateTable
<1>2. CASE Known /\ answer(Error) /\ UNCHANGED catalog
  <2>1. mode' = "read" /\ outOf' = said("error", <<>>, 0) BY <1>2, ErrorOut
  <2>2. tablesOf' = tablesOf BY <1>2, <2>1, SameTables
  <2>3. QED BY <1>1, <1>2, <2>1, <2>2, AbsRefuse
<1>3. CASE /\ ~Known
           /\ catalog' = [t \in DOMAIN catalog \cup {stmt.tableName} |->
                            IF t = stmt.tableName THEN NewTable(stmt.columns) ELSE catalog[t]]
           /\ answer(Answer("created", <<>>, 0))
  <2>1. mode' = "read" /\ outOf' = said("created", <<>>, 0) BY <1>3, AnswerOut
  <2>2. tablesOf' = [t \in DOMAIN catalog' |-> Entry(catalog'[t])]
    BY <2>1 DEF tablesOf, Entry, RowBag, tupleAt, Live
  <2>3. Entry(NewTable(stmt.columns)) = [schema |-> stmt.columns, rows |-> <<>>]
    BY NewRows DEF Entry
  <2>4. tablesOf' = [t \in DOMAIN catalog \cup {stmt.tableName} |->
                       IF t = stmt.tableName THEN [schema |-> stmt.columns, rows |-> <<>>]
                       ELSE Entry(catalog[t])]
    BY <1>3, <2>2, <2>3
  <2>5. QED BY <1>1, <1>3, <2>1, <2>4, AbsCreate
<1>4. QED BY <1>2, <1>3 DEF executeCreateTable

\* executeInsert is an Insert or a Refuse: the row goes where the page manager puts it.
LEMMA RefineInsert ==
  ASSUME EngineInv, StmtFits, mode = "execute", executeInsert
  PROVE  Abs!Next
<1>1. stmt.type = "INSERT"
  BY PlanTypes DEF executeInsert
<1>2. selectable <=> Known
  BY <1>1 DEF StmtFits, Fits, selectable, deletable, hasColumns
<1>3. CASE ~insertable /\ answer(Error) /\ UNCHANGED <<catalog, nextTxnId, log>>
  <2>1. mode' = "read" /\ outOf' = said("error", <<>>, 0) BY <1>3, ErrorOut
  <2>2. tablesOf' = tablesOf BY <1>3, <2>1, SameTables
  <2>3. QED BY <1>1, <1>2, <1>3, <2>1, <2>2, AbsRefuse DEF insertable
<1>4. ASSUME insertable, NEW values, values = convert(stmt.values, Info.schema),
             Len(serializeTuple(values)) <= MaxCells,
             NEW rid \in RID \ Live(Info),
             catalog' = [catalog EXCEPT ![stmt.tableName] = inserted(values, rid)],
             answer(Answer("inserted", <<>>, 1))
      PROVE  Abs!Next
  <2> DEFINE n == inserted(values, rid)
  <2>1. mode' = "read" /\ outOf' = said("inserted", <<>>, 1) BY <1>4, AnswerOut
  <2>2. Known /\ TableInv(Info) /\ convertible(stmt.values, Info.schema)
    BY <1>4, TableOf DEF insertable
  <2>3. values \in Row(Info.schema)
    <3>1. Info.schema \in Seq(Column) BY <2>2 DEF TableInv, TableInfo
    <3>2. stmt.values \in Seq(Text) BY DEF EngineInv, StmtOK
    <3>3. Len(stmt.values) = Len(Info.schema) BY <2>2 DEF convertible
    <3>4. QED BY <1>4, <3>1, <3>2, <3>3, Converted
  <2>4. n = afterInsert(Info, values, rid)
    BY DEF inserted, afterInsert
  <2>5. catalog' = [catalog EXCEPT ![stmt.tableName] = n]
    BY <1>4
  <2> HIDE DEF n
  <2>6. /\ n.schema = Info.schema
        /\ RowBag(n) = IF values = <<>> THEN RowBag(Info) ELSE More(RowBag(Info), values)
    <3> DEFINE info == Info
    <3>1. /\ TableInv(info) /\ values \in Row(info.schema) /\ rid \in RID \ Live(info)
          /\ Len(serializeTuple(values)) <= MaxCells
          /\ n = afterInsert(info, values, rid)
      BY <1>4, <2>2, <2>3, <2>4
    <3> HIDE DEF info
    <3>2. /\ n.schema = info.schema
          /\ RowBag(n) = IF values = <<>> THEN RowBag(info) ELSE More(RowBag(info), values)
      BY ONLY <3>1, InsertedRows
    <3>3. QED BY <3>2 DEF info
  <2>7. tablesOf' = [tablesOf EXCEPT ![stmt.tableName].rows = RowBag(n)]
    BY <2>1, <2>2, <2>5, <2>6, Replaced
  <2>8. QED BY <1>1, <1>2, <1>4, <2>1, <2>2, <2>6, <2>7, AbsInsert
<1>5. QED BY <1>3, <1>4 DEF executeInsert

\* executeDelete is a Delete or a Refuse: RIDs are counted there and copies of rows here.
LEMMA RefineDelete ==
  ASSUME EngineInv, StmtFits, mode = "execute", executeDelete
  PROVE  Abs!Next
<1>1. stmt.type = "DELETE_STMT"
  BY PlanTypes DEF executeDelete
<1>2. selectable <=> deletable
  BY <1>1 DEF StmtFits, Fits, selectable, hasColumns
<1>3. CASE ~deletable /\ answer(Error) /\ UNCHANGED <<catalog, nextTxnId, log>>
  <2>1. mode' = "read" /\ outOf' = said("error", <<>>, 0) BY <1>3, ErrorOut
  <2>2. tablesOf' = tablesOf BY <1>3, <2>1, SameTables
  <2>3. QED BY <1>1, <1>2, <1>3, <2>1, <2>2, AbsRefuse
<1>4. CASE /\ deletable
           /\ catalog' = [catalog EXCEPT ![stmt.tableName] = DeleteExecutor(Info, stmt.where)]
           /\ answer(Answer("deleted", <<>>, Cardinality(matching(Info, stmt.where))))
  <2> DEFINE n == DeleteExecutor(Info, stmt.where)
             M == matching(Info, stmt.where)
             f == rowOf(Info)
  <2>1. mode' = "read" /\ outOf' = said("deleted", <<>>, Cardinality(M)) BY <1>4, AnswerOut
  <2>2. Known /\ TableInv(Info)
    BY <1>4, TableOf DEF deletable
  <2>3. /\ n.schema = Info.schema /\ Live(n) = Live(Info) \ M
        /\ \A x \in Live(n) : tupleAt(n, x) = tupleAt(Info, x)
    BY <2>2, DeletedRows
  <2>4. catalog' = [catalog EXCEPT ![stmt.tableName] = n]
    BY <1>4
  <2> HIDE DEF n
  <2>5. tablesOf' = [tablesOf EXCEPT ![stmt.tableName].rows = RowBag(n)]
    BY <2>1, <2>2, <2>3, <2>4, Replaced
  <2>6. RowBag(n) = Abs!Part(Entry(Info), FALSE)
    <3> DEFINE N == {rid \in Live(Info) :
                       predicate(Info.schema, stmt.where, tupleAt(Info, rid)) <=> FALSE}
    <3>1. Live(n) = N BY <2>3 DEF matching
    <3>2. Abs!Part(Entry(Info), FALSE) = BagOf(N, f) BY ChosenRows
    <3> HIDE DEF N
    <3>3. \A x \in Live(n) : rowOf(n)[x] = f[x] BY <2>3 DEF rowOf
    <3> HIDE DEF f
    <3>4. BagOf(Live(n), rowOf(n)) = BagOf(Live(n), f) BY <3>3, SameBag
    <3>5. QED BY <3>1, <3>2, <3>4, RowBagIs
  <2>7. Abs!Part(Entry(Info), TRUE) = BagOf(M, f)
    <3>1. M = {rid \in Live(Info) : predicate(Info.schema, stmt.where, tupleAt(Info, rid)) <=> TRUE}
      BY DEF matching
    <3> HIDE DEF M
    <3>2. QED BY <3>1, ChosenRows
  <2>8. Cardinality(Abs!Copies(Abs!Part(Entry(Info), TRUE))) = Cardinality(M)
    <3>1. Numbers(M) BY ScanPairs
    <3> HIDE DEF M, f
    <3>2. QED BY <2>7, <3>1, CopiesIs, CopyCount
  <2>9. QED BY <1>1, <1>2, <1>4, <2>1, <2>5, <2>6, <2>8, AbsDelete
<1>5. QED BY <1>3, <1>4 DEF executeDelete

\* executeSelect is a Select or a Refuse: the plan decides the order of the rows only.
LEMMA RefineSelect ==
  ASSUME EngineInv, mode = "execute", executeSelect
  PROVE  Abs!Next
<1>1. stmt.type = "SELECT" /\ catalog' = catalog
  BY PlanTypes DEF executeSelect
<1>2. CASE ~selectable /\ answer(Error)
  <2>1. mode' = "read" /\ outOf' = said("error", <<>>, 0) BY <1>2, ErrorOut
  <2>2. tablesOf' = tablesOf BY <1>1, <2>1, SameTables
  <2>3. QED BY <1>1, <1>2, <2>1, <2>2, AbsRefuse
<1>3. ASSUME selectable, NEW rows, rows = SeqScanExecutor(Info, stmt.where).rows,
             answer(Answer("rows", printed(rows, Info.schema, stmt.selectColumns), Len(rows)))
      PROVE  Abs!Next
  <2> DEFINE M == matching(Info, stmt.where)
             f == rowOf(Info)
             C == CopiesOf(BagOf(M, f))
             p == printed(rows, Info.schema, stmt.selectColumns)
  <2>1. mode' = "read" /\ outOf' = said("rows", ToBag(p), Len(rows)) BY <1>3, AnswerOut
  <2>2. tablesOf' = tablesOf BY <1>1, <2>1, SameTables
  <2>3. Len(rows) = Cardinality(M) /\ Numbers(M) BY <1>3, ScanPairs
  <2>4. ToBag(p) = shownBag(C, Entry(Info)) BY <1>3, PrintedBag
  <2>5. Abs!Part(Entry(Info), TRUE) = BagOf(M, f)
    <3>1. M = {rid \in Live(Info) : predicate(Info.schema, stmt.where, tupleAt(Info, rid)) <=> TRUE}
      BY DEF matching
    <3> HIDE DEF M
    <3>2. QED BY <3>1, ChosenRows
  <2>6. C = Abs!Copies(Abs!Part(Entry(Info), TRUE)) BY <2>5, CopiesIs
  <2>7. Cardinality(C) = Cardinality(M)
    <3> HIDE DEF M, f
    <3>1. QED BY <2>3, CopyCount
  <2> HIDE DEF M, f, C, p
  <2>8. outOf' = said("rows", shownBag(C, Entry(Info)), Cardinality(C)) BY <2>1, <2>3, <2>4, <2>7
  <2>9. QED BY <1>1, <1>3, <2>2, <2>6, <2>8, AbsSelect
<1>4. QED BY <1>2, <1>3 DEF executeSelect

\* The engine starts without tables.
LEMMA RefineInit == Init => Abs!Init
<1> SUFFICES ASSUME Init PROVE Abs!Init OBVIOUS
<1>1. mode = "read" /\ catalog = <<>> /\ out = Silence
  BY DEF Init
<1>2. outOf = said("none", <<>>, 0)
  BY <1>1, Outs DEF outOf, Silence
<1>3. tablesOf = <<>>
  BY <1>1 DEF tablesOf
<1>4. QED BY <1>2, <1>3, Outs DEF Abs!Init, tablesOf, outOf

\* Each step of a running process is one of the abstract specification or none.
LEMMA RefineNext ==
  ASSUME EngineInv, StmtFits, [Next]_vars, mode # "gone"
  PROVE  [Abs!Next]_(Abs!vars)
<1>0. ParseError.type = "ERROR"
  BY DEF ParseError, Statement
<1>1. ASSUME NEW l \in Lines, readLine(l) PROVE Abs!Next
  <2>1. mode = "read" /\ mode' = "parse" /\ out' = Silence /\ catalog' = catalog
    BY <1>1 DEF readLine
  <2>2. stmt.type = "ERROR" BY <1>0, <2>1 DEF StmtFits
  <2>3. outOf' = said("none", <<>>, 0) BY <2>1, Outs DEF outOf, Silence
  <2>4. tablesOf' = tablesOf BY <2>1, SameTables
  <2>5. QED BY <2>2, <2>3, <2>4, AbsAsk
<1>2. CASE typo
  <2>1. mode = "parse" /\ UNCHANGED <<stmt, catalog, mode, out>> BY <1>2 DEF typo
  <2>2. UNCHANGED Abs!vars BY <2>1 DEF Abs!vars, RowBag, Live, tupleAt
  <2>3. QED BY <2>2
<1>3. CASE parseLine
  <2> DEFINE s == parse(handleInput(line))
  <2>1. /\ mode = "parse" /\ mode' = IF s = ParseError THEN "read" ELSE "execute"
        /\ out' = IF s = ParseError THEN Error ELSE out
        /\ catalog' = catalog
    BY <1>3 DEF parseLine
  <2> HIDE DEF s
  <2>2. stmt.type = "ERROR" BY <1>0, <2>1 DEF StmtFits
  <2>3. tablesOf' = tablesOf BY <2>1, SameTables
  <2>4. CASE s = ParseError
    <3>1. outOf' = said("error", <<>>, 0) BY <2>1, <2>4, Outs DEF outOf, Error
    <3>2. QED BY <2>2, <2>3, <3>1, AbsRefuse
  <2>5. CASE s # ParseError
    <3>1. outOf' = outOf BY <2>1, <2>5 DEF outOf
    <3>2. QED BY <2>2, <2>3, <3>1, AbsAsk
  <2>6. QED BY <2>4, <2>5
<1>4. CASE execute
  <2>1. CASE executeInsertDies
    <3>1. UNCHANGED <<stmt, catalog, out>> BY <2>1 DEF executeInsertDies
    <3>2. UNCHANGED Abs!vars BY <3>1 DEF Abs!vars, RowBag, Live, tupleAt
    <3>3. QED BY <3>2
  <2>2. mode = "execute" BY <1>4 DEF execute
  <2>3. QED BY <1>4, <2>1, <2>2, RefineCreate, RefineInsert, RefineSelect, RefineDelete DEF execute
<1>5. CASE exit
  <2>1. UNCHANGED <<stmt, catalog, out>> BY <1>5 DEF exit
  <2>2. UNCHANGED Abs!vars BY <2>1 DEF Abs!vars, RowBag, Live, tupleAt
  <2>3. QED BY <2>2
<1>6. CASE UNCHANGED vars
  <2>1. UNCHANGED <<stmt, catalog, out>> BY <1>6 DEF vars
  <2>2. UNCHANGED Abs!vars BY <2>1 DEF Abs!vars, RowBag, Live, tupleAt
  <2>3. QED BY <2>2
<1>7. ~restart
  BY DEF restart
<1>8. QED BY <1>1, <1>2, <1>3, <1>4, <1>5, <1>6, <1>7 DEF Next

\* For every line that can be typed, every number of tables and RIDs and every order in which
\* the page manager gives RIDs out, the lexer, the parser, the optimizer and the executors behind
\* main.cpp answer as if each table were a bag of rows: an INSERT adds one, a DELETE takes and
\* counts those chosen, a SELECT shows them as often as they were inserted, a refused statement
\* changes nothing.  This is said of each process while it runs, and of nothing behind its end.
THEOREM EngineRefinement ==
  Spec => ImplementsSqlTables
<1>1. Init => Abs!Init
  BY RefineInit
<1>2. EngineInv /\ StmtFits /\ [Next]_vars => [mode # "gone" => Abs!Next]_(Abs!vars)
  BY RefineNext
<1>3. QED
  BY <1>1, <1>2, EngineCorrect, StmtFitsAlways, PTL DEF Spec, ImplementsSqlTables

-------------------------------------------------------------------------------
(* Joins *)

\* Numbers that never fall from one place to the next fall nowhere.
LEMMA NeverFalls ==
  ASSUME NEW n \in Nat, NEW e, \A i \in 0 .. n : e[i] \in Nat, \A i \in 1 .. n : e[i - 1] <= e[i],
         NEW i \in 0 .. n, NEW j \in 0 .. n, i <= j
  PROVE  e[i] <= e[j]
<1> DEFINE M == {m \in Nat : i + m <= n => e[i] <= e[i + m]}
<1>1. 0 \in M
  <2>1. i + 0 = i /\ e[i] \in Nat OBVIOUS
  <2>2. e[i] <= e[i + 0] BY <2>1
  <2>3. QED BY <2>2
<1>2. ASSUME NEW m \in Nat, m \in M PROVE m + 1 \in M
  <2> SUFFICES ASSUME i + (m + 1) <= n PROVE e[i] <= e[i + (m + 1)]
    OBVIOUS
  <2> DEFINE k == i + (m + 1)
  <2>1. k \in 1 .. n /\ k \in 0 .. n /\ k - 1 \in 0 .. n /\ k - 1 = i + m /\ i + m <= n
    OBVIOUS
  <2>2. e[i] <= e[i + m] BY <1>2, <2>1
  <2> HIDE DEF k
  <2>3. e[k - 1] <= e[k] /\ e[k] \in Nat /\ e[k - 1] \in Nat /\ e[i] \in Nat BY <2>1
  <2>4. e[i] <= e[k - 1] BY <2>1, <2>2
  <2>5. e[i] <= e[k] BY <2>3, <2>4
  <2>6. QED BY <2>5 DEF k
<1>3. Nat \subseteq M
  <2> HIDE DEF M
  <2>1. QED BY <1>1, <1>2, SetInduction
<1>4. j - i \in Nat /\ i + (j - i) = j /\ i + (j - i) <= n
  OBVIOUS
<1>5. e[i] <= e[i + (j - i)]
  BY <1>3, <1>4
<1>6. QED BY <1>4, <1>5

\* The places of the elements of seqs: which sequence, and where in it.
Places(seqs) == {p \in (1 .. Len(seqs)) \X Nat : p[2] \in 1 .. Len(seqs[p[1]])}

\* FlattenSeq has the element of every place once.
LEMMA FlattenBag ==
  ASSUME NEW S, NEW seqs \in Seq(Seq(S)), NEW g,
         \A p \in Places(seqs) : g[p] = seqs[p[1]][p[2]]
  PROVE  IsFiniteSet(Places(seqs)) /\ ToBag(FlattenSeq(seqs)) = BagOf(Places(seqs), g)
<1> DEFINE n == Len(seqs)
           P == Places(seqs)
<1>1. PICK F : Parts(S, seqs, F) /\ FlattenSeq(seqs) = F[Len(seqs)]
  BY FlattenParts
<1> DEFINE w == F[n]
           N == Len(w)
           e == [i \in 0 .. n |-> Len(F[i])]
           len == [i \in 1 .. n |-> Len(seqs[i])]
           h == [p \in P |-> e[p[1] - 1] + p[2]]
<1>2. n \in Nat
  OBVIOUS
<1>3. \A i \in 0 .. n : e[i] \in Nat
  <2>1. \A s \in Seq(S) : Len(s) \in Nat OBVIOUS
  <2>2. \A i \in 0 .. n : F[i] \in Seq(S) BY <1>1 DEF Parts
  <2>3. \A i \in 0 .. n : e[i] = Len(F[i]) OBVIOUS
  <2>4. QED BY <2>1, <2>2, <2>3
<1>4. \A i \in 1 .. n : len[i] \in Nat
  <2>1. \A s \in Seq(S) : Len(s) \in Nat OBVIOUS
  <2>2. \A i \in 1 .. n : seqs[i] \in Seq(S) BY ElementOfSeq
  <2>3. \A i \in 1 .. n : len[i] = Len(seqs[i]) OBVIOUS
  <2>4. QED BY <2>1, <2>2, <2>3
<1>5. e[0] = 0
  <2>1. F[0] = <<>> BY <1>1 DEF Parts
  <2>2. 0 \in 0 .. n BY <1>2
  <2>3. QED BY <2>1, <2>2
<1>6. ASSUME NEW i \in 1 .. n
      PROVE  e[i] = e[i - 1] + len[i] /\ \A k \in 1 .. len[i] : w[e[i - 1] + k] = seqs[i][k]
  <2>1. PartIn(seqs, F, i) BY <1>1, PartAt
  <2>2. i \in 0 .. n /\ i - 1 \in 0 .. n BY <1>2
  <2>3. e[i] = Len(F[i]) /\ e[i - 1] = Len(F[i - 1]) /\ len[i] = Len(seqs[i]) BY <2>2
  <2>4. /\ Len(F[i]) = Len(F[i - 1]) + Len(seqs[i])
        /\ \A k \in 1 .. Len(seqs[i]) : F[n][Len(F[i - 1]) + k] = seqs[i][k]
    BY <2>1 DEF PartIn
  <2> HIDE DEF e, len
  <2>5. QED BY <2>3, <2>4
<1>7. e[n] = N
  BY <1>2
<1>8. w \in Seq(S) /\ DOMAIN w = 1 .. N
  <2>1. n \in 0 .. n BY <1>2
  <2>2. w \in Seq(S) BY <1>1, <2>1 DEF Parts
  <2> HIDE DEF w
  <2>3. QED BY <2>2
<1>9. \A i, k : <<i, k>> \in P <=> i \in 1 .. n /\ k \in 1 .. len[i]
  <2>1. \A i, k : <<i, k>> \in P <=> i \in 1 .. n /\ k \in Nat /\ k \in 1 .. Len(seqs[i])
    BY DEF Places
  <2>2. \A i \in 1 .. n : len[i] = Len(seqs[i]) OBVIOUS
  <2> HIDE DEF P, len
  <2>3. \A i \in 1 .. n : \A k \in 1 .. len[i] : k \in Nat
    <3> TAKE i \in 1 .. n
    <3>1. len[i] \in Nat BY <1>4
    <3>2. QED BY <3>1
  <2>4. QED BY ONLY <2>1, <2>2, <2>3
<1>10. \A p \in P : p = <<p[1], p[2]>>
  BY DEF Places
<1>11. \A p \in P : h[p] = e[p[1] - 1] + p[2]
  OBVIOUS
<1>12. \A p \in P : g[p] = seqs[p[1]][p[2]]
  OBVIOUS
<1> HIDE DEF e, len, h, P, w, N
<1>13. \A i \in 1 .. n : e[i - 1] <= e[i]
  <2> TAKE i \in 1 .. n
  <2>1. i - 1 \in 0 .. n BY <1>2
  <2>2. e[i - 1] \in Nat /\ len[i] \in Nat /\ e[i] = e[i - 1] + len[i] BY <1>3, <1>4, <1>6, <2>1
  <2>3. QED BY <2>2
<1> HIDE DEF n
<1>14. \A i, j \in 0 .. n : i <= j => e[i] <= e[j]
  BY <1>2, <1>3, <1>13, NeverFalls
<1>15. ASSUME NEW p \in P
       PROVE  /\ p[1] \in 1 .. n /\ p[1] \in 0 .. n /\ p[1] - 1 \in 0 .. n
              /\ p[2] \in 1 .. len[p[1]]
              /\ h[p] \in Nat /\ e[p[1] - 1] < h[p] /\ h[p] <= e[p[1]]
              /\ h[p] \in 1 .. N /\ w[h[p]] = g[p]
  <2> DEFINE i == p[1]
             k == p[2]
  <2>1. i \in 1 .. n /\ k \in 1 .. len[i] BY <1>9, <1>10
  <2>2. h[p] = e[i - 1] + k /\ g[p] = seqs[i][k] BY <1>11, <1>12
  <2> HIDE DEF i, k
  <2>3. i \in 0 .. n /\ i - 1 \in 0 .. n /\ n \in 0 .. n /\ i <= n BY <1>2, <2>1
  <2>4. e[i] = e[i - 1] + len[i] /\ w[e[i - 1] + k] = seqs[i][k] BY <1>6, <2>1
  <2>5. e[i - 1] \in Nat /\ len[i] \in Nat /\ e[i] \in Nat /\ e[n] \in Nat /\ e[i] <= e[n]
    BY <1>3, <1>4, <1>14, <2>1, <2>3
  <2>6. k \in Nat /\ 1 <= k /\ k <= len[i] BY <2>1, <2>5
  <2>7. h[p] \in Nat /\ e[i - 1] < h[p] /\ h[p] <= e[i] /\ h[p] \in 1 .. e[n]
    BY <2>2, <2>4, <2>5, <2>6, SMTT(30)
  <2>8. QED BY <1>7, <2>1, <2>2, <2>3, <2>4, <2>7 DEF i, k
<1>16. ASSUME NEW p \in P, NEW q \in P, h[p] = h[q] PROVE p = q
  <2> DEFINE i == p[1]
             j == q[1]
  <2>1. /\ i \in 0 .. n /\ j \in 0 .. n /\ i - 1 \in 0 .. n /\ j - 1 \in 0 .. n
        /\ h[p] \in Nat /\ e[i - 1] < h[p] /\ h[p] <= e[i] /\ e[j - 1] < h[p] /\ h[p] <= e[j]
    BY <1>15, <1>16
  <2> HIDE DEF i, j
  <2>2. ~(i < j)
    <3> SUFFICES ASSUME i < j PROVE FALSE OBVIOUS
    <3>1. i <= j - 1 BY <1>2, <2>1
    <3>2. e[i] <= e[j - 1] BY <1>14, <2>1, <3>1
    <3>3. e[i] \in Nat /\ e[j - 1] \in Nat BY <1>3, <2>1
    <3>4. QED BY <2>1, <3>2, <3>3
  <2>3. ~(j < i)
    <3> SUFFICES ASSUME j < i PROVE FALSE OBVIOUS
    <3>1. j <= i - 1 BY <1>2, <2>1
    <3>2. e[j] <= e[i - 1] BY <1>14, <2>1, <3>1
    <3>3. e[j] \in Nat /\ e[i - 1] \in Nat BY <1>3, <2>1
    <3>4. QED BY <2>1, <3>2, <3>3
  <2>4. i = j BY <1>2, <2>1, <2>2, <2>3
  <2>5. h[p] = e[i - 1] + p[2] /\ h[q] = e[i - 1] + q[2] BY <1>11, <2>4 DEF i, j
  <2>6. p[2] \in Nat /\ q[2] \in Nat /\ e[i - 1] \in Nat
    <3>1. len[p[1]] \in Nat /\ len[q[1]] \in Nat BY <1>4, <1>15
    <3>2. p[2] \in 1 .. len[p[1]] /\ q[2] \in 1 .. len[q[1]] BY <1>15
    <3>3. QED BY <1>3, <2>1, <3>1, <3>2, SMTT(30)
  <2>7. p[2] = q[2]
    <3>1. \A a, b, c \in Nat : a + b = a + c => b = c OBVIOUS
    <3>2. QED BY <1>16, <2>5, <2>6, <3>1
  <2>8. QED BY <1>10, <2>4, <2>7 DEF i, j
<1>17. ASSUME NEW x \in 1 .. N PROVE \E p \in P : h[p] = x
  <2> DEFINE T == {i \in 0 .. n : x <= e[i]}
             i == Min(T)
  <2>1. T \subseteq Nat /\ n \in T
    <3>1. n \in 0 .. n /\ e[n] \in Nat BY <1>2, <1>3
    <3>2. x <= e[n] /\ x \in Nat BY <1>7, <3>1
    <3>3. QED BY <1>2, <3>1, <3>2
  <2>2. \A y : y \in T <=> y \in 0 .. n /\ x <= e[y]
    OBVIOUS
  <2> HIDE DEF T
  <2>3. i \in T /\ \A y \in T : i <= y
    BY <2>1, MinExists
  <2> HIDE DEF i
  <2>4. i \in 0 .. n /\ x <= e[i] /\ x \in Nat /\ x >= 1
    <3>1. N \in Nat BY <1>7, <1>2, <1>3
    <3>2. QED BY <2>2, <2>3, <3>1
  <2>5. i # 0 BY <1>5, <2>4
  <2>6. i \in 1 .. n /\ i - 1 \in 0 .. n /\ ~(i <= i - 1) BY <1>2, <2>4, <2>5
  <2>7. ~(x <= e[i - 1]) BY <2>2, <2>3, <2>6
  <2>8. e[i] = e[i - 1] + len[i] /\ e[i] \in Nat /\ e[i - 1] \in Nat /\ len[i] \in Nat
    BY <1>3, <1>4, <1>6, <2>4, <2>6
  <2> DEFINE k == x - e[i - 1]
  <2>9. k \in 1 .. len[i] /\ e[i - 1] + k = x BY <2>4, <2>7, <2>8
  <2> HIDE DEF k
  <2> DEFINE p == <<i, k>>
  <2>10. p \in P /\ p[1] = i /\ p[2] = k BY <1>9, <2>6, <2>9
  <2> HIDE DEF p
  <2>11. h[p] = x BY <1>11, <2>9, <2>10
  <2>12. QED BY <2>10, <2>11
<1> DEFINE D == 1 .. N
<1>18. IsFiniteSet(D)
  <2>1. N \in Nat BY <1>7, <1>2, <1>3
  <2>2. QED BY <2>1, FS_Interval
<1>19. Paired(h, P, D)
  BY <1>15, <1>16, <1>17 DEF Paired
<1>20. \A p \in P : h[p] \in D /\ w[h[p]] = g[p]
  BY <1>15
<1> HIDE DEF D
<1>21. IsFiniteSet(P)
  <2> DEFINE f == [p \in P |-> h[p]]
  <2>1. f \in [P -> D] BY <1>20
  <2>2. f \in Injection(P, D) BY <2>1, <1>16 DEF Injection, IsInjective
  <2> HIDE DEF f
  <2>3. QED BY <1>18, <2>2, FS_Injection
<1>22. BagOf(P, g) = BagOf(D, w)
  BY <1>19, <1>20, <1>21, PairedBags
<1>23. ToBag(w) = BagOf(D, w)
  BY <1>8, ListBag DEF D
<1>24. FlattenSeq(seqs) = w
  BY <1>1 DEF w, n
<1>25. QED BY <1>21, <1>22, <1>23, <1>24 DEF P

\* What a scan without a WHERE clause reads: every tuple, each once.
LEMMA WholeScan ==
  ASSUME NEW info, TableInv(info), NEW rows, rows = SeqScanExecutor(info, NoWhere).rows
  PROVE  \E n \in Nat : \E h :
           /\ DOMAIN rows = 1 .. n /\ Len(rows) = n /\ Paired(h, 1 .. n, Live(info))
           /\ \A i \in 1 .. n : rows[i] = tupleAt(info, h[i]) /\ rows[i] \in Seq(Val)
<1> DEFINE M == matching(info, NoWhere)
           n == Cardinality(M)
<1>1. M = Live(info)
  BY DEF matching, predicate
<1>2. ASSUME NEW where, NEW L, L = matching(info, where),
             NEW R, R = SeqScanExecutor(info, where).rows
      PROVE  /\ Cardinality(L) \in Nat /\ Len(R) = Cardinality(L) /\ DOMAIN R = 1 .. Cardinality(L)
             /\ \E h : /\ Paired(h, 1 .. Cardinality(L), L)
                      /\ \A i \in 1 .. Cardinality(L) : R[i] = tupleAt(info, h[i])
  <2>1. /\ IsFiniteSet(L) /\ Numbers(L) /\ Cardinality(L) \in Nat
        /\ Len(R) = Cardinality(L) /\ DOMAIN R = 1 .. Cardinality(L)
        /\ R = [i \in DOMAIN R |-> R[i]]
        /\ \E h : /\ Paired(h, 1 .. Cardinality(L), L)
                 /\ \A i \in 1 .. Cardinality(L) : R[i] = tupleAt(info, h[i])
    BY <1>2, ScanPairs
  <2>2. QED BY <2>1
<1>3. PICK h : /\ n \in Nat /\ Len(rows) = n /\ DOMAIN rows = 1 .. n
               /\ Paired(h, 1 .. n, M) /\ \A i \in 1 .. n : rows[i] = tupleAt(info, h[i])
  BY <1>2
<1> HIDE DEF M, n
<1>4. \A x \in M : tupleAt(info, x) \in Seq(Val)
  BY <1>1 DEF TableInv, RowsOK, Row
<1>5. \A i \in 1 .. n : rows[i] \in Seq(Val)
  BY <1>3, <1>4 DEF Paired
<1>6. QED BY <1>1, <1>3, <1>5

\* The positions that partners keeps, each once.
LEMMA PartnersAt ==
  ASSUME NEW m \in Nat, NEW rows, DOMAIN rows = 1 .. m, NEW value, NEW r,
         NEW K, K = {i \in 1 .. m : rows[i][r] = value},
         NEW s, s = ascending(K), NEW n, n = Cardinality(K)
  PROVE  /\ n \in Nat /\ partners(rows, value, r) = [i \in 1 .. n |-> rows[s[i]]]
         /\ Paired(s, 1 .. n, K)
<1>1. K \subseteq 1 .. m
  OBVIOUS
<1>2. K = {i \in DOMAIN rows : rows[i][r] = value}
  OBVIOUS
<1>3. partners(rows, value, r) = [i \in DOMAIN s |-> rows[s[i]]]
  BY <1>2 DEF partners, rowsAt
<1>4. Ascending(s, K) /\ n \in Nat
  BY <1>1, AscendingExists, FiniteUpTo
<1>5. DOMAIN s = 1 .. n /\ \A i \in 1 .. n : s[i] \in K
  BY <1>4 DEF Ascending
<1>6. /\ \A i, j \in 1 .. n : i # j => s[i] # s[j]
      /\ \A x \in K : \E k \in 1 .. n : s[k] = x
  <2>1. /\ \A i, j \in 1 .. Cardinality(K) : i # j => s[i] # s[j]
        /\ \A x \in K : \E k \in 1 .. Cardinality(K) : s[k] = x
    BY ONLY m \in Nat, <1>1, <1>4, AscendingOnto, ZenonT(30)
  <2>2. QED BY <2>1
<1>7. Paired(s, 1 .. n, K)
  BY <1>5, <1>6 DEF Paired
<1>8. QED BY <1>3, <1>4, <1>5, <1>7

\* The row of such a pair.
joinedAt(left, right, l, r) ==
  [p \in agreeing(left, right, l, r) |-> tupleAt(left, p[1]) \o tupleAt(right, p[2])]

\* For each row of the left side in turn, the rows of the right side that agree.
turns(a, b, l, r) ==
  [i \in DOMAIN a |-> [j \in DOMAIN partners(b, a[i][l], r) |-> a[i] \o partners(b, a[i][l], r)[j]]]

\* NestedLoopJoinExecutor has each agreeing pair once.
LEMMA JoinedBag ==
  ASSUME NEW left, NEW right, TableInv(left), TableInv(right), NEW l, NEW r,
         NEW a, a = SeqScanExecutor(left, NoWhere).rows,
         NEW b, b = SeqScanExecutor(right, NoWhere).rows
  PROVE  ToBag(FlattenSeq(turns(a, b, l, r))) =
           BagOf(agreeing(left, right, l, r), joinedAt(left, right, l, r))
<1>1a. PICK n \in Nat : \E h :
        /\ DOMAIN a = 1 .. n /\ Len(a) = n /\ Paired(h, 1 .. n, Live(left))
        /\ \A i \in 1 .. n : a[i] = tupleAt(left, h[i]) /\ a[i] \in Seq(Val)
  BY WholeScan
<1>1. PICK h :
        /\ DOMAIN a = 1 .. n /\ Len(a) = n /\ Paired(h, 1 .. n, Live(left))
        /\ \A i \in 1 .. n : a[i] = tupleAt(left, h[i]) /\ a[i] \in Seq(Val)
  BY <1>1a
<1>2a. PICK m \in Nat : \E k :
        /\ DOMAIN b = 1 .. m /\ Len(b) = m /\ Paired(k, 1 .. m, Live(right))
        /\ \A i \in 1 .. m : b[i] = tupleAt(right, k[i]) /\ b[i] \in Seq(Val)
  BY WholeScan
<1>2. PICK k :
        /\ DOMAIN b = 1 .. m /\ Len(b) = m /\ Paired(k, 1 .. m, Live(right))
        /\ \A i \in 1 .. m : b[i] = tupleAt(right, k[i]) /\ b[i] \in Seq(Val)
  BY <1>2a
<1> DEFINE K(i) == {j \in 1 .. m : b[j][r] = a[i][l]}
           s(i) == ascending(K(i))
           c(i) == Cardinality(K(i))
           T == turns(a, b, l, r)
           P == Places(T)
           A == agreeing(left, right, l, r)
           f == joinedAt(left, right, l, r)
           g == [p \in P |-> T[p[1]][p[2]]]
           q == [p \in P |-> <<h[p[1]], k[s(p[1])[p[2]]]>>]
<1>3. ASSUME NEW i \in 1 .. n
      PROVE  /\ c(i) \in Nat /\ Paired(s(i), 1 .. c(i), K(i))
             /\ partners(b, a[i][l], r) = [j \in 1 .. c(i) |-> b[s(i)[j]]]
  <2> DEFINE v == a[i][l]
  <2>1. K(i) = {j \in 1 .. m : b[j][r] = v} OBVIOUS
  <2>2. DOMAIN b = 1 .. m BY <1>2
  <2> DEFINE J == K(i)
             x == s(i)
             N == c(i)
  <2>3. J = {j \in 1 .. m : b[j][r] = v} /\ x = ascending(J) /\ N = Cardinality(J) BY <2>1
  <2> HIDE DEF v, J, x, N
  <2>4. N \in Nat /\ partners(b, v, r) = [j \in 1 .. N |-> b[x[j]]] /\ Paired(x, 1 .. N, J)
    BY ONLY m \in Nat, <2>2, <2>3, PartnersAt
  <2>5. QED BY <2>4 DEF v, J, x, N
<1>4. \A i : \A j : j \in K(i) <=> j \in 1 .. m /\ b[j][r] = a[i][l]
  OBVIOUS
<1> HIDE DEF K
<1>5. ASSUME NEW i \in 1 .. n
      PROVE  /\ T[i] = [j \in 1 .. c(i) |-> a[i] \o b[s(i)[j]]]
             /\ \A j \in 1 .. c(i) : s(i)[j] \in K(i)
  <2> DEFINE p == partners(b, a[i][l], r)
  <2>1. T[i] = [j \in DOMAIN p |-> a[i] \o p[j]] BY <1>1 DEF turns
  <2>2. p = [j \in 1 .. c(i) |-> b[s(i)[j]]] BY <1>3
  <2> HIDE DEF p
  <2>3. DOMAIN p = 1 .. c(i) /\ \A j \in 1 .. c(i) : p[j] = b[s(i)[j]] BY <2>2
  <2>4. T[i] = [j \in 1 .. c(i) |-> a[i] \o b[s(i)[j]]] BY <2>1, <2>3
  <2>5. QED BY <1>3, <2>4 DEF Paired
<1>6. DOMAIN T = 1 .. n /\ T = [i \in 1 .. n |-> T[i]]
  BY <1>1 DEF turns
<1> HIDE DEF T, s, c
<1>7. ASSUME NEW i \in 1 .. n PROVE T[i] \in Seq(Seq(Val)) /\ Len(T[i]) = c(i)
  <2>1. \A j \in 1 .. c(i) : a[i] \o b[s(i)[j]] \in Seq(Val)
    <3> TAKE j \in 1 .. c(i)
    <3> DEFINE x == a[i]
               y == b[s(i)[j]]
    <3>1. x \in Seq(Val) BY <1>1
    <3>2. y \in Seq(Val) BY <1>2, <1>4, <1>5
    <3> HIDE DEF x, y
    <3>3. x \o y \in Seq(Val) BY <3>1, <3>2, ConcatAt
    <3>4. QED BY <3>3 DEF x, y
  <2>2. c(i) \in Nat BY <1>3
  <2> DEFINE e(j) == a[i] \o b[s(i)[j]]
             t == T[i]
             N == c(i)
  <2>3. t = [j \in 1 .. N |-> e(j)] /\ N \in Nat /\ \A j \in 1 .. N : e(j) \in Seq(Val)
    BY <1>5, <2>1, <2>2
  <2> HIDE DEF e, t, N
  <2>4. t \in Seq(Seq(Val)) /\ Len(t) = N BY <2>3
  <2>5. QED BY <2>4 DEF t, N
<1>8. T \in Seq(Seq(Seq(Val))) /\ Len(T) = n
  BY <1>1, <1>6, <1>7
<1>9. \A i, j : <<i, j>> \in P <=> i \in 1 .. n /\ j \in 1 .. c(i)
  <2>1. \A i, j : <<i, j>> \in P <=> i \in 1 .. n /\ j \in Nat /\ j \in 1 .. Len(T[i])
    BY <1>8 DEF Places
  <2>2. \A i \in 1 .. n : Len(T[i]) = c(i) BY <1>7
  <2>3. \A i \in 1 .. n : \A j \in 1 .. c(i) : j \in Nat
    <3> TAKE i \in 1 .. n
    <3>1. c(i) \in Nat BY <1>3
    <3>2. QED BY <3>1
  <2> HIDE DEF P
  <2>4. QED BY ONLY <2>1, <2>2, <2>3
<1>10. \A p \in P : p = <<p[1], p[2]>>
  BY DEF Places
<1>11. \A p \in P : g[p] = T[p[1]][p[2]] /\ q[p] = <<h[p[1]], k[s(p[1])[p[2]]]>>
  OBVIOUS
<1>12. \A x, y : <<x, y>> \in A <=>
         x \in Live(left) /\ y \in Live(right) /\ tupleAt(left, x)[l] = tupleAt(right, y)[r]
  BY DEF agreeing
<1>13. \A p \in A : p = <<p[1], p[2]>> /\ f[p] = tupleAt(left, p[1]) \o tupleAt(right, p[2])
  BY DEF agreeing, joinedAt
<1>14. IsFiniteSet(P) /\ ToBag(FlattenSeq(T)) = BagOf(P, g)
  <2>1. \A p \in Places(T) : g[p] = T[p[1]][p[2]] BY <1>11
  <2> HIDE DEF g
  <2>2. QED BY <1>8, <2>1, FlattenBag
<1> HIDE DEF P, A, f, g, q
<1>15. ASSUME NEW i \in 1 .. n, NEW j \in 1 .. c(i)
       PROVE  LET z == s(i)[j] IN
              /\ z \in 1 .. m /\ <<h[i], k[z]>> \in A /\ f[<<h[i], k[z]>>] = a[i] \o b[z]
              /\ T[i][j] = a[i] \o b[z]
  <2> DEFINE z == s(i)[j]
             x == h[i]
             y == k[z]
  <2>1. T[i] = [jj \in 1 .. c(i) |-> a[i] \o b[s(i)[jj]]] /\ z \in K(i) BY <1>5
  <2>2. T[i][j] = a[i] \o b[z] BY <2>1
  <2>3. z \in 1 .. m /\ b[z][r] = a[i][l] BY <1>4, <2>1
  <2> HIDE DEF z
  <2>4. x \in Live(left) /\ a[i] = tupleAt(left, x) BY <1>1 DEF Paired
  <2>5. y \in Live(right) /\ b[z] = tupleAt(right, y) BY <1>2, <2>3 DEF Paired
  <2> HIDE DEF x, y
  <2> DEFINE p == <<x, y>>
  <2>6. p \in A /\ p[1] = x /\ p[2] = y BY <1>12, <2>3, <2>4, <2>5
  <2> HIDE DEF p
  <2>7. f[p] = a[i] \o b[z] BY <1>13, <2>4, <2>5, <2>6
  <2>8. QED BY <2>2, <2>3, <2>6, <2>7 DEF p, x, y, z
<1>16. ASSUME NEW p \in P PROVE q[p] \in A /\ f[q[p]] = g[p]
  <2> DEFINE i == p[1]
             j == p[2]
  <2>1. i \in 1 .. n /\ j \in 1 .. c(i) BY <1>9, <1>10
  <2>2. g[p] = T[i][j] /\ q[p] = <<h[i], k[s(i)[j]]>> BY <1>11
  <2> HIDE DEF i, j
  <2>3. QED BY <1>15, <2>1, <2>2
<1>17. ASSUME NEW p \in P, NEW o \in P, q[p] = q[o] PROVE p = o
  <2> DEFINE i == p[1]
             j == p[2]
             ii == o[1]
             jj == o[2]
  <2>1. i \in 1 .. n /\ j \in 1 .. c(i) /\ ii \in 1 .. n /\ jj \in 1 .. c(ii) BY <1>9, <1>10
  <2>2. h[i] = h[ii] /\ k[s(i)[j]] = k[s(ii)[jj]] BY <1>11, <1>17
  <2>3. p = <<i, j>> /\ o = <<ii, jj>> BY <1>10
  <2> HIDE DEF i, j, ii, jj
  <2>4. i = ii BY <1>1, <2>1, <2>2 DEF Paired
  <2>5. s(i)[j] \in 1 .. m /\ s(i)[jj] \in 1 .. m BY <1>15, <2>1, <2>4
  <2>6. s(i)[j] = s(i)[jj] BY <1>2, <2>2, <2>4, <2>5 DEF Paired
  <2>7. j = jj BY <1>3, <2>1, <2>4, <2>6 DEF Paired
  <2>8. QED BY <2>3, <2>4, <2>7
<1>18. ASSUME NEW d \in A PROVE \E p \in P : q[p] = d
  <2> DEFINE x == d[1]
             y == d[2]
  <2>1. d = <<x, y>> BY <1>13
  <2>2. x \in Live(left) /\ y \in Live(right) /\ tupleAt(left, x)[l] = tupleAt(right, y)[r]
    <3>1. <<x, y>> \in A BY <2>1
    <3> HIDE DEF x, y
    <3>2. QED BY <1>12, <3>1
  <2> HIDE DEF x, y
  <2>3. PICK i \in 1 .. n : h[i] = x BY <1>1, <2>2 DEF Paired
  <2>4. PICK z \in 1 .. m : k[z] = y BY <1>2, <2>2 DEF Paired
  <2>5. a[i] = tupleAt(left, x) /\ b[z] = tupleAt(right, y) BY <1>1, <1>2, <2>3, <2>4
  <2>6. z \in K(i) BY <1>4, <2>2, <2>5
  <2>7. PICK j \in 1 .. c(i) : s(i)[j] = z BY <1>3, <2>6 DEF Paired
  <2> DEFINE p == <<i, j>>
  <2>8. p \in P /\ p[1] = i /\ p[2] = j BY <1>9
  <2> HIDE DEF p
  <2>9. q[p] = d BY <1>11, <2>1, <2>3, <2>4, <2>7, <2>8
  <2>10. QED BY <2>8, <2>9
<1>19. Paired(q, P, A)
  BY <1>16, <1>17, <1>18 DEF Paired
<1>20. BagOf(P, g) = BagOf(A, f)
  BY <1>14, <1>16, <1>19, PairedBags
<1>21. QED BY <1>14, <1>20 DEF T, A, f

\* The rows of the join of two tables, each column found by its name.
LEMMA JoinTurns ==
  ASSUME NEW left, NEW right, NEW l, NEW r, NEW lc, NEW rc,
         findColumn(left.schema, lc) = l, findColumn(right.schema, rc) = r,
         NEW a, a = SeqScanExecutor(left, NoWhere).rows,
         NEW b, b = SeqScanExecutor(right, NoWhere).rows
  PROVE  NestedLoopJoinExecutor(SeqScanExecutor(left, NoWhere), SeqScanExecutor(right, NoWhere),
                                lc, rc).rows = FlattenSeq(turns(a, b, l, r))
<1> DEFINE x == SeqScanExecutor(left, NoWhere)
           y == SeqScanExecutor(right, NoWhere)
<1>1. x.schema = left.schema /\ y.schema = right.schema /\ x.rows = a /\ y.rows = b
  BY DEF SeqScanExecutor, Result
<1> HIDE DEF x, y
<1> DEFINE j(ll, rr, xs, ys) ==
             [i \in DOMAIN xs |->
               [k \in DOMAIN partners(ys, xs[i][ll], rr) |->
                  xs[i] \o partners(ys, xs[i][ll], rr)[k]]]
<1>2. NestedLoopJoinExecutor(x, y, lc, rc).rows =
        FlattenSeq(j(findColumn(x.schema, lc), findColumn(y.schema, rc), x.rows, y.rows))
  BY DEF NestedLoopJoinExecutor, Result
<1>3. \A ll, rr, xs, ys : j(ll, rr, xs, ys) = turns(xs, ys, ll, rr)
  BY DEF turns
<1> HIDE DEF j
<1>4. NestedLoopJoinExecutor(x, y, lc, rc).rows = FlattenSeq(turns(a, b, l, r))
  BY <1>1, <1>2, <1>3
<1>5. QED BY <1>4 DEF x, y

\* NestedLoopJoinExecutor over two scans (query/Executor.cpp), for tables of every size and with
\* every number of equal rows and equal values: no partner is lost where the right side starts
\* over, and none is joined twice.
THEOREM JoinCorrect ==
  Spec => []JoinRight
<1>1. ASSUME NEW left, NEW right, TableInv(left), TableInv(right), NEW l, NEW r,
             named(left, l), named(right, r)
      PROVE  ToBag(joinRows(left, right, l, r)) = pairBag(left, right, l, r)
  <2> DEFINE lc == left.schema[l].name
             rc == right.schema[r].name
             a == SeqScanExecutor(left, NoWhere).rows
             b == SeqScanExecutor(right, NoWhere).rows
             rows == joinRows(left, right, l, r)
             A == agreeing(left, right, l, r)
             f == joinedAt(left, right, l, r)
             row(p) == tupleAt(left, p[1]) \o tupleAt(right, p[2])
  <2>1. findColumn(left.schema, lc) = l /\ findColumn(right.schema, rc) = r
    BY <1>1 DEF named
  <2>2. rows = NestedLoopJoinExecutor(SeqScanExecutor(left, NoWhere),
                 SeqScanExecutor(right, NoWhere), lc, rc).rows
    BY DEF joinRows
  <2>3. \A p \in A : f[p] = row(p)
    BY DEF joinedAt
  <2>4. pairBag(left, right, l, r) =
          [v \in {row(p) : p \in A} |-> Cardinality({p \in A : row(p) = v})]
    BY DEF pairBag
  <2> HIDE DEF lc, rc, A, f, row, rows
  <2>5. rows = FlattenSeq(turns(a, b, l, r))
    BY <2>1, <2>2, JoinTurns
  <2>6. ToBag(FlattenSeq(turns(a, b, l, r))) = BagOf(A, f)
    BY <1>1, JoinedBag DEF A, f
  <2>7. BagOf(A, f) = [v \in {row(p) : p \in A} |-> Cardinality({p \in A : row(p) = v})]
    <3> DEFINE c1(v) == Cardinality({x \in A : f[x] = v})
               c2(v) == Cardinality({p \in A : row(p) = v})
    <3>1. ASSUME NEW v PROVE c1(v) = c2(v)
      <4>1. {x \in A : f[x] = v} = {p \in A : row(p) = v} BY <2>3
      <4>2. QED BY <4>1
    <3>2. {f[x] : x \in A} = {row(p) : p \in A} BY <2>3
    <3>3. BagOf(A, f) = [v \in {f[x] : x \in A} |-> c1(v)] BY DEF BagOf
    <3> HIDE DEF c1, c2
    <3>4. BagOf(A, f) = [v \in {row(p) : p \in A} |-> c2(v)] BY <3>1, <3>2, <3>3
    <3>5. QED BY <3>4 DEF c2
  <2>8. ToBag(rows) = pairBag(left, right, l, r)
    BY <2>4, <2>5, <2>6, <2>7
  <2>9. QED BY <2>8 DEF rows
<1>2. EngineInv => JoinRight
  BY <1>1 DEF JoinRight, EngineInv, CatalogInv
<1>3. QED BY <1>2, EngineCorrect, PTL

-------------------------------------------------------------------------------
(* The lexer loses nothing *)

\* FlattenSeq of two parts, one after the other.
LEMMA FlattenConcat ==
  ASSUME NEW S, NEW a \in Seq(Seq(S)), NEW b \in Seq(Seq(S))
  PROVE  FlattenSeq(a \o b) = FlattenSeq(a) \o FlattenSeq(b)
<1> DEFINE c == a \o b
           m == Len(a)
           n == Len(b)
<1>1. /\ c \in Seq(Seq(S)) /\ Len(c) = m + n /\ m \in Nat /\ n \in Nat
      /\ \A k \in 1 .. m : c[k] = a[k]
      /\ \A k \in 1 .. n : c[m + k] = b[k]
  <2> DEFINE T == Seq(S)
  <2>1. a \in Seq(T) /\ b \in Seq(T) OBVIOUS
  <2> HIDE DEF T
  <2>2. c \in Seq(T)
        /\ Len(c) = m + n /\ (\A k \in 1 .. m : c[k] = a[k]) /\ \A k \in 1 .. n : c[m + k] = b[k]
    BY ONLY <2>1, ConcatAt
  <2>3. m \in Nat /\ n \in Nat BY <2>1
  <2>4. QED BY <2>2, <2>3 DEF T
<1> HIDE DEF c
<1>2. PICK A : Parts(S, a, A) /\ FlattenSeq(a) = A[m]
  BY FlattenParts
<1>3. PICK B : Parts(S, b, B) /\ FlattenSeq(b) = B[n]
  BY FlattenParts
<1>4. PICK C : Parts(S, c, C) /\ FlattenSeq(c) = C[Len(c)]
  BY <1>1, FlattenParts
<1> HIDE DEF m, n
<1>5. Len(a) = m /\ Len(b) = n
  BY DEF m, n
<1> DEFINE K == {k \in Nat : k <= m => C[k] = A[k]}
           Same(k) == C[m + k] = A[m] \o B[k]
           L == {k \in Nat : k <= n => Same(k)}
<1>6. 0 \in K
  BY <1>2, <1>4 DEF Parts
<1>7. ASSUME NEW k \in Nat, k \in K PROVE k + 1 \in K
  <2> SUFFICES ASSUME k + 1 <= m PROVE C[k + 1] = A[k + 1]
    OBVIOUS
  <2>1. k + 1 \in 1 .. m /\ k + 1 \in 1 .. Len(c) /\ (k + 1) - 1 = k /\ k <= m
    BY <1>1
  <2>2. C[k + 1] = C[k] \o c[k + 1]
    BY <1>4, <2>1 DEF Parts
  <2>3. A[k + 1] = A[k] \o a[k + 1]
    BY <1>2, <1>5, <2>1 DEF Parts
  <2>4. C[k] = A[k] /\ c[k + 1] = a[k + 1]
    BY <1>1, <1>7, <2>1
  <2>5. QED BY <2>2, <2>3, <2>4
<1>8. Nat \subseteq K
  <2> HIDE DEF K
  <2>1. QED BY <1>6, <1>7, SetInduction
<1>9. C[m] = A[m]
  BY <1>1, <1>8
<1>10. A[m] \in Seq(S)
  BY <1>1, <1>2, <1>5 DEF Parts
<1>11. 0 \in L
  <2>1. B[0] = <<>> BY <1>3 DEF Parts
  <2>2. A[m] \o <<>> = A[m] BY <1>10
  <2>3. m + 0 = m BY <1>1
  <2>4. Same(0) BY <1>9, <2>1, <2>2, <2>3
  <2> HIDE DEF Same
  <2>5. QED BY <2>4
<1> HIDE DEF Same
<1>12. ASSUME NEW k \in Nat, k \in L PROVE k + 1 \in L
  <2> SUFFICES ASSUME k + 1 <= n PROVE Same(k + 1)
    OBVIOUS
  <2>1. k + 1 \in 1 .. n /\ m + (k + 1) \in 1 .. Len(c) /\ (m + (k + 1)) - 1 = m + k
        /\ (k + 1) - 1 = k /\ k <= n /\ k \in 0 .. n
    BY <1>1
  <2>2. C[m + (k + 1)] = C[m + k] \o c[m + (k + 1)]
    BY <1>4, <2>1 DEF Parts
  <2>3. B[k + 1] = B[k] \o b[k + 1] /\ B[k] \in Seq(S)
    BY <1>3, <1>5, <2>1 DEF Parts
  <2>4. C[m + k] = A[m] \o B[k] /\ c[m + (k + 1)] = b[k + 1]
    BY <1>1, <1>12, <2>1 DEF Same
  <2>5. b[k + 1] \in Seq(S)
    BY <1>5, <2>1, ElementOfSeq
  <2>6. (A[m] \o B[k]) \o b[k + 1] = A[m] \o (B[k] \o b[k + 1])
    <3> DEFINE x == A[m]
               y == B[k]
               z == b[k + 1]
    <3>1. x \in Seq(S) /\ y \in Seq(S) /\ z \in Seq(S)
      BY <1>10, <2>3, <2>5
    <3> HIDE DEF x, y, z
    <3>2. (x \o y) \o z = x \o (y \o z)
      BY ONLY <3>1, Assoc, SMTT(30)
    <3>3. QED BY <3>2 DEF x, y, z
  <2>7. QED BY <2>2, <2>3, <2>4, <2>6 DEF Same
<1>13. Nat \subseteq L
  <2> HIDE DEF L
  <2>1. QED BY <1>11, <1>12, SetInduction
<1>14. C[m + n] = A[m] \o B[n]
  <2>1. n \in L /\ n <= n BY <1>1, <1>13
  <2>2. Same(n) BY <2>1
  <2>3. QED BY <2>2 DEF Same
<1>15. QED BY <1>1, <1>2, <1>3, <1>4, <1>14 DEF c

LEMMA FlattenOne ==
  ASSUME NEW x
  PROVE  FlattenSeq(<<x>>) = x
BY DEF FlattenSeq

LEMMA OneOf ==
  ASSUME NEW S, NEW x \in S
  PROVE  <<x>> \in Seq(S) /\ Len(<<x>>) = 1 /\ <<x>>[1] = x
OBVIOUS

\* The parts of a line: what is bare of the first, then what is bare of the second.
marks(s) == [i \in DOMAIN s |-> IF s[i] \in (Space \cup {"'"}) THEN <<>> ELSE <<s[i]>>]

LEMMA MarksOf ==
  ASSUME NEW s \in Text
  PROVE  /\ marks(s) \in Seq(Seq(STRING)) /\ Len(marks(s)) = Len(s)
         /\ \A i \in 1 .. Len(s) : marks(s)[i] = IF s[i] \in (Space \cup {"'"}) THEN <<>> ELSE <<s[i]>>
<1>1. s \in Seq(STRING) /\ Len(s) \in Nat /\ DOMAIN s = 1 .. Len(s)
  BY DEF Text
<1>2. \A i \in 1 .. Len(s) : s[i] \in STRING
  BY <1>1, ElementOfSeq
<1> DEFINE T == Seq(STRING)
           f == marks(s)
           n == Len(s)
<1>3. <<>> \in T /\ \A c \in STRING : <<c>> \in T
  <2>1. <<>> \in Seq(STRING) OBVIOUS
  <2>2. ASSUME NEW c \in STRING PROVE <<c>> \in Seq(STRING)
    <3>1. ASSUME NEW S, NEW d \in S PROVE <<d>> \in Seq(S) BY OneOf
    <3>2. QED BY ONLY <3>1, c \in STRING
  <2>3. QED BY ONLY <2>1, <2>2
<1>4. f = [i \in 1 .. n |-> IF s[i] \in (Space \cup {"'"}) THEN <<>> ELSE <<s[i]>>]
  BY <1>1 DEF marks
<1>5. \A i \in 1 .. n : f[i] = IF s[i] \in (Space \cup {"'"}) THEN <<>> ELSE <<s[i]>>
  BY <1>4
<1>6. f = [i \in 1 .. n |-> f[i]]
  BY <1>4
<1> HIDE DEF T, f
<1>7. \A i \in 1 .. n : f[i] \in T
  BY <1>2, <1>3, <1>5
<1>8. f \in Seq(T) /\ Len(f) = n
  BY <1>1, <1>6, <1>7
<1>9. QED BY <1>5, <1>8 DEF T, f, n

\* What is bare of two parts.
LEMMA BareConcat ==
  ASSUME NEW a \in Text, NEW b \in Text
  PROVE  a \o b \in Text /\ bare(a \o b) = bare(a) \o bare(b)
<1> DEFINE c == a \o b
           m == Len(a)
           n == Len(b)
<1>1. /\ c \in Text /\ Len(c) = m + n /\ m \in Nat /\ n \in Nat
      /\ \A k \in 1 .. m : c[k] = a[k]
      /\ \A k \in 1 .. n : c[m + k] = b[k]
  BY ConcatAt DEF Text
<1> DEFINE x == marks(a)
           y == marks(b)
           z == marks(c)
<1>2. x \in Seq(Seq(STRING)) /\ Len(x) = m
      /\ \A i \in 1 .. m : x[i] = IF a[i] \in (Space \cup {"'"}) THEN <<>> ELSE <<a[i]>>
  BY MarksOf
<1>3. y \in Seq(Seq(STRING)) /\ Len(y) = n
      /\ \A i \in 1 .. n : y[i] = IF b[i] \in (Space \cup {"'"}) THEN <<>> ELSE <<b[i]>>
  BY MarksOf
<1> HIDE DEF c
<1>4. z \in Seq(Seq(STRING)) /\ Len(z) = m + n
      /\ \A i \in 1 .. m + n : z[i] = IF c[i] \in (Space \cup {"'"}) THEN <<>> ELSE <<c[i]>>
  BY <1>1, MarksOf
<1>5. bare(a) = FlattenSeq(x) /\ bare(b) = FlattenSeq(y) /\ bare(c) = FlattenSeq(z)
  BY DEF bare, marks
<1> HIDE DEF x, y, z, m, n
<1>6. z = x \o y
  <2> DEFINE T == Seq(STRING)
             w == x \o y
  <2>1. x \in Seq(T) /\ y \in Seq(T) BY <1>2, <1>3
  <2> HIDE DEF T
  <2>2. /\ w \in Seq(T) /\ Len(w) = Len(x) + Len(y)
        /\ \A k \in 1 .. Len(x) : w[k] = x[k]
        /\ \A k \in 1 .. Len(y) : w[Len(x) + k] = y[k]
    BY ONLY <2>1, ConcatAt
  <2> HIDE DEF w
  <2>3. ASSUME NEW i \in 1 .. m + n PROVE z[i] = w[i]
    <3>1. CASE i \in 1 .. m
      <4>1. c[i] = a[i] /\ w[i] = x[i]
        BY <1>1, <1>2, <2>2, <3>1
      <4>2. z[i] = IF c[i] \in (Space \cup {"'"}) THEN <<>> ELSE <<c[i]>>
        BY <1>4
      <4>3. x[i] = IF a[i] \in (Space \cup {"'"}) THEN <<>> ELSE <<a[i]>>
        BY <1>2, <3>1
      <4>4. QED BY ONLY <4>1, <4>2, <4>3
    <3>2. CASE i \notin 1 .. m
      <4>1. i - m \in 1 .. n /\ m + (i - m) = i
        BY <1>1, <3>2
      <4>2. c[i] = b[i - m] /\ w[i] = y[i - m]
        BY <1>1, <1>2, <1>3, <2>2, <4>1
      <4>3. z[i] = IF c[i] \in (Space \cup {"'"}) THEN <<>> ELSE <<c[i]>>
        BY <1>4
      <4>4. y[i - m] = IF b[i - m] \in (Space \cup {"'"}) THEN <<>> ELSE <<b[i - m]>>
        BY <1>3, <4>1
      <4>5. QED BY ONLY <4>2, <4>3, <4>4
    <3>3. QED BY <3>1, <3>2
  <2>4. z \in Seq(T) /\ Len(z) = m + n /\ Len(w) = m + n
    BY <1>2, <1>3, <1>4, <2>2 DEF T
  <2>5. z = w
    BY <1>1, <2>2, <2>3, <2>4
  <2>6. QED BY <2>5 DEF w
<1>7. FlattenSeq(x \o y) = FlattenSeq(x) \o FlattenSeq(y)
  BY <1>2, <1>3, FlattenConcat
<1>8. QED BY <1>1, <1>5, <1>6, <1>7 DEF c

LEMMA BareOne ==
  ASSUME NEW c \in STRING
  PROVE  /\ <<c>> \in Text
         /\ c \in (Space \cup {"'"}) => bare(<<c>>) = <<>>
<1> DEFINE s == <<c>>
<1>1. s \in Text /\ Len(s) = 1 /\ s[1] = c
  BY OneOf DEF Text
<1> HIDE DEF s
<1>2. ASSUME c \in (Space \cup {"'"}) PROVE bare(s) = <<>>
  <2>1. /\ marks(s) \in Seq(Seq(STRING)) /\ Len(marks(s)) = 1
        /\ \A i \in 1 .. 1 : marks(s)[i] = IF s[i] \in (Space \cup {"'"}) THEN <<>> ELSE <<s[i]>>
    BY <1>1, MarksOf
  <2> DEFINE e == <<>>
  <2>2. marks(s)[1] = e
    <3>1. marks(s)[1] = IF s[1] \in (Space \cup {"'"}) THEN <<>> ELSE <<s[1]>>
      <4>1. 1 \in 1 .. 1 OBVIOUS
      <4> DEFINE g(i) == IF s[i] \in (Space \cup {"'"}) THEN <<>> ELSE <<s[i]>>
      <4>2. \A i \in 1 .. 1 : marks(s)[i] = g(i) BY <2>1
      <4> HIDE DEF g
      <4>3. marks(s)[1] = g(1) BY <4>1, <4>2
      <4>4. QED BY <4>3 DEF g
    <3>2. s[1] \in (Space \cup {"'"})
      BY <1>1, <1>2
    <3>3. QED BY <3>1, <3>2
  <2> DEFINE x == marks(s)
  <2>3. x \in Seq(Seq(STRING)) /\ Len(x) = 1 /\ x[1] = e
    BY <2>1, <2>2
  <2>4. bare(s) = FlattenSeq(x)
    BY DEF bare, marks
  <2> HIDE DEF x, e
  <2>5. x = <<e>>
    BY <2>3
  <2>6. QED BY <2>4, <2>5, FlattenOne DEF e
<1>3. QED BY <1>1, <1>2 DEF s

LEMMA BareType ==
  ASSUME NEW s \in Text
  PROVE  bare(s) \in Seq(STRING) /\ <<>> \o bare(s) = bare(s) /\ bare(s) \o <<>> = bare(s)
<1> DEFINE m == marks(s)
<1>1. m \in Seq(Seq(STRING)) /\ bare(s) = FlattenSeq(m)
  <2>1. m \in Seq(Seq(STRING)) BY MarksOf
  <2>2. QED BY <2>1 DEF bare, marks
<1> HIDE DEF m
<1>2. ASSUME NEW S, NEW t \in Seq(Seq(S)) PROVE FlattenSeq(t) \in Seq(S)
  <2>1. PICK A : Parts(S, t, A) /\ FlattenSeq(t) = A[Len(t)]
    BY FlattenParts
  <2>2. Len(t) \in 0 .. Len(t) OBVIOUS
  <2>3. QED BY <2>1, <2>2 DEF Parts
<1>3. FlattenSeq(m) \in Seq(STRING)
  BY ONLY <1>1, <1>2
<1>4. ASSUME NEW S, NEW t \in Seq(S) PROVE <<>> \o t = t /\ t \o <<>> = t
  OBVIOUS
<1>5. FlattenSeq(m) \in Seq(STRING) /\ <<>> \o FlattenSeq(m) = FlattenSeq(m)
      /\ FlattenSeq(m) \o <<>> = FlattenSeq(m)
  BY ONLY <1>3, <1>4
<1>6. QED BY ONLY <1>1, <1>5

LEMMA SplitPart ==
  ASSUME NEW S, NEW s \in Seq(S), NEW a \in Nat, NEW b \in Nat, NEW c \in Nat,
         1 <= a, a <= b, b <= c + 1, c <= Len(s)
  PROVE  /\ SubSeq(s, a, b - 1) \in Seq(S) /\ SubSeq(s, b, c) \in Seq(S)
         /\ SubSeq(s, a, c) = SubSeq(s, a, b - 1) \o SubSeq(s, b, c)
<1> DEFINE x == SubSeq(s, a, b - 1)
           y == SubSeq(s, b, c)
           z == SubSeq(s, a, c)
           w == x \o y
<1>0. b - 1 \in Nat /\ a <= (b - 1) + 1 /\ b - 1 <= Len(s) /\ 1 <= b /\ a <= c + 1 /\ Len(s) \in Nat
  OBVIOUS
<1>1. x \in Seq(S) /\ Len(x) = b - a /\ \A i \in 1 .. b - a : x[i] = s[a + i - 1]
  <2>1. x \in Seq(S) /\ Len(x) = (b - 1) - a + 1 /\ \A i \in 1 .. (b - 1) - a + 1 : x[i] = s[a + i - 1]
    BY <1>0, PartOf
  <2>2. (b - 1) - a + 1 = b - a OBVIOUS
  <2> HIDE DEF x
  <2>3. QED BY <2>1, <2>2
<1>2. y \in Seq(S) /\ Len(y) = c - b + 1 /\ \A i \in 1 .. c - b + 1 : y[i] = s[b + i - 1]
  BY <1>0, PartOf
<1>3. z \in Seq(S) /\ Len(z) = c - a + 1 /\ \A i \in 1 .. c - a + 1 : z[i] = s[a + i - 1]
  BY <1>0, PartOf
<1> HIDE DEF x, y, z
<1>4. /\ w \in Seq(S) /\ Len(w) = Len(x) + Len(y)
      /\ \A k \in 1 .. Len(x) : w[k] = x[k]
      /\ \A k \in 1 .. Len(y) : w[Len(x) + k] = y[k]
  <2>1. x \in Seq(S) /\ y \in Seq(S) BY <1>1, <1>2
  <2>2. QED BY ONLY <2>1, ConcatAt
<1> HIDE DEF w
<1>5. ASSUME NEW i \in 1 .. c - a + 1 PROVE z[i] = w[i]
  <2>1. z[i] = s[a + i - 1] BY <1>3
  <2>2. CASE i <= b - a
    <3>1. i \in 1 .. b - a BY <1>0, <2>2
    <3>2. w[i] = x[i] /\ x[i] = s[a + i - 1] BY <1>1, <1>4, <3>1
    <3>3. QED BY <2>1, <3>2
  <2>3. CASE i > b - a
    <3> DEFINE j == i - (b - a)
    <3>1. j \in 1 .. c - b + 1 /\ i = (b - a) + j /\ a + i - 1 = b + j - 1 BY <1>0, <2>3
    <3> HIDE DEF j
    <3>2. w[i] = y[j] /\ y[j] = s[b + j - 1] BY <1>1, <1>2, <1>4, <3>1
    <3>3. QED BY <2>1, <3>1, <3>2
  <2>4. QED BY <2>2, <2>3
<1>6. Len(w) = c - a + 1
  BY <1>0, <1>1, <1>2, <1>4
<1>7. z = w
  BY <1>3, <1>4, <1>5, <1>6
<1>8. QED BY <1>1, <1>2, <1>7 DEF x, y, z, w

LEMMA OnePart ==
  ASSUME NEW S, NEW s \in Seq(S), NEW p \in 1 .. Len(s)
  PROVE  SubSeq(s, p, p) = <<s[p]>> /\ s[p] \in S
<1> DEFINE z == SubSeq(s, p, p)
<1>1. p \in Nat /\ 1 <= p /\ p <= p + 1 /\ p <= Len(s) /\ p - p + 1 = 1 /\ p + 1 - 1 = p
  OBVIOUS
<1>2. z \in Seq(S) /\ Len(z) = p - p + 1 /\ \A i \in 1 .. p - p + 1 : z[i] = s[p + i - 1]
  BY <1>1, PartOf
<1> HIDE DEF z
<1>3. z \in Seq(S) /\ Len(z) = 1 /\ z[1] = s[p]
  BY <1>1, <1>2
<1>4. z = <<s[p]>>
  BY <1>3
<1>5. QED BY <1>4, ElementOfSeq DEF z

LEMMA ClosingQuote ==
  ASSUME NEW input \in Text, NEW p \in 1 .. Len(input) + 1, quoteEnd(input, p) <= Len(input)
  PROVE  input[quoteEnd(input, p)] = "'"
<1> DEFINE I == {i \in p .. Len(input) : input[i] = "'"}
<1>0. input \in Seq(STRING) /\ Len(input) \in Nat
  BY DEF Text
<1>1. I # {}
  <2> SUFFICES ASSUME I = {} PROVE FALSE
    OBVIOUS
  <2>1. quoteEnd(input, p) = Len(input) + 1
    BY DEF quoteEnd, SelectInSubSeq
  <2>2. QED BY <1>0, <2>1
<1> DEFINE m == Min(I)
<1>2. m \in I
  <2>1. I \subseteq p .. Len(input) OBVIOUS
  <2> HIDE DEF I
  <2>2. I \subseteq Nat BY <1>0, <2>1
  <2>3. QED BY <1>1, <2>2, MinExists
<1>3. m \in p .. Len(input) /\ input[m] = "'"
  BY <1>2
<1>4. quoteEnd(input, p) = IF m = 0 THEN Len(input) + 1 ELSE m
  <2>1. SelectInSubSeq(input, p, Len(input), LAMBDA c : c = "'") = m
    BY <1>1 DEF SelectInSubSeq
  <2>2. QED BY <2>1 DEF quoteEnd
<1> HIDE DEF m
<1>5. m # 0
  BY <1>0, <1>3
<1>6. QED BY <1>3, <1>4, <1>5

\* A character that is a quote or a space, in front of or behind a text.
LEMMA BareSkips ==
  ASSUME NEW s \in Text, NEW c \in STRING, c \in (Space \cup {"'"})
  PROVE  /\ <<c>> \o s \in Text /\ bare(<<c>> \o s) = bare(s)
         /\ s \o <<c>> \in Text /\ bare(s \o <<c>>) = bare(s)
<1> DEFINE x == <<c>>
<1>2. x \in Text /\ bare(x) = <<>>
  BY BareOne
<1> HIDE DEF x
<1>3. x \o s \in Text /\ bare(x \o s) = bare(x) \o bare(s)
  BY <1>2, BareConcat
<1>4. s \o x \in Text /\ bare(s \o x) = bare(s) \o bare(x)
  BY <1>2, BareConcat
<1>5. <<>> \o bare(s) = bare(s) /\ bare(s) \o <<>> = bare(s)
  BY BareType
<1>6. QED BY <1>2, <1>3, <1>4, <1>5 DEF x

\* The text of a token and the part of the line it was read from differ in quotes only.
LEMMA TokenSpan ==
  ASSUME NEW input \in Text, NEW p \in 1 .. Len(input)
  PROVE  bare(tokenAt(input, p).value) = bare(SubSeq(input, p, tokenEnd(input, p) - 1))
<1> DEFINE c == input[p]
           t == tokenAt(input, p)
           e == tokenEnd(input, p)
           q == quoteEnd(input, p + 1)
           N == Len(input)
<1>0. /\ input \in Seq(STRING) /\ N \in Nat /\ c \in STRING /\ p \in Nat
      /\ p + 1 \in 1 .. N + 1 /\ (p + 1) - 1 = p
  BY ElementOfSeq DEF Text
<1>1. SubSeq(input, p, p) = <<c>>
  BY <1>0, OnePart
<1>2. \A type, text : Token(type, text).value = text
  BY DEF Token
<1>3. CASE c = "'"
  <2>1. t = Token("STRING", SubSeq(input, p + 1, q - 1))
        /\ e = IF q > N THEN N + 1 ELSE q + 1
    <3>1. c \notin Symbol /\ c \notin Digit /\ c \notin Letter
      BY <1>3, LexerAssumption DEF Symbol, Digit
    <3>2. t = stringAt(input, p)
      BY <1>3, <3>1 DEF tokenAt
    <3>3. QED BY <1>3, <3>1, <3>2 DEF tokenEnd, stringAt
  <2>2. q \in p + 1 .. N + 1
    BY <1>0, QuoteEnd
  <2>3. q <= N => input[q] = "'"
    BY <1>0, ClosingQuote
  <2> HIDE DEF q, t, e
  <2> DEFINE x == SubSeq(input, p + 1, q - 1)
  <2>4. p \in Nat /\ p + 1 \in Nat /\ q \in Nat /\ q - 1 \in Nat /\ 1 <= p /\ p <= p + 1
        /\ p + 1 <= (q - 1) + 1 /\ q - 1 <= N /\ p <= q /\ p + 1 <= q
    BY <1>0, <2>2
  <2>5. x \in Text /\ SubSeq(input, p, q - 1) = <<c>> \o x
    <3>1. x \in Seq(STRING)
          /\ SubSeq(input, p, q - 1) = SubSeq(input, p, (p + 1) - 1) \o x
      BY <1>0, <2>4, SplitPart
    <3>2. QED BY <1>0, <1>1, <3>1 DEF Text
  <2> HIDE DEF x
  <2>6. SubSeq(input, p, q - 1) \in Text /\ bare(SubSeq(input, p, q - 1)) = bare(x)
    BY <1>0, <1>3, <2>5, BareSkips
  <2>7. t.value = x
    BY <1>2, <2>1 DEF x
  <2>8. CASE q > N
    <3>1. e - 1 = q - 1 BY <1>0, <2>1, <2>2, <2>8
    <3>2. QED BY <2>6, <2>7, <3>1 DEF t, e
  <2>9. CASE ~(q > N)
    <3>1. e - 1 = q /\ q \in 1 .. N /\ q <= q + 1 /\ q <= N BY <1>0, <2>1, <2>2, <2>9
    <3>2. SubSeq(input, q, q) = <<input[q]>> /\ input[q] \in STRING
      BY <1>0, <3>1, OnePart
    <3>3. SubSeq(input, p, q) = SubSeq(input, p, q - 1) \o SubSeq(input, q, q)
      BY <1>0, <2>4, <3>1, SplitPart
    <3> DEFINE d == input[q]
               y == SubSeq(input, p, q - 1)
    <3>4. d \in STRING /\ d \in (Space \cup {"'"}) BY <2>3, <3>1, <3>2
    <3>5. y \in Text /\ bare(y) = bare(x) BY <2>6
    <3>6. SubSeq(input, p, q) = y \o <<d>> BY <3>2, <3>3
    <3> HIDE DEF d, y
    <3>7. bare(y \o <<d>>) = bare(y) BY <3>4, <3>5, BareSkips
    <3>8. QED BY <2>7, <3>1, <3>5, <3>6, <3>7 DEF t, e
  <2>10. QED BY <2>8, <2>9
<1>4. CASE c # "'"
  <2>1. Symbol \cap Digit = {} /\ "'" \notin Digit /\ Letter \cap Digit = {} /\ Letter \cap Symbol = {}
    BY LexerAssumption DEF Symbol, Digit
  <2>2. CASE c \in Digit
    <3>1. c \notin Symbol /\ c \notin Letter BY <2>1, <2>2
    <3>2. e = runEnd(input, p, Digit) BY <1>4, <2>2, <3>1 DEF tokenEnd
    <3>3. t = Token("NUMBER", SubSeq(input, p, runEnd(input, p, Digit) - 1))
      BY <1>4, <2>2, <3>1 DEF tokenAt
    <3> HIDE DEF t, e
    <3>4. t.value = SubSeq(input, p, e - 1) BY <1>2, <3>2, <3>3
    <3>5. QED BY <3>4 DEF t, e
  <2>3. CASE c \in Letter
    <3>1. c \notin Symbol /\ c \notin Digit BY <2>1, <2>3
    <3> DEFINE word == SubSeq(input, p, runEnd(input, p, Letter \cup Digit) - 1)
    <3>2. e = runEnd(input, p, Letter \cup Digit) BY <1>4, <2>3, <3>1 DEF tokenEnd
    <3>3. t = Token(keywordType(word), word)
      BY <1>4, <2>3, <3>1 DEF tokenAt
    <3> HIDE DEF t, e
    <3>4. word = SubSeq(input, p, e - 1) BY <3>2
    <3> HIDE DEF word
    <3>5. t.value = SubSeq(input, p, e - 1) BY <1>2, <3>3, <3>4
    <3>6. QED BY <3>5 DEF t, e
  <2>4. CASE c \notin Digit /\ c \notin Letter
    <3>1. e = p + 1 BY <1>4, <2>4 DEF tokenEnd
    <3>2. t = Token(symbolType[c], <<c>>) \/ t = Token("UNKNOWN", <<c>>)
      BY <1>4, <2>4 DEF tokenAt
    <3> HIDE DEF t, e, c
    <3>3. t.value = <<c>> BY <1>2, <3>2
    <3>4. QED BY <1>0, <1>1, <3>1, <3>3 DEF t, e
  <2>5. QED BY <2>2, <2>3, <2>4
<1>5. QED BY <1>3, <1>4

\* What the tokens spell: the first one, then the others.
LEMMA SpeltTokens ==
  ASSUME NEW t \in Tok, NEW toks \in Seq(Tok)
  PROVE  /\ spelt(toks) \in Seq(Text)
         /\ spelt(<<t>> \o toks) = <<t.value>> \o spelt(toks)
         /\ t.value \in Text
<1>0. /\ Len(toks) \in Nat /\ DOMAIN toks = 1 .. Len(toks) /\ t.value \in Text
      /\ \A i \in 1 .. Len(toks) : toks[i].value \in Text
  <2>1. \A u \in Tok : u.value \in Text BY DEF Tok
  <2>2. \A i \in 1 .. Len(toks) : toks[i] \in Tok BY ElementOfSeq
  <2>3. Len(toks) \in Nat /\ DOMAIN toks = 1 .. Len(toks) OBVIOUS
  <2>4. QED BY <2>1, <2>2, <2>3
<1> DEFINE a == <<t>>
           c == a \o toks
           n == Len(toks)
           v == <<t.value>>
           y == spelt(toks)
           z == spelt(c)
           w == v \o y
<1>1. a \in Seq(Tok) /\ Len(a) = 1 /\ a[1] = t
  OBVIOUS
<1> HIDE DEF a
<1>2. /\ c \in Seq(Tok) /\ Len(c) = Len(a) + n
      /\ \A k \in 1 .. Len(a) : c[k] = a[k]
      /\ \A k \in 1 .. n : c[Len(a) + k] = toks[k]
  <2>1. a \in Seq(Tok) /\ toks \in Seq(Tok) BY <1>1
  <2>2. QED BY ONLY <2>1, ConcatAt
<1> HIDE DEF c
<1>3. DOMAIN c = 1 .. n + 1 /\ c[1] = t /\ \A k \in 1 .. n : c[1 + k] = toks[k]
  BY <1>0, <1>1, <1>2
<1>4. y \in Seq(Text) /\ Len(y) = n /\ \A k \in 1 .. n : y[k] = toks[k].value
  <2>1. y = [i \in 1 .. n |-> toks[i].value]
    BY <1>0 DEF spelt
  <2> DEFINE T == Text
  <2>2. \A i \in 1 .. n : toks[i].value \in T BY <1>0
  <2> HIDE DEF T, y
  <2>3. y \in Seq(T) /\ Len(y) = n /\ \A k \in 1 .. n : y[k] = toks[k].value
    BY <1>0, <2>1, <2>2
  <2>4. QED BY <2>3 DEF T
<1>5. z = [i \in 1 .. n + 1 |-> c[i].value]
  BY <1>3 DEF spelt
<1> HIDE DEF y, z
<1>6. v \in Seq(Text) /\ Len(v) = 1 /\ v[1] = t.value
  <2> DEFINE T == Text
             x == t.value
  <2>1. x \in T BY <1>0
  <2> HIDE DEF T, x
  <2>2. <<x>> \in Seq(T) /\ Len(<<x>>) = 1 /\ <<x>>[1] = x BY <2>1
  <2>3. QED BY <2>2 DEF T, x
<1> HIDE DEF v
<1>7. /\ w \in Seq(Text) /\ Len(w) = 1 + n /\ w[1] = t.value
      /\ \A k \in 1 .. n : w[1 + k] = y[k]
  <2> DEFINE T == Text
  <2>1. v \in Seq(T) /\ y \in Seq(T) BY <1>4, <1>6
  <2> HIDE DEF T
  <2>2. /\ w \in Seq(T) /\ Len(w) = Len(v) + Len(y)
        /\ \A k \in 1 .. Len(v) : w[k] = v[k]
        /\ \A k \in 1 .. Len(y) : w[Len(v) + k] = y[k]
    BY ONLY <2>1, ConcatAt
  <2> HIDE DEF w
  <2>3. QED BY <1>0, <1>4, <1>6, <2>2 DEF T
<1> HIDE DEF w
<1>8. ASSUME NEW i \in 1 .. n + 1 PROVE c[i].value = w[i]
  <2>1. CASE i = 1 BY <1>3, <1>7, <2>1
  <2>2. CASE i # 1
    <3>1. i - 1 \in 1 .. n /\ 1 + (i - 1) = i BY <1>0, <2>2
    <3>2. c[i] = toks[i - 1] /\ w[i] = y[i - 1] BY <1>3, <1>7, <3>1
    <3>3. QED BY <1>4, <3>1, <3>2
  <2>3. QED BY <2>1, <2>2
<1>9. w = [i \in 1 .. n + 1 |-> w[i]]
  BY <1>0, <1>7
<1>10. z = w
  BY <1>5, <1>8, <1>9
<1>11. QED BY <1>0, <1>4, <1>10 DEF a, c, y, z, v, w

\* Behind the tokens of a line's beginning come the tokens of its rest.
LEMMA SpeltMore ==
  ASSUME NEW t \in Tok, NEW toks \in Seq(Tok)
  PROVE  /\ FlattenSeq(spelt(toks)) \in Text
         /\ bare(FlattenSeq(spelt(<<t>> \o toks))) = bare(t.value) \o bare(FlattenSeq(spelt(toks)))
<1> DEFINE y == spelt(toks)
           x == t.value
           u == <<x>>
<1>1. y \in Seq(Text) /\ spelt(<<t>> \o toks) = u \o y /\ x \in Text
  BY SpeltTokens
<1> HIDE DEF x, y
<1>2. y \in Seq(Seq(STRING)) /\ u \in Seq(Seq(STRING)) /\ x \in Seq(STRING)
  <2>1. x \in Seq(STRING) /\ y \in Seq(Seq(STRING)) BY <1>1 DEF Text
  <2>2. ASSUME NEW S, NEW d \in S PROVE <<d>> \in Seq(S) BY OneOf
  <2>3. u \in Seq(Seq(STRING)) BY ONLY <2>1, <2>2
  <2>4. QED BY <2>1, <2>3
<1>3. FlattenSeq(u) = x
  BY FlattenOne
<1> HIDE DEF u
<1>4. FlattenSeq(u \o y) = FlattenSeq(u) \o FlattenSeq(y)
  BY <1>2, FlattenConcat
<1>5. FlattenSeq(y) \in Text
  <2>1. PICK A : Parts(STRING, y, A) /\ FlattenSeq(y) = A[Len(y)]
    BY <1>2, FlattenParts
  <2>2. Len(y) \in 0 .. Len(y) BY <1>2
  <2>3. QED BY <2>1, <2>2 DEF Parts, Text
<1>6. bare(x \o FlattenSeq(y)) = bare(x) \o bare(FlattenSeq(y))
  BY <1>1, <1>5, BareConcat
<1>7. QED BY <1>1, <1>3, <1>4, <1>5, <1>6 DEF x, y

\* What the lexer reads of the line from p on spells the rest of the line.
LEMMA LexerSpells ==
  ASSUME NEW input \in Text
  PROVE  bare(FlattenSeq(spelt(handleInput(input)))) = bare(input)
<1> DEFINE L == CHOOSE L : L = [p \in 1 .. Len(input) + 1 |-> LexStep(input, L, p)]
           N == Len(input) + 1
           M == Len(input)
           Spells(p) == L[p] \in Seq(Tok)
                        /\ bare(FlattenSeq(spelt(L[p]))) = bare(SubSeq(input, p, M))
           S == {p \in 1 .. N : Spells(p)}
<1>0. /\ N \in Nat /\ 1 \in 1 .. N /\ M \in Nat /\ N = M + 1 /\ input \in Seq(STRING)
  BY DEF Text
<1>1. L = [p \in 1 .. Len(input) + 1 |-> LexStep(input, L, p)]
  BY LexingExists
<1>2. handleInput(input) = L[1]
  BY DEF handleInput, LexStep
<1> HIDE DEF L
<1>3. \A p \in 1 .. N : L[p] = LexStep(input, L, p)
  BY <1>1
<1>4. ASSUME NEW p \in 1 .. N, \A j \in p + 1 .. N : j \in S PROVE p \in S
  <2> SUFFICES Spells(p)
    OBVIOUS
  <2>1. L[p] = LexStep(input, L, p)
    BY <1>3
  <2>2. CASE p > M
    <3> DEFINE t == Token("EOF", <<>>)
    <3>1. L[p] = <<t>> BY <2>1, <2>2 DEF LexStep
    <3>2. t \in Tok /\ t.value = <<>>
      <4>1. "EOF" \in TokenType /\ <<>> \in Text BY DEF TokenType, Text
      <4>2. QED BY <4>1 DEF Token, Tok
    <3> HIDE DEF t
    <3>3. <<t>> \in Seq(Tok) BY <3>2
    <3>4. FlattenSeq(spelt(<<t>>)) = <<>>
      <4>1. DOMAIN <<t>> = 1 .. 1 /\ <<t>>[1] = t OBVIOUS
      <4> DEFINE y == spelt(<<t>>)
                 e == <<>>
      <4>2. y = [i \in 1 .. 1 |-> <<t>>[i].value] BY <4>1 DEF spelt
      <4> HIDE DEF y
      <4>3. y = <<e>> BY <3>2, <4>1, <4>2
      <4> HIDE DEF e
      <4>4. FlattenSeq(y) = e BY <4>3, FlattenOne
      <4>5. QED BY <4>4 DEF y, e
    <3>5. SubSeq(input, p, M) = <<>>
      BY <1>0, <2>2
    <3>6. QED BY <3>1, <3>3, <3>4, <3>5
  <2>3. CASE ~(p > M)
    <3> DEFINE e == tokenEnd(input, p)
               t == tokenAt(input, p)
    <3>1. p \in 1 .. M /\ p \in Nat /\ 1 <= p /\ p <= p + 1 /\ p + 1 \in Nat /\ p + 1 <= M + 1
          /\ (p + 1) - 1 = p /\ M <= Len(input)
      BY <1>0, <2>3
    <3>2. e \in p + 1 .. N BY <3>1, TokenEnd
    <3>3. t \in Tok BY <3>1, TokenAt
    <3>4. bare(t.value) = bare(SubSeq(input, p, e - 1)) BY <3>1, TokenSpan
    <3>5. L[p] = IF input[p] \in Space THEN L[p + 1] ELSE <<t>> \o L[e]
      BY <2>1, <2>3 DEF LexStep
    <3> HIDE DEF e, t
    <3>6. p + 1 \in p + 1 .. N BY <1>0, <3>1
    <3>7. Spells(e) /\ Spells(p + 1) BY <1>4, <3>2, <3>6
    <3>8. CASE input[p] \in Space
      <4> DEFINE r == SubSeq(input, p + 1, M)
                 c == input[p]
      <4>1. L[p] = L[p + 1] BY <3>5, <3>8
      <4>2. r \in Text /\ SubSeq(input, p, M) = <<c>> \o r
        <5>1. r \in Seq(STRING) /\ SubSeq(input, p, M) = SubSeq(input, p, (p + 1) - 1) \o r
          BY <1>0, <3>1, SplitPart
        <5>2. SubSeq(input, p, p) = <<c>> BY <1>0, <3>1, OnePart
        <5>3. QED BY <3>1, <5>1, <5>2 DEF Text
      <4>3. c \in STRING /\ c \in (Space \cup {"'"}) BY <1>0, <3>1, <3>8, OnePart
      <4> HIDE DEF r, c
      <4>4. bare(<<c>> \o r) = bare(r) BY <4>2, <4>3, BareSkips
      <4>5. QED BY <3>7, <4>1, <4>2, <4>4 DEF r
    <3>9. CASE input[p] \notin Space
      <4> DEFINE r == SubSeq(input, e, M)
                 x == SubSeq(input, p, e - 1)
      <4>1. L[p] = <<t>> \o L[e] BY <3>5, <3>9
      <4>2. r \in Text /\ x \in Text /\ SubSeq(input, p, M) = x \o r
        <5>1. e \in Nat /\ p <= e /\ e <= M + 1 BY <1>0, <3>1, <3>2
        <5>2. r \in Seq(STRING) /\ x \in Seq(STRING) /\ SubSeq(input, p, M) = x \o r
          <6>1. input \in Seq(STRING) /\ p \in Nat /\ e \in Nat /\ M \in Nat
                /\ 1 <= p /\ p <= e /\ e <= M + 1 /\ M <= Len(input)
            BY <1>0, <3>1, <5>1
          <6> HIDE DEF M
          <6>2. /\ SubSeq(input, p, e - 1) \in Seq(STRING) /\ SubSeq(input, e, M) \in Seq(STRING)
                /\ SubSeq(input, p, M) = SubSeq(input, p, e - 1) \o SubSeq(input, e, M)
            BY ONLY <6>1, SplitPart
          <6>3. QED BY <6>2
        <5>3. QED BY <5>2 DEF Text
      <4> DEFINE l == L[e]
      <4>3. l \in Seq(Tok) /\ bare(FlattenSeq(spelt(l))) = bare(r) BY <3>7
      <4>4. bare(t.value) = bare(x) BY <3>4
      <4> HIDE DEF r, x, l
      <4>5. bare(x \o r) = bare(x) \o bare(r) BY <4>2, BareConcat
      <4>6. bare(FlattenSeq(spelt(<<t>> \o l))) = bare(t.value) \o bare(FlattenSeq(spelt(l)))
        BY <3>3, <4>3, SpeltMore
      <4>7. <<t>> \o l \in Seq(Tok)
        <5>1. <<t>> \in Seq(Tok) BY <3>3, OneOf
        <5>2. QED BY <4>3, <5>1, ConcatAt
      <4>8. L[p] = <<t>> \o l BY <4>1 DEF l
      <4>9. QED BY <4>2, <4>3, <4>4, <4>5, <4>6, <4>7, <4>8
    <3>10. QED BY <3>8, <3>9
  <2>4. QED BY <2>2, <2>3
<1>5. 1 .. N \subseteq S
  <2> HIDE DEF S, N
  <2>1. QED BY <1>0, <1>4, DownInduction
<1>6. Spells(1)
  BY <1>0, <1>5
<1>7. SubSeq(input, 1, M) = input
  BY <1>0
<1>8. QED BY <1>2, <1>6, <1>7

\* The lexer loses nothing: on every line the program can be given, mistyped ones
\* included, the tokens' texts spell the line up to its spaces and its quotes.
THEOREM LexerFaithful ==
  Spec => []LexFaithful
<1>1. EngineInv => LexFaithful
  BY LexerSpells DEF EngineInv, LexFaithful
<1>2. QED BY <1>1, EngineCorrect, PTL

-------------------------------------------------------------------------------
(* The parser keeps the words of a line *)

\* A word of a line.
Word == Text \cup {spelling[k] : k \in Keyword}

\* A[i] are the words of the first i tokens.
SoFar(toks, A) ==
  /\ A[0] = <<>>
  /\ \A i \in 1 .. Len(toks) : A[i] = A[i - 1] \o WordOf(toks[i])
  /\ \A i \in 0 .. Len(toks) : A[i] \in Seq(Word)

\* A symbol's token has the symbol as its text.
SymbolTok(t) ==
  /\ t.type = "LPAREN" => t.value = <<"(">>
  /\ t.type = "RPAREN" => t.value = <<")">>
  /\ t.type = "STAR" => t.value = <<"*">>
  /\ t.type = "EQUALS" => t.value = <<"=">>

\* The word of a token.
LEMMA WordIs ==
  ASSUME NEW t \in Tok
  PROVE  /\ t.type \in Keyword => WordOf(t) = <<spelling[t.type]>>
         /\ t.type \in {"IDENTIFIER", "NUMBER", "STRING", "LPAREN", "RPAREN", "STAR", "EQUALS"}
              => WordOf(t) = <<t.value>>
         /\ t.type = "COMMA" => WordOf(t) = <<>>
         /\ WordOf(t) \in Seq(Word)
<1>1. "COMMA" \notin Keyword
  BY DEF Keyword
<1>2. {"IDENTIFIER", "NUMBER", "STRING", "LPAREN", "RPAREN", "STAR", "EQUALS"} \cap Keyword = {}
  BY DEF Keyword
<1>3. t.value \in Word /\ \A k \in Keyword : spelling[k] \in Word
  BY DEF Word, Tok
<1>4. WordOf(t) \in Seq(Word)
  <2> DEFINE w == IF t.type \in Keyword THEN spelling[t.type] ELSE t.value
  <2>1. w \in Word BY <1>3
  <2>2. WordOf(t) = IF t.type = "COMMA" THEN <<>> ELSE <<w>> BY DEF WordOf
  <2> HIDE DEF w
  <2>3. <<w>> \in Seq(Word) /\ <<>> \in Seq(Word)
    <3>1. <<w>> \in Seq(Word) BY <2>1, OneOf
    <3>2. QED BY <3>1
  <2>4. QED BY <2>2, <2>3
<1>5. t.type \in Keyword => WordOf(t) = <<spelling[t.type]>>
  BY <1>1 DEF WordOf
<1>6. t.type \in {"IDENTIFIER", "NUMBER", "STRING", "LPAREN", "RPAREN", "STAR", "EQUALS"}
              => WordOf(t) = <<t.value>>
  BY <1>2 DEF WordOf
<1>7. t.type = "COMMA" => WordOf(t) = <<>>
  BY DEF WordOf
<1>8. QED BY <1>4, <1>5, <1>6, <1>7

\* The words of a line, token by token.
LEMMA SoFarExists ==
  ASSUME NEW toks \in Tokens
  PROVE  \E A : SoFar(toks, A) /\ Words(toks) = A[Len(toks)]
<1>1. toks \in Seq(Tok) /\ Len(toks) \in Nat /\ DOMAIN toks = 1 .. Len(toks)
  BY DEF Tokens
<1> DEFINE n == Len(toks)
           f == [i \in 1 .. n |-> WordOf(toks[i])]
           T == Seq(Word)
<1>2. \A i \in 1 .. n : WordOf(toks[i]) \in T
  BY <1>1, ElementOfSeq, WordIs
<1>3. Words(toks) = FlattenSeq(f)
  BY <1>1 DEF Words
<1> HIDE DEF T
<1>4. f \in Seq(T) /\ Len(f) = n /\ \A i \in 1 .. n : f[i] = WordOf(toks[i])
  BY <1>1, <1>2
<1> HIDE DEF f
<1>5. f \in Seq(Seq(Word))
  BY <1>4 DEF T
<1>6. PICK A : Parts(Word, f, A) /\ FlattenSeq(f) = A[Len(f)]
  BY <1>5, FlattenParts
<1>7. SoFar(toks, A)
  BY <1>4, <1>6 DEF Parts, SoFar
<1>8. QED BY <1>3, <1>4, <1>6, <1>7

\* What was said stays at the start of what is said later.
LEMMA PrefixOfMore ==
  ASSUME NEW S, NEW a \in Seq(S), NEW b \in Seq(S)
  PROVE  IsPrefix(a, a \o b)
<1> DEFINE c == a \o b
<1>1. c \in Seq(S) /\ Len(c) = Len(a) + Len(b) /\ \A k \in 1 .. Len(a) : c[k] = a[k]
  BY ConcatAt
<1>2. Len(a) \in Nat /\ Len(b) \in Nat
  OBVIOUS
<1> HIDE DEF c
<1>3. /\ SubSeq(c, 1, Len(a)) \in Seq(S) /\ Len(SubSeq(c, 1, Len(a))) = Len(a) - 1 + 1
      /\ \A i \in 1 .. Len(a) - 1 + 1 : SubSeq(c, 1, Len(a))[i] = c[1 + i - 1]
  BY <1>1, <1>2, PartOf
<1>4. SubSeq(a, 1, Len(a)) = a
  OBVIOUS
<1> DEFINE d == SubSeq(c, 1, Len(a))
<1>5. d \in Seq(S) /\ Len(d) = Len(a) /\ \A i \in 1 .. Len(a) : d[i] = a[i]
  BY <1>1, <1>2, <1>3
<1> HIDE DEF d
<1>6. d = a
  BY <1>5
<1>7. Len(a) <= Len(c)
  BY <1>1, <1>2
<1>8. QED BY <1>4, <1>6, <1>7 DEF IsPrefix, c, d

LEMMA SoFarPrefix ==
  ASSUME NEW toks \in Tokens, NEW A, SoFar(toks, A), NEW p \in 0 .. Len(toks)
  PROVE  IsPrefix(A[p], A[Len(toks)])
<1> DEFINE n == Len(toks)
           SaidOn(i) == \E b \in Seq(Word) : A[i] = A[p] \o b
           K == {k \in Nat : p + k <= n => SaidOn(p + k)}
<1>0. n \in Nat /\ p \in Nat
  BY DEF Tokens
<1>1. A[p] \in Seq(Word)
  BY DEF SoFar
<1>2. 0 \in K
  <2>1. A[p] = A[p] \o <<>> /\ <<>> \in Seq(Word) BY <1>1
  <2>2. SaidOn(p) BY <2>1
  <2> HIDE DEF SaidOn
  <2>3. p + 0 = p BY <1>0
  <2>4. QED BY <2>2, <2>3
<1>3. ASSUME NEW k \in Nat, k \in K PROVE k + 1 \in K
  <2> SUFFICES ASSUME p + (k + 1) <= n PROVE SaidOn(p + (k + 1))
    OBVIOUS
  <2> DEFINE i == p + (k + 1)
  <2>1. i \in 1 .. n /\ i - 1 = p + k /\ p + k <= n
    BY <1>0
  <2> HIDE DEF i
  <2>2. PICK b \in Seq(Word) : A[i - 1] = A[p] \o b
    BY <1>3, <2>1
  <2> DEFINE w == WordOf(toks[i])
  <2>3. w \in Seq(Word)
    <3>1. toks[i] \in Tok BY <2>1, TokenText
    <3>2. QED BY <3>1, WordIs
  <2>4. A[i] = A[i - 1] \o w
    BY <2>1 DEF SoFar
  <2> HIDE DEF w
  <2> DEFINE x == A[p]
  <2>5. x \in Seq(Word) BY <1>1
  <2>6. A[i] = (x \o b) \o w BY <2>2, <2>4
  <2> HIDE DEF x
  <2>7. (x \o b) \o w = x \o (b \o w) /\ b \o w \in Seq(Word)
    <3>1. (x \o b) \o w = x \o (b \o w) BY ONLY <2>3, <2>5, b \in Seq(Word), Assoc, SMTT(30)
    <3>2. b \o w \in Seq(Word) BY <2>3, ConcatAt
    <3>3. QED BY <3>1, <3>2
  <2>8. SaidOn(i) BY <2>6, <2>7 DEF x
  <2>9. QED BY <2>8 DEF i
<1>4. Nat \subseteq K
  <2> HIDE DEF K
  <2>1. QED BY <1>2, <1>3, SetInduction
<1>5. SaidOn(n)
  <2> HIDE DEF SaidOn
  <2>1. n - p \in Nat /\ p + (n - p) = n BY <1>0
  <2>2. n - p \in K BY <1>4, <2>1
  <2>3. QED BY <2>1, <2>2
<1>6. PICK b \in Seq(Word) : A[n] = A[p] \o b
  BY <1>5
<1> DEFINE x == A[p]
<1>7. x \in Seq(Word) BY <1>1
<1> HIDE DEF x
<1>8. IsPrefix(x, x \o b) BY <1>7, PrefixOfMore
<1>9. QED BY <1>6, <1>8 DEF x

\* expect looks at these tokens.
LEMMA Expect1 ==
  ASSUME NEW toks, NEW p \in Nat, NEW a, expect(toks, p, <<a>>)
  PROVE  p <= Len(toks) /\ toks[p].type = a
<1> DEFINE types == <<a>>
<1>1. Len(types) = 1 /\ DOMAIN types = 1 .. 1 /\ types[1] = a
  OBVIOUS
<1>2. expect(toks, p, types)
  OBVIOUS
<1> HIDE DEF types
<1>3. /\ p + 1 - 1 <= Len(toks)
      /\ \A i \in 1 .. 1 : toks[p + i - 1].type = types[i]
  <2>1. /\ p + Len(types) - 1 <= Len(toks)
        /\ \A i \in DOMAIN types : toks[p + i - 1].type = types[i]
    BY <1>2 DEF expect
  <2>2. QED BY <1>1, <2>1
<1>4. toks[p + 1 - 1].type = a
  BY <1>1, <1>3
<1>5. p + 1 - 1 = p
  OBVIOUS
<1>6. QED BY <1>3, <1>4, <1>5

LEMMA Expect2 ==
  ASSUME NEW toks, NEW p \in Nat, NEW a, NEW b, expect(toks, p, <<a, b>>)
  PROVE  p + 1 <= Len(toks) /\ toks[p].type = a /\ toks[p + 1].type = b
<1> DEFINE types == <<a, b>>
<1>1. Len(types) = 2 /\ DOMAIN types = 1 .. 2 /\ types[1] = a /\ types[2] = b
  OBVIOUS
<1>2. expect(toks, p, types)
  OBVIOUS
<1> HIDE DEF types
<1>3. /\ p + 2 - 1 <= Len(toks)
      /\ \A i \in 1 .. 2 : toks[p + i - 1].type = types[i]
  <2>1. /\ p + Len(types) - 1 <= Len(toks)
        /\ \A i \in DOMAIN types : toks[p + i - 1].type = types[i]
    BY <1>2 DEF expect
  <2>2. QED BY <1>1, <2>1
<1>4. toks[p + 1 - 1].type = a /\ toks[p + 2 - 1].type = b
  BY <1>1, <1>3
<1>5. p + 1 - 1 = p /\ p + 2 - 1 = p + 1
  OBVIOUS
<1>6. QED BY <1>3, <1>4, <1>5

LEMMA Expect3 ==
  ASSUME NEW toks, NEW p \in Nat, NEW a, NEW b, NEW c, expect(toks, p, <<a, b, c>>)
  PROVE  p + 2 <= Len(toks) /\ toks[p].type = a /\ toks[p + 1].type = b /\ toks[p + 2].type = c
<1> DEFINE types == <<a, b, c>>
<1>0. Len(types) = 3 /\ DOMAIN types = 1 .. 3 /\ expect(toks, p, types)
  OBVIOUS
<1>2. types[1] = a /\ types[2] = b /\ types[3] = c
  OBVIOUS
<1> HIDE DEF types
<1>1. /\ p + 3 - 1 <= Len(toks)
      /\ \A i \in 1 .. 3 : toks[p + i - 1].type = types[i]
  <2>1. /\ p + Len(types) - 1 <= Len(toks)
        /\ \A i \in DOMAIN types : toks[p + i - 1].type = types[i]
    BY <1>0 DEF expect
  <2>2. QED BY <1>0, <2>1
<1>3. toks[p + 1 - 1].type = a /\ toks[p + 2 - 1].type = b /\ toks[p + 3 - 1].type = c
  BY <1>1, <1>2
<1>4. p + 1 - 1 = p /\ p + 2 - 1 = p + 1 /\ p + 3 - 1 = p + 2
  OBVIOUS
<1>5. QED BY <1>1, <1>3, <1>4

LEMMA Expect4 ==
  ASSUME NEW toks, NEW a, NEW b, NEW c, NEW d, expect(toks, 1, <<a, b, c, d>>)
  PROVE  4 <= Len(toks) /\ toks[1].type = a /\ toks[2].type = b /\ toks[3].type = c /\ toks[4].type = d
<1> DEFINE types == <<a, b, c, d>>
<1>0. Len(types) = 4 /\ DOMAIN types = 1 .. 4 /\ expect(toks, 1, types)
  OBVIOUS
<1>2. types[1] = a /\ types[2] = b /\ types[3] = c /\ types[4] = d
  OBVIOUS
<1> HIDE DEF types
<1>1. /\ 1 + 4 - 1 <= Len(toks)
      /\ \A i \in 1 .. 4 : toks[1 + i - 1].type = types[i]
  <2>1. /\ 1 + Len(types) - 1 <= Len(toks)
        /\ \A i \in DOMAIN types : toks[1 + i - 1].type = types[i]
    BY <1>0 DEF expect
  <2>2. QED BY <1>0, <2>1
<1>3. \A i \in 1 .. 4 : toks[i].type = types[i]
  <2>1. \A i \in 1 .. 4 : 1 + i - 1 = i OBVIOUS
  <2>2. QED BY <1>1, <2>1
<1>4. 4 <= Len(toks)
  BY <1>1
<1>5. QED BY <1>2, <1>3, <1>4

LEMMA Expect5 ==
  ASSUME NEW toks, NEW a, NEW b, NEW c, NEW d, NEW e, expect(toks, 1, <<a, b, c, d, e>>)
  PROVE  5 <= Len(toks) /\ toks[1].type = a /\ toks[2].type = b /\ toks[3].type = c
         /\ toks[4].type = d /\ toks[5].type = e
<1> DEFINE types == <<a, b, c, d, e>>
<1>0. Len(types) = 5 /\ DOMAIN types = 1 .. 5 /\ expect(toks, 1, types)
  OBVIOUS
<1>2. types[1] = a /\ types[2] = b /\ types[3] = c /\ types[4] = d /\ types[5] = e
  OBVIOUS
<1> HIDE DEF types
<1>1. /\ 1 + 5 - 1 <= Len(toks)
      /\ \A i \in 1 .. 5 : toks[1 + i - 1].type = types[i]
  <2>1. /\ 1 + Len(types) - 1 <= Len(toks)
        /\ \A i \in DOMAIN types : toks[1 + i - 1].type = types[i]
    BY <1>0 DEF expect
  <2>2. QED BY <1>0, <2>1
<1>3. \A i \in 1 .. 5 : toks[i].type = types[i]
  <2>1. \A i \in 1 .. 5 : 1 + i - 1 = i OBVIOUS
  <2>2. QED BY <1>1, <2>1
<1>4. 5 <= Len(toks)
  BY <1>1
<1>5. QED BY <1>2, <1>3, <1>4

\* The text of a symbol's token is the symbol.
LEMMA SymbolAt ==
  ASSUME NEW input \in Text, NEW p \in 1 .. Len(input)
  PROVE  SymbolTok(tokenAt(input, p))
<1> DEFINE c == input[p]
           t == tokenAt(input, p)
           word == SubSeq(input, p, runEnd(input, p, Letter \cup Digit) - 1)
<1>1. \A type, value : Token(type, value).type = type /\ Token(type, value).value = value
  BY DEF Token
<1>2. \/ c \in Symbol /\ t = Token(symbolType[c], <<c>>)
      \/ \E value : t = Token("STRING", value) \/ t = Token("NUMBER", value) \/ t = Token("UNKNOWN", value)
      \/ t = Token(keywordType(word), word)
  BY DEF tokenAt, stringAt
<1>3. keywordType(word) \in Keyword \cup {"IDENTIFIER"}
  <2> DEFINE same == {k \in Keyword : spelling[k] = toUpper(word)}
  <2>1. keywordType(word) = IF same = {} THEN "IDENTIFIER" ELSE CHOOSE k \in same : TRUE
    BY DEF keywordType
  <2>2. same \subseteq Keyword
    OBVIOUS
  <2> HIDE DEF same
  <2>3. same # {} => (CHOOSE k \in same : TRUE) \in Keyword
    BY <2>2
  <2>4. QED BY <2>1, <2>3
<1>4. {"LPAREN", "RPAREN", "STAR", "EQUALS"}
        \cap (Keyword \cup {"IDENTIFIER", "STRING", "NUMBER", "UNKNOWN"}) = {}
  BY DEF Keyword
<1>5. /\ c \in Symbol /\ symbolType[c] = "LPAREN" => c = "("
      /\ c \in Symbol /\ symbolType[c] = "RPAREN" => c = ")"
      /\ c \in Symbol /\ symbolType[c] = "STAR" => c = "*"
      /\ c \in Symbol /\ symbolType[c] = "EQUALS" => c = "="
  BY DEF symbolType, Symbol
<1> HIDE DEF t, c, word
<1>6. CASE c \in Symbol /\ t = Token(symbolType[c], <<c>>)
  <2>1. t.type = symbolType[c] /\ t.value = <<c>> BY <1>1, <1>6
  <2>2. SymbolTok(t) BY <1>5, <1>6, <2>1 DEF SymbolTok
  <2>3. QED BY <2>2 DEF t
<1>7. CASE ~(c \in Symbol /\ t = Token(symbolType[c], <<c>>))
  <2>1. t.type \in Keyword \cup {"IDENTIFIER", "STRING", "NUMBER", "UNKNOWN"}
    BY <1>1, <1>2, <1>3, <1>7
  <2>2. SymbolTok(t)
    BY <1>4, <2>1 DEF SymbolTok
  <2>3. QED BY <2>2 DEF t
<1>8. QED BY <1>6, <1>7

LEMMA SymbolTokens ==
  ASSUME NEW input \in Text, NEW toks, toks = handleInput(input)
  PROVE  \A i \in 1 .. Len(toks) : SymbolTok(toks[i])
<1> DEFINE L == CHOOSE L : L = [p \in 1 .. Len(input) + 1 |-> LexStep(input, L, p)]
           N == Len(input) + 1
           Good == {t \in Tok : SymbolTok(t)}
           S == {p \in 1 .. N : L[p] \in Seq(Good)}
<1>0. N \in Nat /\ 1 \in 1 .. N /\ Len(input) \in Nat
  BY DEF Text
<1>1. L = [p \in 1 .. Len(input) + 1 |-> LexStep(input, L, p)]
  BY LexingExists
<1>2. handleInput(input) = L[1]
  BY DEF handleInput, LexStep
<1> HIDE DEF L
<1>3. \A p \in 1 .. N : L[p] = LexStep(input, L, p)
  BY <1>1
<1>4. ASSUME NEW p \in 1 .. N, \A j \in p + 1 .. N : j \in S PROVE p \in S
  <2> SUFFICES L[p] \in Seq(Good)
    OBVIOUS
  <2>1. L[p] = LexStep(input, L, p)
    BY <1>3
  <2>2. CASE p > Len(input)
    <3> DEFINE t == Token("EOF", <<>>)
    <3>1. L[p] = <<t>> BY <2>1, <2>2 DEF LexStep
    <3>2. t \in Tok /\ SymbolTok(t)
      <4>1. "EOF" \in TokenType /\ <<>> \in Text BY DEF TokenType, Text
      <4>2. t \in Tok BY <4>1 DEF Token, Tok
      <4>3. t.type = "EOF" BY DEF Token
      <4> HIDE DEF t
      <4>4. QED BY <4>2, <4>3 DEF SymbolTok
    <3>3. t \in Good BY <3>2
    <3> HIDE DEF t, Good
    <3>4. QED BY <3>1, <3>3, OneOf
  <2>3. CASE ~(p > Len(input))
    <3> DEFINE e == tokenEnd(input, p)
               t == tokenAt(input, p)
    <3>1. p \in 1 .. Len(input) BY <1>0, <2>3
    <3>2. e \in p + 1 .. N BY <3>1, TokenEnd
    <3>3. t \in Good BY <3>1, TokenAt, SymbolAt
    <3>4. p + 1 \in p + 1 .. N BY <1>0, <3>1
    <3>5. L[p] = L[p + 1] \/ L[p] = <<t>> \o L[e]
      BY <2>1, <2>3 DEF LexStep
    <3> HIDE DEF e, t
    <3>6. L[e] \in Seq(Good) /\ L[p + 1] \in Seq(Good) BY <1>4, <3>2, <3>4
    <3> HIDE DEF Good
    <3>7. <<t>> \o L[e] \in Seq(Good)
      <4>1. <<t>> \in Seq(Good) BY <3>3, OneOf
      <4>2. QED BY <3>6, <4>1, ConcatAt
    <3>8. QED BY <3>5, <3>6, <3>7
  <2>4. QED BY <2>2, <2>3
<1>5. 1 .. N \subseteq S
  <2> HIDE DEF S, N
  <2>1. QED BY <1>0, <1>4, DownInduction
<1>6. toks \in Seq(Good)
  BY <1>0, <1>2, <1>5
<1>7. \A i \in 1 .. Len(toks) : toks[i] \in Good
  <2> HIDE DEF Good
  <2>1. QED BY <1>6, ElementOfSeq
<1>8. QED BY <1>7

\* One more word.
LEMMA Says ==
  ASSUME NEW toks \in Tokens, NEW A, SoFar(toks, A), NEW p \in 1 .. Len(toks)
  PROVE  /\ toks[p].type \in Keyword => A[p] = A[p - 1] \o <<spelling[toks[p].type]>>
         /\ toks[p].type \in {"IDENTIFIER", "NUMBER", "STRING", "LPAREN", "RPAREN", "STAR", "EQUALS"}
              => A[p] = A[p - 1] \o <<toks[p].value>>
         /\ toks[p].type = "COMMA" => A[p] = A[p - 1]
         /\ A[p] \in Seq(Word) /\ A[p - 1] \in Seq(Word)
         /\ toks[p].value \in Word /\ \A k \in Keyword : spelling[k] \in Word
<1>0. toks[p] \in Tok /\ Len(toks) \in Nat /\ toks[p].value \in Text
  BY TokenText DEF Tokens
<1>1. A[p] = A[p - 1] \o WordOf(toks[p])
  BY DEF SoFar
<1>2. A[p] \in Seq(Word) /\ A[p - 1] \in Seq(Word)
  <2>1. p \in 0 .. Len(toks) /\ p - 1 \in 0 .. Len(toks) BY <1>0
  <2>2. QED BY <2>1 DEF SoFar
<1>3. A[p - 1] \o <<>> = A[p - 1]
  BY <1>2
<1>4. toks[p].value \in Word /\ \A k \in Keyword : spelling[k] \in Word
  BY <1>0 DEF Word
<1> DEFINE t == toks[p]
<1>5. /\ t.type \in Keyword => WordOf(t) = <<spelling[t.type]>>
      /\ t.type \in {"IDENTIFIER", "NUMBER", "STRING", "LPAREN", "RPAREN", "STAR", "EQUALS"}
           => WordOf(t) = <<t.value>>
      /\ t.type = "COMMA" => WordOf(t) = <<>>
  BY <1>0, WordIs
<1> HIDE DEF t
<1>6. A[p] = A[p - 1] \o WordOf(t)
  BY <1>1 DEF t
<1>7. /\ t.type \in Keyword => A[p] = A[p - 1] \o <<spelling[t.type]>>
      /\ t.type \in {"IDENTIFIER", "NUMBER", "STRING", "LPAREN", "RPAREN", "STAR", "EQUALS"}
           => A[p] = A[p - 1] \o <<t.value>>
      /\ t.type = "COMMA" => A[p] = A[p - 1]
  BY <1>3, <1>5, <1>6
<1>8. QED BY <1>2, <1>4, <1>7 DEF t

\* Words one after the other.
LEMMA GrowsTo ==
  ASSUME NEW S, NEW s \in Seq(S), NEW x \in S, NEW t \in Seq(S), Len(t) = Len(s) + 1,
         \A i \in 1 .. Len(s) : t[i] = s[i], t[Len(s) + 1] = x
  PROVE  s \o <<x>> = t
<1> DEFINE y == <<x>>
           c == s \o y
<1>1. y \in Seq(S) /\ Len(y) = 1 /\ y[1] = x /\ Len(s) \in Nat
  BY OneOf
<1> HIDE DEF y
<1>2. /\ c \in Seq(S) /\ Len(c) = Len(s) + Len(y)
      /\ \A k \in 1 .. Len(s) : c[k] = s[k]
      /\ \A k \in 1 .. Len(y) : c[Len(s) + k] = y[k]
  <2>1. y \in Seq(S) BY <1>1
  <2>2. QED BY ONLY <2>1, s \in Seq(S), ConcatAt
<1> HIDE DEF c
<1>3. c \in Seq(S) /\ Len(c) = Len(s) + 1 /\ c[Len(s) + 1] = x /\ \A k \in 1 .. Len(s) : c[k] = s[k]
  BY <1>1, <1>2
<1>4. \A i \in 1 .. Len(s) + 1 : c[i] = t[i]
  BY <1>1, <1>3
<1>5. c = t
  BY <1>3, <1>4
<1>6. QED BY <1>5 DEF c, y

LEMMA Grow1 ==
  ASSUME NEW a
  PROVE  <<>> \o <<a>> = <<a>>
OBVIOUS

LEMMA Grow2 ==
  ASSUME NEW a, NEW b
  PROVE  <<a>> \o <<b>> = <<a, b>>
<1> DEFINE S == {a, b}
           s == <<a>>
           t == <<a, b>>
<1>1. s \in Seq(S) /\ Len(s) = 1 /\ s[1] = a
  OBVIOUS
<1>2. t \in Seq(S) /\ Len(t) = 2 /\ t[1] = a /\ t[2] = b
  OBVIOUS
<1>3. b \in S
  OBVIOUS
<1> HIDE DEF S, s, t
<1>4. \A i \in 1 .. Len(s) : t[i] = s[i]
  BY <1>1, <1>2
<1>5. s \o <<b>> = t
  <2>1. s \in Seq(S) /\ t \in Seq(S) /\ Len(t) = Len(s) + 1 /\ t[Len(s) + 1] = b
    BY <1>1, <1>2
  <2>2. QED BY ONLY <1>3, <1>4, <2>1, GrowsTo
<1>6. QED BY <1>5 DEF s, t

LEMMA Grow3 ==
  ASSUME NEW a, NEW b, NEW c
  PROVE  <<a, b>> \o <<c>> = <<a, b, c>>
<1> DEFINE S == {a, b, c}
           s == <<a, b>>
           t == <<a, b, c>>
<1>1. s \in Seq(S) /\ Len(s) = 2 /\ s[1] = a /\ s[2] = b
  OBVIOUS
<1>2. t \in Seq(S) /\ Len(t) = 3 /\ t[1] = a /\ t[2] = b /\ t[3] = c
  OBVIOUS
<1>3. c \in S
  OBVIOUS
<1> HIDE DEF S, s, t
<1>4. \A i \in 1 .. Len(s) : t[i] = s[i]
  BY <1>1, <1>2
<1>5. s \o <<c>> = t
  <2>1. s \in Seq(S) /\ t \in Seq(S) /\ Len(t) = Len(s) + 1 /\ t[Len(s) + 1] = c
    BY <1>1, <1>2
  <2>2. QED BY ONLY <1>3, <1>4, <2>1, GrowsTo
<1>6. QED BY <1>5 DEF s, t

LEMMA Grow4 ==
  ASSUME NEW a, NEW b, NEW c, NEW d
  PROVE  <<a, b, c>> \o <<d>> = <<a, b, c, d>>
<1> DEFINE S == {a, b, c, d}
           s == <<a, b, c>>
           t == <<a, b, c, d>>
<1>1. s \in Seq(S) /\ Len(s) = 3 /\ s[1] = a /\ s[2] = b /\ s[3] = c
  OBVIOUS
<1>2. t \in Seq(S) /\ Len(t) = 4 /\ t[1] = a /\ t[2] = b /\ t[3] = c /\ t[4] = d
  OBVIOUS
<1>3. d \in S
  OBVIOUS
<1> HIDE DEF S, s, t
<1>4. \A i \in 1 .. Len(s) : t[i] = s[i]
  BY <1>1, <1>2
<1>5. s \o <<d>> = t
  <2>1. s \in Seq(S) /\ t \in Seq(S) /\ Len(t) = Len(s) + 1 /\ t[Len(s) + 1] = d
    BY <1>1, <1>2
  <2>2. QED BY ONLY <1>3, <1>4, <2>1, GrowsTo
<1>6. QED BY <1>5 DEF s, t

LEMMA Grow5 ==
  ASSUME NEW a, NEW b, NEW c, NEW d, NEW e
  PROVE  <<a, b, c, d>> \o <<e>> = <<a, b, c, d, e>>
<1> DEFINE S == {a, b, c, d, e}
           s == <<a, b, c, d>>
           t == <<a, b, c, d, e>>
<1>1. s \in Seq(S) /\ Len(s) = 4 /\ s[1] = a /\ s[2] = b /\ s[3] = c /\ s[4] = d
  OBVIOUS
<1>2. t \in Seq(S) /\ Len(t) = 5 /\ t[1] = a /\ t[2] = b /\ t[3] = c /\ t[4] = d /\ t[5] = e
  OBVIOUS
<1>3. e \in S
  OBVIOUS
<1> HIDE DEF S, s, t
<1>4. \A i \in 1 .. Len(s) : t[i] = s[i]
  BY <1>1, <1>2
<1>5. s \o <<e>> = t
  <2>1. s \in Seq(S) /\ t \in Seq(S) /\ Len(t) = Len(s) + 1 /\ t[Len(s) + 1] = e
    BY <1>1, <1>2
  <2>2. QED BY ONLY <1>3, <1>4, <2>1, GrowsTo
<1>6. QED BY <1>5 DEF s, t

LEMMA TwoMore ==
  ASSUME NEW S, NEW s \in Seq(S), NEW a \in S, NEW b \in S
  PROVE  (s \o <<a>>) \o <<b>> = s \o <<a, b>>
<1> DEFINE x == <<a>>
           y == <<b>>
<1>1. x \in Seq(S) /\ y \in Seq(S) /\ x \o y = <<a, b>>
  <2>1. x \in Seq(S) /\ y \in Seq(S) BY OneOf
  <2>2. x \o y = <<a, b>> BY Grow2
  <2>3. QED BY <2>1, <2>2
<1> HIDE DEF x, y
<1>2. (s \o x) \o y = s \o (x \o y)
  <2>1. x \in Seq(S) /\ y \in Seq(S) BY <1>1
  <2>2. QED BY ONLY <2>1, s \in Seq(S), Assoc, SMTT(30)
<1>3. QED BY <1>1, <1>2 DEF x, y

FourWords(s, a, b, c, d) ==
  (((s \o <<a>>) \o <<b>>) \o <<c>>) \o <<d>> = s \o <<a, b, c, d>>

LEMMA FourMore ==
  ASSUME NEW s \in Seq(Word), NEW a \in Word, NEW b \in Word, NEW c \in Word, NEW d \in Word
  PROVE  FourWords(s, a, b, c, d)
<1> DEFINE S == Word
           x == <<a, b>>
           y == <<c>>
           z == <<d>>
           w == <<a, b, c>>
<1>1. /\ x \in Seq(S) /\ y \in Seq(S) /\ z \in Seq(S) /\ w \in Seq(S)
      /\ x \o y = w /\ w \o z = <<a, b, c, d>>
  <2>1. y \in Seq(S) /\ z \in Seq(S) BY OneOf
  <2>2. x \in Seq(S) /\ w \in Seq(S) OBVIOUS
  <2>3. x \o y = w /\ w \o z = <<a, b, c, d>> BY Grow3, Grow4
  <2>4. QED BY <2>1, <2>2, <2>3
<1>2. (s \o <<a>>) \o <<b>> = s \o x
  BY TwoMore
<1>0. s \in Seq(S)
  OBVIOUS
<1> HIDE DEF x, y, z, w, S
<1>3. (s \o x) \o y = s \o (x \o y)
  <2>1. x \in Seq(S) /\ y \in Seq(S) BY <1>1
  <2>2. QED BY ONLY <2>1, <1>0, Assoc, SMTT(30)
<1>4. (s \o w) \o z = s \o (w \o z)
  <2>1. w \in Seq(S) /\ z \in Seq(S) BY <1>1
  <2>2. QED BY ONLY <2>1, <1>0, Assoc, SMTT(30)
<1>5. QED BY <1>1, <1>2, <1>3, <1>4 DEF y, z, FourWords

-------------------------------------------------------------------------------
(* The lists of a statement *)

\* The words of the item at p.
ItemWords(toks, width, p) ==
  IF width = 1 THEN <<toks[p].value>> ELSE <<toks[p].value, spelling[toks[p + 1].type]>>

\* The words of these items, item by item.
Said(toks, width, items) == [i \in DOMAIN items |-> ItemWords(toks, width, items[i])]

\* An item's tokens are its words.
ItemsSaid(toks, A, starts, width) ==
  \A p \in starts : /\ ItemWords(toks, width, p) \in Seq(Word)
                    /\ A[p + width - 1] = A[p - 1] \o ItemWords(toks, width, p)

LEMMA SaidType ==
  ASSUME NEW toks, NEW width, NEW starts, NEW items \in Seq(starts),
         \A p \in starts : ItemWords(toks, width, p) \in Seq(Word)
  PROVE  /\ Said(toks, width, items) \in Seq(Seq(Word))
         /\ Len(Said(toks, width, items)) = Len(items)
         /\ \A i \in 1 .. Len(items) : Said(toks, width, items)[i] = ItemWords(toks, width, items[i])
<1> DEFINE n == Len(items)
           T == Seq(Word)
           g(p) == ItemWords(toks, width, p)
           f == Said(toks, width, items)
<1>1. n \in Nat /\ DOMAIN items = 1 .. n /\ \A i \in 1 .. n : items[i] \in starts
  BY ElementOfSeq
<1>2. \A i \in 1 .. n : g(items[i]) \in T
  BY <1>1
<1>3. f = [i \in 1 .. n |-> g(items[i])]
  BY <1>1 DEF Said
<1> HIDE DEF T, g, f
<1>4. f \in Seq(T) /\ Len(f) = n /\ \A i \in 1 .. n : f[i] = g(items[i])
  BY <1>1, <1>2, <1>3
<1>5. QED BY <1>4 DEF T, g, f

\* The words of an item and those of the items behind it.
ItemsAreWords(toks, width, starts) ==
  \A q \in starts : ItemWords(toks, width, q) \in Seq(Word)

OneMoreSaid(toks, width, p, items) ==
  /\ FlattenSeq(Said(toks, width, items)) \in Seq(Word)
  /\ FlattenSeq(Said(toks, width, <<p>> \o items))
       = ItemWords(toks, width, p) \o FlattenSeq(Said(toks, width, items))

LEMMA SaidMore ==
  ASSUME NEW toks, NEW width, NEW starts, NEW items \in Seq(starts), NEW p \in starts,
         ItemsAreWords(toks, width, starts)
  PROVE  OneMoreSaid(toks, width, p, items)
<1>0. \A q \in starts : ItemWords(toks, width, q) \in Seq(Word)
  BY DEF ItemsAreWords
<1> DEFINE a == <<p>>
           c == a \o items
           n == Len(items)
           x == ItemWords(toks, width, p)
           v == <<x>>
           y == Said(toks, width, items)
           z == Said(toks, width, c)
           w == v \o y
<1>1. a \in Seq(starts) /\ Len(a) = 1 /\ a[1] = p
  BY OneOf
<1> HIDE DEF a
<1>2. /\ c \in Seq(starts) /\ Len(c) = 1 + n /\ c[1] = p
      /\ \A k \in 1 .. n : c[1 + k] = items[k]
  <2>1. a \in Seq(starts) /\ items \in Seq(starts) BY <1>1
  <2>2. /\ c \in Seq(starts) /\ Len(c) = Len(a) + n
        /\ \A k \in 1 .. Len(a) : c[k] = a[k]
        /\ \A k \in 1 .. n : c[Len(a) + k] = items[k]
    BY ONLY <2>1, ConcatAt
  <2> HIDE DEF c
  <2>3. QED BY <1>1, <2>2
<1> HIDE DEF c
<1>3. /\ z \in Seq(Seq(Word)) /\ Len(z) = Len(c)
      /\ \A i \in 1 .. Len(c) : z[i] = ItemWords(toks, width, c[i])
  BY <1>0, <1>2, SaidType
<1>4. /\ y \in Seq(Seq(Word)) /\ Len(y) = n
      /\ \A i \in 1 .. n : y[i] = ItemWords(toks, width, items[i])
  BY <1>0, SaidType
<1>5. x \in Seq(Word) /\ n \in Nat
  BY <1>0
<1> HIDE DEF y, z
<1> DEFINE T == Seq(Word)
<1>6. v \in Seq(T) /\ Len(v) = 1 /\ v[1] = x /\ y \in Seq(T) /\ z \in Seq(T)
  <2>1. x \in T BY <1>5
  <2>2. y \in Seq(T) /\ z \in Seq(T) BY <1>3, <1>4
  <2> HIDE DEF T, x
  <2>3. v \in Seq(T) /\ Len(v) = 1 /\ v[1] = x BY <2>1, OneOf
  <2>4. QED BY <2>2, <2>3
<1>7. FlattenSeq(v) = x
  BY FlattenOne
<1>8. ItemWords(toks, width, c[1]) = x
  BY <1>2
<1> HIDE DEF T, v, x
<1>9. /\ w \in Seq(T) /\ Len(w) = 1 + n /\ w[1] = x
      /\ \A k \in 1 .. n : w[1 + k] = y[k]
  <2>1. v \in Seq(T) /\ y \in Seq(T) BY <1>6
  <2>2. /\ w \in Seq(T) /\ Len(w) = Len(v) + Len(y)
        /\ \A k \in 1 .. Len(v) : w[k] = v[k]
        /\ \A k \in 1 .. Len(y) : w[Len(v) + k] = y[k]
    BY ONLY <2>1, ConcatAt
  <2> HIDE DEF w
  <2>3. QED BY <1>4, <1>6, <2>2
<1> HIDE DEF w
<1>10. ASSUME NEW i \in 1 .. 1 + n PROVE z[i] = w[i]
  <2>1. z[i] = ItemWords(toks, width, c[i]) BY <1>2, <1>3
  <2>2. CASE i = 1 BY <1>8, <1>9, <2>1, <2>2
  <2>3. CASE i # 1
    <3>1. i - 1 \in 1 .. n /\ 1 + (i - 1) = i BY <1>5, <2>3
    <3>2. c[i] = items[i - 1] /\ w[i] = y[i - 1] BY <1>2, <1>9, <3>1
    <3>3. QED BY <1>4, <2>1, <3>1, <3>2
  <2>4. QED BY <2>2, <2>3
<1>11. z = w
  BY <1>2, <1>3, <1>5, <1>6, <1>9, <1>10
<1>12. FlattenSeq(v \o y) = FlattenSeq(v) \o FlattenSeq(y)
  <2>1. v \in Seq(Seq(Word)) /\ y \in Seq(Seq(Word)) BY <1>6 DEF T
  <2>2. QED BY ONLY <2>1, FlattenConcat
<1>13. FlattenSeq(y) \in Seq(Word)
  <2>1. PICK F : Parts(Word, y, F) /\ FlattenSeq(y) = F[Len(y)]
    BY <1>4, FlattenParts
  <2>2. Len(y) \in 0 .. Len(y) BY <1>4, <1>5
  <2>3. QED BY <2>1, <2>2 DEF Parts
<1>14. FlattenSeq(z) = x \o FlattenSeq(y)
  BY <1>7, <1>11, <1>12 DEF w
<1>15. QED BY <1>13, <1>14 DEF a, c, x, y, z, OneMoreSaid

LEMMA NothingSaid ==
  ASSUME NEW toks, NEW width
  PROVE  FlattenSeq(Said(toks, width, <<>>)) = <<>>
<1>1. Said(toks, width, <<>>) = <<>>
  BY DEF Said
<1>2. <<>> \in Seq(Seq(Word)) /\ Len(<<>>) = 0
  OBVIOUS
<1>3. PICK F : Parts(Word, <<>>, F) /\ FlattenSeq(<<>>) = F[Len(<<>>)]
  BY <1>2, FlattenParts
<1>4. FlattenSeq(<<>>) = <<>>
  BY <1>2, <1>3 DEF Parts
<1>5. QED BY <1>1, <1>4

\* What parseList is called with, and what it answers.
ListRead(toks, A, starts, width, start, list) ==
  /\ toks \in Tokens /\ SoFar(toks, A) /\ StartsOK(toks, starts, width) /\ ItemsSaid(toks, A, starts, width)
  /\ start \in 1 .. Len(toks) /\ list = parseList(toks, start, starts, width) /\ list.next > 0

ListTold(toks, A, starts, width, start, list) ==
  /\ list.items \in Seq(starts) /\ list.next \in 1 .. Len(toks)
  /\ A[list.next - 1] = A[start - 1] \o FlattenSeq(Said(toks, width, list.items))

\* Before the token where a list ends, its items' words have been said and nothing else.
LEMMA ListSays ==
  ASSUME NEW toks, NEW A, NEW starts, NEW width, NEW start, NEW list,
         ListRead(toks, A, starts, width, start, list)
  PROVE  ListTold(toks, A, starts, width, start, list)
<1> USE DEF ListRead
<1> DEFINE L == CHOOSE R : R = [p \in 1 .. Len(toks) |-> ListStep(toks, starts, width, R, p)]
           N == Len(toks)
           Fl(items) == FlattenSeq(Said(toks, width, items))
           Told(p) == /\ L[p].items \in Seq(starts) /\ L[p].next \in 0 .. N
                      /\ L[p].next > 0 => A[L[p].next - 1] = A[p - 1] \o Fl(L[p].items)
                      /\ L[p] = [items |-> L[p].items, next |-> L[p].next]
           S == {p \in 1 .. N : Told(p)}
<1>0. N \in Nat /\ width \in {1, 2}
  BY DEF Tokens, StartsOK
<1>1. L = [p \in 1 .. Len(toks) |-> ListStep(toks, starts, width, L, p)]
  BY ListExists
<1>2. list = L[start]
  BY DEF parseList, ListStep, itemAfter
<1> HIDE DEF L
<1>3. \A p \in 1 .. N : L[p] = ListStep(toks, starts, width, L, p)
  BY <1>1
<1>4. ASSUME NEW p \in 1 .. N, \A j \in p + 1 .. N : j \in S PROVE p \in S
  <2> SUFFICES Told(p)
    OBVIOUS
  <2>1. L[p] = ListStep(toks, starts, width, L, p)
    BY <1>3
  <2>2. <<>> \in Seq(starts) /\ p \in 0 .. N /\ p - 1 \in 0 .. N
    BY <1>0
  <2>3. A[p - 1] \in Seq(Word)
    BY <2>2 DEF SoFar
  <2>4. CASE toks[p].type \in {"RPAREN", "EOF"}
    <3>1. L[p] = [items |-> <<>>, next |-> p] BY <2>1, <2>4 DEF ListStep
    <3>2. Fl(<<>>) = <<>> BY NothingSaid
    <3>3. A[p - 1] \o <<>> = A[p - 1] BY <2>3
    <3> HIDE DEF Fl
    <3>4. L[p].items = <<>> /\ L[p].next = p /\ L[p] = [items |-> L[p].items, next |-> L[p].next]
      BY <3>1
    <3>5. A[p - 1] = A[p - 1] \o Fl(<<>>) BY <3>2, <3>3
    <3>6. QED BY <2>2, <3>4, <3>5
  <2>5. CASE toks[p].type \notin {"RPAREN", "EOF"} /\ p \notin starts
    <3>1. L[p] = [items |-> <<>>, next |-> 0] BY <2>1, <2>5 DEF ListStep
    <3> HIDE DEF Fl
    <3>2. L[p].items = <<>> /\ L[p].next = 0 /\ L[p] = [items |-> L[p].items, next |-> L[p].next]
      BY <3>1
    <3>3. QED BY <1>0, <2>2, <3>2
  <2>6. CASE toks[p].type \notin {"RPAREN", "EOF"} /\ p \in starts
    <3> DEFINE e == itemAfter(toks, width, p)
               r == L[e]
               x == ItemWords(toks, width, p)
    <3>1. e \in p + 1 .. N BY <2>6, ItemAfter
    <3>2. Told(e) BY <1>4, <3>1
    <3>3. L[p] = [r EXCEPT !.items = <<p>> \o @] BY <2>1, <2>6 DEF ListStep
    <3>4. A[e - 1] = A[p - 1] \o x
      <4>1. A[p + width - 1] = A[p - 1] \o x BY <2>6 DEF ItemsSaid
      <4>2. p + width \in 1 .. N /\ (p + width + 1) - 1 = p + width
        BY <1>0, <2>6 DEF StartsOK
      <4>3. CASE toks[p + width].type = "COMMA"
        <5>1. e = p + width + 1 BY <4>3 DEF itemAfter
        <5> DEFINE h == p + width
        <5>2. h \in 1 .. N /\ toks[h].type = "COMMA" BY <4>2, <4>3
        <5> HIDE DEF h
        <5>3. A[h] = A[h - 1] BY <5>2, Says
        <5> HIDE DEF e, x
        <5>4. A[h - 1] = A[p - 1] \o x BY ONLY <1>0, <4>1 DEF h
        <5>5. e - 1 = h BY ONLY <4>2, <5>1 DEF h
        <5>6. QED BY ONLY <5>3, <5>4, <5>5
      <4>4. CASE toks[p + width].type # "COMMA"
        <5>1. e = p + width BY <4>4 DEF itemAfter
        <5> HIDE DEF e, x
        <5>2. QED BY <1>0, <4>1, <5>1
      <4>5. QED BY <4>3, <4>4
    <3>5. x \in Seq(Word) /\ \A q \in starts : ItemWords(toks, width, q) \in Seq(Word)
      BY <2>6 DEF ItemsSaid
    <3>6. r.items \in Seq(starts) /\ r.next \in 0 .. N
          /\ (r.next > 0 => A[r.next - 1] = A[e - 1] \o Fl(r.items))
          /\ r = [items |-> r.items, next |-> r.next]
      BY <3>2
    <3>7. Fl(r.items) \in Seq(Word) /\ Fl(<<p>> \o r.items) = x \o Fl(r.items)
      <4> DEFINE t == r.items
      <4>1. t \in Seq(starts) BY <3>6
      <4> HIDE DEF r, t
      <4>2. /\ FlattenSeq(Said(toks, width, t)) \in Seq(Word)
            /\ FlattenSeq(Said(toks, width, <<p>> \o t))
                 = ItemWords(toks, width, p) \o FlattenSeq(Said(toks, width, t))
        <5>1. p \in starts /\ ItemsAreWords(toks, width, starts) BY <2>6, <3>5 DEF ItemsAreWords
        <5>2. OneMoreSaid(toks, width, p, t) BY ONLY <4>1, <5>1, SaidMore
        <5>3. QED BY <5>2 DEF OneMoreSaid
      <4>3. QED BY <4>2 DEF t
    <3>8. <<p>> \o r.items \in Seq(starts)
      <4>1. <<p>> \in Seq(starts) BY <2>6, OneOf
      <4>2. QED BY <3>6, <4>1, ConcatAt
    <3> HIDE DEF Fl, e, r, x
    <3>9. L[p].items = <<p>> \o r.items /\ L[p].next = r.next
          /\ L[p] = [items |-> L[p].items, next |-> L[p].next]
      <4>1. r = [items |-> r.items, next |-> r.next] BY <3>6
      <4>2. QED BY <3>3, <4>1
    <3>10. ASSUME r.next > 0 PROVE A[r.next - 1] = A[p - 1] \o Fl(<<p>> \o r.items)
      <4> DEFINE u == A[p - 1]
                 v == Fl(r.items)
      <4>1. u \in Seq(Word) /\ v \in Seq(Word) /\ x \in Seq(Word) BY <2>3, <3>5, <3>7
      <4>2. A[r.next - 1] = (u \o x) \o v BY <3>4, <3>6, <3>10
      <4>3. Fl(<<p>> \o r.items) = x \o v BY <3>7
      <4> HIDE DEF u, v
      <4>4. (u \o x) \o v = u \o (x \o v) BY ONLY <4>1, Assoc, SMTT(30)
      <4>5. QED BY <4>2, <4>3, <4>4 DEF u
    <3>11. QED BY <3>6, <3>8, <3>9, <3>10
  <2>7. QED BY <2>4, <2>5, <2>6
<1>5. 1 .. N \subseteq S
  <2> HIDE DEF S, N
  <2>1. QED BY <1>0, <1>4, DownInduction
<1>6. Told(start)
  BY <1>5
<1>7. /\ list.items \in Seq(starts) /\ list.next \in 0 .. N
      /\ list.next > 0 => A[list.next - 1] = A[start - 1] \o Fl(list.items)
  BY <1>2, <1>6
<1>8. A[list.next - 1] = A[start - 1] \o Fl(list.items)
  BY <1>7
<1> HIDE DEF Fl
<1>9. QED BY <1>0, <1>7, <1>8 DEF Fl, ListTold

\* Items of one word each.
LEMMA FlattenSingles ==
  ASSUME NEW S, NEW v \in Seq(S)
  PROVE  FlattenSeq([i \in 1 .. Len(v) |-> <<v[i]>>]) = v
<1> DEFINE n == Len(v)
           f == [i \in 1 .. n |-> <<v[i]>>]
           T == Seq(S)
<1>1. n \in Nat /\ \A i \in 1 .. n : v[i] \in S
  BY ElementOfSeq
<1>2. \A i \in 1 .. n : <<v[i]>> \in T
  BY <1>1, OneOf
<1>3. f \in Seq(T) /\ Len(f) = n /\ \A i \in 1 .. n : f[i] = <<v[i]>>
  <2> HIDE DEF T
  <2>1. QED BY <1>1, <1>2
<1> HIDE DEF f
<1>4. PICK F : Parts(S, f, F) /\ FlattenSeq(f) = F[Len(f)]
  BY <1>3, FlattenParts
<1> DEFINE K == {k \in Nat : k <= n => F[k] = SubSeq(v, 1, k)}
<1>5. 0 \in K
  <2>1. SubSeq(v, 1, 0) = <<>> OBVIOUS
  <2>2. QED BY <1>4, <2>1 DEF Parts
<1>6. ASSUME NEW k \in Nat, k \in K PROVE k + 1 \in K
  <2> SUFFICES ASSUME k + 1 <= n PROVE F[k + 1] = SubSeq(v, 1, k + 1)
    OBVIOUS
  <2>1. k + 1 \in 1 .. n /\ (k + 1) - 1 = k /\ k <= n /\ 1 <= k + 1 /\ k + 1 <= (k + 1) + 1
    BY <1>1
  <2>2. F[k + 1] = F[k] \o <<v[k + 1]>>
    BY <1>3, <1>4, <2>1 DEF Parts
  <2>3. SubSeq(v, 1, k + 1) = SubSeq(v, 1, (k + 1) - 1) \o SubSeq(v, k + 1, k + 1)
    BY <2>1, SplitPart
  <2>4. SubSeq(v, k + 1, k + 1) = <<v[k + 1]>>
    BY <2>1, OnePart
  <2>5. F[k] = SubSeq(v, 1, k)
    BY <1>6, <2>1
  <2>6. QED BY <2>1, <2>2, <2>3, <2>4, <2>5
<1>7. Nat \subseteq K
  <2> HIDE DEF K
  <2>1. QED BY <1>5, <1>6, SetInduction
<1>8. F[n] = SubSeq(v, 1, n)
  BY <1>1, <1>7
<1>9. SubSeq(v, 1, n) = v
  OBVIOUS
<1>10. QED BY <1>3, <1>4, <1>8, <1>9 DEF f

-------------------------------------------------------------------------------
(* What a statement says *)

\* The line begins with the words of the statement.
Begins(toks, A, s) == \E r \in 0 .. Len(toks) : A[r] = Meaning(s)

\* A statement without columns and values.
Chosen(type, name, cols, where) ==
  [type |-> type, tableName |-> name, columns |-> <<>>, values |-> <<>>,
   selectColumns |-> cols, where |-> where]

\* The words of a WHERE clause.
WhereWords(where) ==
  IF where = NoWhere THEN <<>> ELSE <<spelling["WHERE"], where[1], <<"=">>, where[2]>>

\* The keywords that the proofs name.
LEMMA Keywords ==
  {"SELECT", "INSERT", "INTO", "VALUES", "FROM", "WHERE", "CREATE", "TABLE", "DELETE", "INT", "TEXT"}
    \subseteq Keyword
BY DEF Keyword

LEMMA KeywordSays ==
  ASSUME NEW toks \in Tokens, NEW A, SoFar(toks, A), NEW p \in 1 .. Len(toks), NEW k \in Keyword,
         toks[p].type = k
  PROVE  A[p] = A[p - 1] \o <<spelling[k]>>
<1>1. toks[p].type \in Keyword => A[p] = A[p - 1] \o <<spelling[toks[p].type]>>
  BY Says
<1>2. QED BY <1>1

\* A token that is not EOF has one behind it.
LEMMA NotLast ==
  ASSUME NEW toks \in Tokens, NEW p \in 1 .. Len(toks), toks[p].type # "EOF"
  PROVE  p + 1 \in 1 .. Len(toks)
<1>1. Len(toks) \in Nat /\ toks[Len(toks)].type = "EOF"
  BY DEF Tokens
<1>2. QED BY <1>1

\* CREATE TABLE.
LEMMA CreateSays ==
  ASSUME NEW toks \in Tokens, NEW A, SoFar(toks, A), \A i \in 1 .. Len(toks) : SymbolTok(toks[i]),
         NEW s, s = parseCreateTable(toks), s # ParseError
  PROVE  Begins(toks, A, s)
<1> DEFINE N == Len(toks)
           starts == {p \in 1 .. Len(toks) - 1 :
                        toks[p].type = "IDENTIFIER" /\ toks[p + 1].type \in DataType}
           list == parseList(toks, 5, starts, 2)
           l == list.items
           name == toks[3].value
           columns == [i \in DOMAIN l |-> [name |-> toks[l[i]].value, type |-> toks[l[i] + 1].type]]
<1>0. N \in Nat /\ toks[N].type = "EOF"
  BY DEF Tokens
<1>1. expect(toks, 1, <<"CREATE", "TABLE", "IDENTIFIER", "LPAREN">>) /\ closed(toks, list)
      /\ s = [Statement("CREATE_TABLE", name) EXCEPT !.columns = columns]
  BY DEF parseCreateTable
<1>2. /\ 4 <= N /\ toks[1].type = "CREATE" /\ toks[2].type = "TABLE" /\ toks[3].type = "IDENTIFIER"
      /\ toks[4].type = "LPAREN"
  BY <1>1, Expect4
<1>3. 1 \in 1 .. N /\ 2 \in 1 .. N /\ 3 \in 1 .. N /\ 4 \in 1 .. N /\ 5 \in 1 .. N
  <2>1. 4 \in 1 .. N BY <1>0, <1>2
  <2>2. 4 + 1 \in 1 .. N BY <1>2, <2>1, NotLast
  <2>3. QED BY <1>0, <2>2
<1>4. StartsOK(toks, starts, 2)
  <2>1. ASSUME NEW p \in starts PROVE p + 2 <= Len(toks)
    <3>1. p \in 1 .. Len(toks) - 1 /\ toks[p + 1].type \in DataType OBVIOUS
    <3>2. p + 1 # Len(toks) BY <1>0, <3>1 DEF DataType
    <3>3. QED BY <1>0, <3>1, <3>2
  <2>2. starts \subseteq 1 .. Len(toks) BY <1>0
  <2>3. QED BY <2>1, <2>2 DEF StartsOK
<1>5. ItemsSaid(toks, A, starts, 2)
  <2> SUFFICES ASSUME NEW p \in starts
               PROVE  /\ ItemWords(toks, 2, p) \in Seq(Word)
                      /\ A[p + 2 - 1] = A[p - 1] \o ItemWords(toks, 2, p)
    BY DEF ItemsSaid
  <2>1. /\ p \in 1 .. N /\ p + 1 \in 1 .. N /\ toks[p].type = "IDENTIFIER" /\ toks[p + 1].type \in Keyword
        /\ (p + 1) - 1 = p /\ p + 2 - 1 = p + 1
    <3>1. p \in 1 .. N - 1 /\ toks[p].type = "IDENTIFIER" /\ toks[p + 1].type \in {"INT", "TEXT"}
      BY DEF DataType
    <3>2. p \in 1 .. N /\ p + 1 \in 1 .. N /\ (p + 1) - 1 = p /\ p + 2 - 1 = p + 1 BY <1>0, <3>1
    <3>3. QED BY <3>1, <3>2, Keywords
  <2> DEFINE a == toks[p].value
             b == spelling[toks[p + 1].type]
             x == A[p - 1]
  <2>2. A[p] = x \o <<a>> /\ x \in Seq(Word) /\ a \in Word
    BY <2>1, Says
  <2>3. A[p + 1] = A[p] \o <<b>> /\ b \in Word
    <3>1. /\ toks[p + 1].type \in Keyword => A[p + 1] = A[(p + 1) - 1] \o <<b>>
          /\ \A k \in Keyword : spelling[k] \in Word
      BY <2>1, Says
    <3>2. QED BY <2>1, <3>1
  <2>4. ItemWords(toks, 2, p) = <<a, b>>
    BY DEF ItemWords
  <2> HIDE DEF a, b, x
  <2>5. (x \o <<a>>) \o <<b>> = x \o <<a, b>>
    BY <2>2, <2>3, TwoMore
  <2>6. <<a, b>> \in Seq(Word)
    BY <2>2, <2>3
  <2>7. QED BY <2>1, <2>2, <2>3, <2>4, <2>5, <2>6 DEF x
<1>6. \A p \in starts : toks[p + 1].type \in Keyword
  <2>1. \A p \in starts : toks[p + 1].type \in {"INT", "TEXT"} BY DEF DataType
  <2>2. QED BY <2>1, Keywords
<1> DEFINE e == list.next
           listed == FlattenSeq(Said(toks, 2, l))
<1>7. e > 0 /\ toks[e].type = "RPAREN"
  BY <1>1 DEF closed
<1> HIDE DEF starts
<1>8. l \in Seq(starts) /\ e \in 1 .. N /\ A[e - 1] = A[5 - 1] \o listed
  <2>1. ListRead(toks, A, starts, 2, 5, list)
    BY <1>3, <1>4, <1>5, <1>7 DEF ListRead
  <2> HIDE DEF list
  <2>2. ListTold(toks, A, starts, 2, 5, list)
    BY ONLY <2>1, ListSays
  <2>3. QED BY <2>2 DEF ListTold
<1> HIDE DEF list
<1> DEFINE k1 == spelling["CREATE"]
           k2 == spelling["TABLE"]
           lp == <<"(">>
           rp == <<")">>
<1>9. A[4] = <<k1, k2, name, lp>>
  <2>1. A[0] = <<>> BY DEF SoFar
  <2>2. A[1] = A[1 - 1] \o <<k1>>
    <3>1. "CREATE" \in Keyword BY Keywords
    <3>2. QED BY <1>2, <1>3, <3>1, KeywordSays
  <2>3. A[2] = A[2 - 1] \o <<k2>>
    <3>1. "TABLE" \in Keyword BY Keywords
    <3>2. QED BY <1>2, <1>3, <3>1, KeywordSays
  <2>4. A[3] = A[3 - 1] \o <<name>> BY <1>2, <1>3, Says
  <2>5. A[4] = A[4 - 1] \o <<lp>>
    <3>1. toks[4].value = lp BY <1>2, <1>3 DEF SymbolTok
    <3>2. A[4] = A[4 - 1] \o <<toks[4].value>> BY <1>2, <1>3, Says
    <3>3. QED BY <3>1, <3>2
  <2>6. 1 - 1 = 0 /\ 2 - 1 = 1 /\ 3 - 1 = 2 /\ 4 - 1 = 3 OBVIOUS
  <2> HIDE DEF k1, k2, lp, name
  <2>7. A[1] = <<k1>> BY <2>1, <2>2, <2>6, Grow1
  <2>8. A[2] = <<k1, k2>> BY <2>3, <2>6, <2>7, Grow2
  <2>9. A[3] = <<k1, k2, name>> BY <2>4, <2>6, <2>8, Grow3
  <2>10. QED BY <2>5, <2>6, <2>9, Grow4
<1>10. A[e] = A[e - 1] \o <<rp>>
  <2>1. toks[e].value = rp BY <1>7, <1>8 DEF SymbolTok
  <2>2. A[e] = A[e - 1] \o <<toks[e].value>> BY <1>7, <1>8, Says
  <2>3. QED BY <2>1, <2>2
<1>11. FlattenSeq([i \in DOMAIN columns |-> <<columns[i].name, spelling[columns[i].type]>>]) = listed
  <2>1. DOMAIN columns = DOMAIN l /\ \A i \in DOMAIN l : columns[i].name = toks[l[i]].value
                                                          /\ columns[i].type = toks[l[i] + 1].type
    OBVIOUS
  <2> HIDE DEF columns
  <2>2. \A i \in DOMAIN l : ItemWords(toks, 2, l[i]) = <<columns[i].name, spelling[columns[i].type]>>
    BY <2>1 DEF ItemWords
  <2>3. Said(toks, 2, l) = [i \in DOMAIN l |-> <<columns[i].name, spelling[columns[i].type]>>]
    BY <2>2 DEF Said
  <2>4. QED BY <2>1, <2>3
<1>12. /\ s.type = "CREATE_TABLE" /\ s.tableName = name /\ s.columns = columns
  BY <1>1 DEF Statement
<1> HIDE DEF columns, listed, name
<1>13. Meaning(s) = <<k1, k2, name, lp>> \o listed \o <<rp>>
  BY <1>11, <1>12 DEF Meaning
<1>14. A[e] = Meaning(s)
  <2>1. 5 - 1 = 4 OBVIOUS
  <2>2. QED BY <1>8, <1>9, <1>10, <1>13, <2>1
<1>15. e \in 0 .. N
  BY <1>0, <1>8
<1>16. QED BY <1>14, <1>15 DEF Begins

\* INSERT.
LEMMA InsertSays ==
  ASSUME NEW toks \in Tokens, NEW A, SoFar(toks, A), \A i \in 1 .. Len(toks) : SymbolTok(toks[i]),
         NEW s, s = parseInsert(toks), s # ParseError
  PROVE  Begins(toks, A, s)
<1> DEFINE N == Len(toks)
           starts == {p \in DOMAIN toks : toks[p].type \in ValueToken}
           list == parseList(toks, 6, starts, 1)
           l == list.items
           name == toks[3].value
           values == [i \in DOMAIN l |-> toks[l[i]].value]
<1>0. N \in Nat /\ toks[N].type = "EOF" /\ DOMAIN toks = 1 .. N
  BY DEF Tokens
<1>1. expect(toks, 1, <<"INSERT", "INTO", "IDENTIFIER", "VALUES", "LPAREN">>) /\ closed(toks, list)
      /\ s = [Statement("INSERT", name) EXCEPT !.values = values]
  BY DEF parseInsert
<1>2. /\ 5 <= N /\ toks[1].type = "INSERT" /\ toks[2].type = "INTO" /\ toks[3].type = "IDENTIFIER"
      /\ toks[4].type = "VALUES" /\ toks[5].type = "LPAREN"
  BY <1>1, Expect5
<1>3. 1 \in 1 .. N /\ 2 \in 1 .. N /\ 3 \in 1 .. N /\ 4 \in 1 .. N /\ 5 \in 1 .. N /\ 6 \in 1 .. N
  <2>1. 5 \in 1 .. N BY <1>0, <1>2
  <2>2. 5 + 1 \in 1 .. N BY <1>2, <2>1, NotLast
  <2>3. QED BY <1>0, <2>2
<1>4. StartsOK(toks, starts, 1)
  <2>1. ASSUME NEW p \in starts PROVE p + 1 <= Len(toks)
    <3>1. p \in 1 .. Len(toks) /\ toks[p].type \in ValueToken BY <1>0
    <3>2. p # Len(toks) BY <1>0, <3>1 DEF ValueToken
    <3>3. QED BY <1>0, <3>1, <3>2
  <2>2. starts \subseteq 1 .. Len(toks) BY <1>0
  <2>3. QED BY <2>1, <2>2 DEF StartsOK
<1>5. \A p \in starts : p \in 1 .. N /\ toks[p].value \in Word /\ ItemWords(toks, 1, p) = <<toks[p].value>>
  BY <1>0, Says DEF ItemWords
<1>6. ItemsSaid(toks, A, starts, 1)
  <2> SUFFICES ASSUME NEW p \in starts
               PROVE  /\ ItemWords(toks, 1, p) \in Seq(Word)
                      /\ A[p + 1 - 1] = A[p - 1] \o ItemWords(toks, 1, p)
    BY DEF ItemsSaid
  <2>1. p \in 1 .. N /\ toks[p].type \in {"NUMBER", "STRING", "IDENTIFIER"} /\ p + 1 - 1 = p
    BY <1>0 DEF ValueToken
  <2> DEFINE a == toks[p].value
             x == A[p - 1]
  <2>2. A[p] = x \o <<a>> /\ x \in Seq(Word) /\ a \in Word
    BY <2>1, Says
  <2>3. ItemWords(toks, 1, p) = <<a>> BY <1>5
  <2> HIDE DEF a
  <2>4. <<a>> \in Seq(Word) BY <2>2, OneOf
  <2>5. QED BY <2>1, <2>2, <2>3, <2>4
<1> DEFINE e == list.next
           listed == FlattenSeq(Said(toks, 1, l))
<1>7. e > 0 /\ toks[e].type = "RPAREN"
  BY <1>1 DEF closed
<1> HIDE DEF starts
<1>8. l \in Seq(starts) /\ e \in 1 .. N /\ A[e - 1] = A[6 - 1] \o listed
  <2>1. ListRead(toks, A, starts, 1, 6, list)
    BY <1>3, <1>4, <1>6, <1>7 DEF ListRead
  <2> HIDE DEF list
  <2>2. ListTold(toks, A, starts, 1, 6, list)
    BY ONLY <2>1, ListSays
  <2>3. QED BY <2>2 DEF ListTold
<1> HIDE DEF list
<1> DEFINE k1 == spelling["INSERT"]
           k2 == spelling["INTO"]
           k3 == spelling["VALUES"]
           lp == <<"(">>
           rp == <<")">>
<1>9. A[5] = <<k1, k2, name, k3, lp>>
  <2>1. A[0] = <<>> BY DEF SoFar
  <2>2. A[1] = A[1 - 1] \o <<k1>>
    <3>1. "INSERT" \in Keyword BY Keywords
    <3>2. QED BY <1>2, <1>3, <3>1, KeywordSays
  <2>3. A[2] = A[2 - 1] \o <<k2>>
    <3>1. "INTO" \in Keyword BY Keywords
    <3>2. QED BY <1>2, <1>3, <3>1, KeywordSays
  <2>4. A[3] = A[3 - 1] \o <<name>> BY <1>2, <1>3, Says
  <2>5. A[4] = A[4 - 1] \o <<k3>>
    <3>1. "VALUES" \in Keyword BY Keywords
    <3>2. QED BY <1>2, <1>3, <3>1, KeywordSays
  <2>6. A[5] = A[5 - 1] \o <<lp>>
    <3>1. toks[5].value = lp BY <1>2, <1>3 DEF SymbolTok
    <3>2. A[5] = A[5 - 1] \o <<toks[5].value>> BY <1>2, <1>3, Says
    <3>3. QED BY <3>1, <3>2
  <2>7. 1 - 1 = 0 /\ 2 - 1 = 1 /\ 3 - 1 = 2 /\ 4 - 1 = 3 /\ 5 - 1 = 4 OBVIOUS
  <2> HIDE DEF k1, k2, k3, lp, name
  <2>8. A[1] = <<k1>> BY <2>1, <2>2, <2>7, Grow1
  <2>9. A[2] = <<k1, k2>> BY <2>3, <2>7, <2>8, Grow2
  <2>10. A[3] = <<k1, k2, name>> BY <2>4, <2>7, <2>9, Grow3
  <2>11. A[4] = <<k1, k2, name, k3>> BY <2>5, <2>7, <2>10, Grow4
  <2>12. QED BY <2>6, <2>7, <2>11, Grow5
<1>10. A[e] = A[e - 1] \o <<rp>>
  <2>1. toks[e].value = rp BY <1>7, <1>8 DEF SymbolTok
  <2>2. A[e] = A[e - 1] \o <<toks[e].value>> BY <1>7, <1>8, Says
  <2>3. QED BY <2>1, <2>2
<1>11. listed = values
  <2>1. DOMAIN l = 1 .. Len(l) /\ Len(l) \in Nat /\ \A i \in 1 .. Len(l) : l[i] \in starts
    BY <1>8, ElementOfSeq
  <2>2. values = [i \in 1 .. Len(l) |-> toks[l[i]].value] BY <2>1
  <2> HIDE DEF values, l
  <2>3. \A i \in 1 .. Len(l) : values[i] \in Word BY <1>5, <2>1, <2>2
  <2>4. values \in Seq(Word) /\ Len(values) = Len(l) BY <2>1, <2>2, <2>3
  <2>5. Said(toks, 1, l) = [i \in 1 .. Len(values) |-> <<values[i]>>]
    <3>1. \A i \in 1 .. Len(l) : ItemWords(toks, 1, l[i]) = <<values[i]>> BY <1>5, <2>1, <2>2
    <3>2. QED BY <2>1, <2>4, <3>1 DEF Said
  <2>6. QED BY <2>4, <2>5, FlattenSingles
<1>12. s.type = "INSERT" /\ s.tableName = name /\ s.values = values
  BY <1>1 DEF Statement
<1> HIDE DEF values, listed, name
<1>13. Meaning(s) = <<k1, k2, name, k3, lp>> \o values \o <<rp>>
  BY <1>12 DEF Meaning
<1>14. A[e] = Meaning(s)
  <2>1. 6 - 1 = 5 OBVIOUS
  <2>2. QED BY <1>8, <1>9, <1>10, <1>11, <1>13, <2>1
<1>15. e \in 0 .. N
  BY <1>0, <1>8
<1>16. QED BY <1>14, <1>15 DEF Begins

\* What parseWhere is called with, and what it answers.
WhereRead(toks, A, p, base, s) ==
  /\ toks \in Tokens /\ SoFar(toks, A) /\ \A i \in 1 .. Len(toks) : SymbolTok(toks[i])
  /\ p \in 1 .. Len(toks) /\ s = parseWhere(toks, p, base) /\ s # ParseError

WhereTold(toks, A, p, type, name, cols, s) ==
  \E r, where : /\ r \in 0 .. Len(toks) /\ s = Chosen(type, name, cols, where)
               /\ A[r] = A[p - 1] \o WhereWords(where)

\* A WHERE clause, or none.
LEMMA WhereSays ==
  ASSUME NEW toks, NEW A, NEW p, NEW type, NEW name, NEW cols, NEW s,
         WhereRead(toks, A, p, Chosen(type, name, cols, NoWhere), s)
  PROVE  WhereTold(toks, A, p, type, name, cols, s)
<1> USE DEF WhereRead
<1> DEFINE N == Len(toks)
           x == A[p - 1]
           base == Chosen(type, name, cols, NoWhere)
<1>0. N \in Nat /\ p \in Nat /\ p - 1 \in 0 .. N
  BY DEF Tokens
<1>1. x \in Seq(Word)
  BY <1>0 DEF SoFar
<1>2. CASE toks[p].type # "WHERE"
  <2>1. s = base BY <1>2 DEF parseWhere
  <2>2. WhereWords(NoWhere) = <<>> BY DEF WhereWords
  <2>3. x \o <<>> = x BY <1>1
  <2>4. A[p - 1] = A[p - 1] \o WhereWords(NoWhere) BY <2>2, <2>3
  <2>5. QED BY <1>0, <2>1, <2>4 DEF WhereTold
<1>3. CASE toks[p].type = "WHERE"
  <2> DEFINE a == toks[p + 1].value
             b == toks[p + 3].value
             w == <<a, b>>
             kw == spelling["WHERE"]
             eq == <<"=">>
  <2>1. isWhere(toks, p) /\ s = [base EXCEPT !.where = w]
    BY <1>3 DEF parseWhere
  <2>2. /\ p + 2 <= N /\ toks[p + 1].type = "IDENTIFIER" /\ toks[p + 2].type = "EQUALS"
        /\ toks[p + 3].type \in {"NUMBER", "STRING", "IDENTIFIER"}
    <3>1. expect(toks, p, <<"WHERE", "IDENTIFIER", "EQUALS">>) BY <2>1 DEF isWhere
    <3>2. p + 2 <= Len(toks) /\ toks[p + 1].type = "IDENTIFIER" /\ toks[p + 2].type = "EQUALS"
      BY <1>0, <3>1, Expect3
    <3>3. toks[p + 3].type \in ValueToken BY <2>1 DEF isWhere
    <3>4. QED BY <3>2, <3>3 DEF ValueToken
  <2>3. p + 1 \in 1 .. N /\ p + 2 \in 1 .. N /\ p + 3 \in 1 .. N
        /\ (p + 1) - 1 = p /\ (p + 2) - 1 = p + 1 /\ (p + 3) - 1 = p + 2
    <3>1. p + 2 \in 1 .. N BY <1>0, <2>2
    <3>2. (p + 2) + 1 \in 1 .. N BY <2>2, <3>1, NotLast
    <3>3. QED BY <1>0, <3>2
  <2>4. A[p] = x \o <<kw>> /\ kw \in Word
    <3>1. /\ toks[p].type \in Keyword => A[p] = A[p - 1] \o <<spelling[toks[p].type]>>
          /\ \A k \in Keyword : spelling[k] \in Word
      BY Says
    <3>2. QED BY <1>3, <3>1, Keywords
  <2>5. A[p + 1] = A[p] \o <<a>> /\ a \in Word
    <3>1. A[p + 1] = A[(p + 1) - 1] \o <<a>> /\ a \in Word BY <2>2, <2>3, Says
    <3>2. QED BY <2>3, <3>1
  <2>6. A[p + 2] = A[p + 1] \o <<eq>> /\ eq \in Word
    <3>1. A[p + 2] = A[(p + 2) - 1] \o <<toks[p + 2].value>> /\ toks[p + 2].value \in Word
      BY <2>2, <2>3, Says
    <3>2. toks[p + 2].value = eq BY <2>2, <2>3 DEF SymbolTok
    <3>3. QED BY <2>3, <3>1, <3>2
  <2>7. A[p + 3] = A[p + 2] \o <<b>> /\ b \in Word
    <3>1. A[p + 3] = A[(p + 3) - 1] \o <<b>> /\ b \in Word BY <2>2, <2>3, Says
    <3>2. QED BY <2>3, <3>1
  <2>8. s = Chosen(type, name, cols, w)
    BY <2>1 DEF Chosen
  <2> HIDE DEF a, b, eq, kw, x
  <2>9. WhereWords(w) = <<kw, a, eq, b>>
    <3>1. w # NoWhere /\ w[1] = a /\ w[2] = b BY DEF NoWhere
    <3> HIDE DEF w
    <3>2. QED BY <3>1 DEF WhereWords, kw, eq
  <2>10. A[p + 3] = x \o <<kw, a, eq, b>>
    <3>1. (((x \o <<kw>>) \o <<a>>) \o <<eq>>) \o <<b>> = x \o <<kw, a, eq, b>>
      <4>1. x \in Seq(Word) /\ kw \in Word /\ a \in Word /\ eq \in Word /\ b \in Word
        BY <1>1, <2>4, <2>5, <2>6, <2>7
      <4>2. FourWords(x, kw, a, eq, b) BY ONLY <4>1, FourMore
      <4>3. QED BY <4>2 DEF FourWords
    <3>2. QED BY <2>4, <2>5, <2>6, <2>7, <3>1
  <2>11. p + 3 \in 0 .. N BY <1>0, <2>3
  <2> HIDE DEF w
  <2>12. A[p + 3] = A[p - 1] \o WhereWords(w) BY <2>9, <2>10 DEF x
  <2>13. QED BY <2>8, <2>11, <2>12 DEF WhereTold
<1>4. QED BY <1>2, <1>3

\* DELETE.
LEMMA DeleteSays ==
  ASSUME NEW toks \in Tokens, NEW A, SoFar(toks, A), \A i \in 1 .. Len(toks) : SymbolTok(toks[i]),
         NEW s, s = parseDelete(toks), s # ParseError
  PROVE  Begins(toks, A, s)
<1> DEFINE N == Len(toks)
           name == toks[3].value
           k1 == spelling["DELETE"]
           k2 == spelling["FROM"]
<1>0. N \in Nat
  BY DEF Tokens
<1>1. expect(toks, 1, <<"DELETE", "FROM", "IDENTIFIER">>)
      /\ s = parseWhere(toks, 4, Statement("DELETE_STMT", name))
  BY DEF parseDelete
<1>2. 3 <= N /\ toks[1].type = "DELETE" /\ toks[2].type = "FROM" /\ toks[3].type = "IDENTIFIER"
  <2>1. /\ 1 + 2 <= Len(toks) /\ toks[1].type = "DELETE" /\ toks[1 + 1].type = "FROM"
        /\ toks[1 + 2].type = "IDENTIFIER"
    BY <1>1, Expect3
  <2>2. 1 + 1 = 2 /\ 1 + 2 = 3 OBVIOUS
  <2>3. QED BY <2>1, <2>2
<1>3. 1 \in 1 .. N /\ 2 \in 1 .. N /\ 3 \in 1 .. N /\ 4 \in 1 .. N
  <2>1. 3 \in 1 .. N BY <1>0, <1>2
  <2>2. 3 + 1 \in 1 .. N BY <1>2, <2>1, NotLast
  <2>3. QED BY <1>0, <2>2
<1>4. Statement("DELETE_STMT", name) = Chosen("DELETE_STMT", name, <<>>, NoWhere)
  BY DEF Statement, Chosen
<1>5. PICK r, where : /\ r \in 0 .. N /\ s = Chosen("DELETE_STMT", name, <<>>, where)
                      /\ A[r] = A[4 - 1] \o WhereWords(where)
  <2> DEFINE start == Chosen("DELETE_STMT", name, <<>>, NoWhere)
  <2>1. WhereRead(toks, A, 4, start, s)
    BY <1>1, <1>3, <1>4 DEF WhereRead
  <2> HIDE DEF name
  <2>2. WhereTold(toks, A, 4, "DELETE_STMT", name, <<>>, s)
    BY ONLY <2>1, WhereSays
  <2>3. QED BY <2>2 DEF WhereTold
<1>6. A[3] = <<k1, k2, name>>
  <2>1. A[0] = <<>> BY DEF SoFar
  <2>2. A[1] = A[1 - 1] \o <<k1>>
    <3>1. "DELETE" \in Keyword BY Keywords
    <3>2. QED BY <1>2, <1>3, <3>1, KeywordSays
  <2>3. A[2] = A[2 - 1] \o <<k2>>
    <3>1. "FROM" \in Keyword BY Keywords
    <3>2. QED BY <1>2, <1>3, <3>1, KeywordSays
  <2>4. A[3] = A[3 - 1] \o <<name>> BY <1>2, <1>3, Says
  <2>5. 1 - 1 = 0 /\ 2 - 1 = 1 /\ 3 - 1 = 2 OBVIOUS
  <2> HIDE DEF k1, k2, name
  <2>6. A[1] = <<k1>> BY <2>1, <2>2, <2>5, Grow1
  <2>7. A[2] = <<k1, k2>> BY <2>3, <2>5, <2>6, Grow2
  <2>8. QED BY <2>4, <2>5, <2>7, Grow3
<1> HIDE DEF name
<1>7. s.type = "DELETE_STMT" /\ s.tableName = name /\ s.where = where
  BY <1>5 DEF Chosen
<1>8. Meaning(s) = <<k1, k2, name>> \o WhereWords(where)
  BY <1>7 DEF Meaning, WhereWords
<1>9. 4 - 1 = 3
  OBVIOUS
<1>10. QED BY <1>5, <1>6, <1>8, <1>9 DEF Begins

\* There is a number of columns for columnCount to choose.
LEMMA ColumnCount ==
  ASSUME NEW toks \in Tokens, NEW n, n = columnCount(toks)
  PROVE  n \in 1 .. Len(toks) /\ \A i \in 1 .. n - 1 : toks[2 * i + 1].type = "COMMA"
<1> DEFINE N == Len(toks)
           Ends == {k \in 1 .. N : ~expect(toks, 2 * k + 1, <<"COMMA">>)}
           m == Min(Ends)
<1>0. N \in Nat /\ N >= 1
  BY DEF Tokens
<1>1. N \in Ends
  <2> SUFFICES ASSUME expect(toks, 2 * N + 1, <<"COMMA">>) PROVE FALSE
    BY <1>0
  <2>1. 2 * N + 1 <= Len(toks) BY <1>0, Expect1
  <2>2. QED BY <1>0, <2>1
<1>2. m \in Ends /\ \A k \in Ends : m <= k
  <2>1. Ends \subseteq Nat BY <1>0
  <2> HIDE DEF Ends
  <2>2. QED BY <1>1, <2>1, MinExists
<1> HIDE DEF m
<1>3. m \in 1 .. N /\ ~expect(toks, 2 * m + 1, <<"COMMA">>)
  BY <1>2
<1>4. ASSUME NEW i \in 1 .. m - 1 PROVE toks[2 * i + 1].type = "COMMA"
  <2>1. i \in 1 .. N /\ ~(m <= i) /\ 2 * i + 1 \in Nat BY <1>0, <1>3
  <2>2. expect(toks, 2 * i + 1, <<"COMMA">>) BY <1>2, <2>1
  <2>3. QED BY <2>1, <2>2, Expect1
<1> DEFINE Fit(k) == /\ ~expect(toks, 2 * k + 1, <<"COMMA">>)
                     /\ \A i \in 1 .. k - 1 : toks[2 * i + 1].type = "COMMA"
<1>5. Fit(m)
  BY <1>3, <1>4
<1>6. n = CHOOSE k \in 1 .. N : Fit(k)
  BY DEF columnCount
<1> HIDE DEF Fit
<1>7. n \in 1 .. N /\ Fit(n)
  BY <1>3, <1>5, <1>6
<1>8. QED BY <1>7 DEF Fit

\* The columns of a SELECT.
LEMMA ColumnsSay ==
  ASSUME NEW toks \in Tokens, NEW A, SoFar(toks, A), NEW n \in 1 .. Len(toks),
         \A i \in 1 .. n - 1 : toks[2 * i + 1].type = "COMMA",
         \A i \in 1 .. n : 2 * i \in 1 .. Len(toks) /\ toks[2 * i].type = "IDENTIFIER",
         NEW cols, cols = [i \in 1 .. n |-> toks[2 * i].value]
  PROVE  cols \in Seq(Word) /\ cols # <<>> /\ A[2 * n] = A[1] \o cols
<1> DEFINE N == Len(toks)
           K == {k \in Nat : k + 1 <= n => A[2 * (k + 1)] = A[1] \o SubSeq(cols, 1, k + 1)}
<1>0. N \in Nat /\ n \in Nat /\ n >= 1
  BY DEF Tokens
<1>1. \A i \in 1 .. n : toks[2 * i].value \in Word
  BY Says
<1>2. cols \in Seq(Word) /\ Len(cols) = n /\ \A i \in 1 .. n : cols[i] = toks[2 * i].value
  BY <1>0, <1>1
<1>3. \A i \in 1 .. n : A[2 * i] = A[2 * i - 1] \o <<cols[i]>>
  <2> SUFFICES ASSUME NEW i \in 1 .. n PROVE A[2 * i] = A[2 * i - 1] \o <<cols[i]>>
    OBVIOUS
  <2> DEFINE j == 2 * i
  <2>1. j \in 1 .. N /\ toks[j].type = "IDENTIFIER" OBVIOUS
  <2>2. cols[i] = toks[j].value BY <1>2
  <2> HIDE DEF j
  <2>3. A[j] = A[j - 1] \o <<toks[j].value>> BY <2>1, Says
  <2>4. QED BY <2>2, <2>3 DEF j
<1>4. 0 \in K
  <2>1. 1 \in 1 .. n /\ 2 * 1 - 1 = 1 /\ 0 + 1 = 1 BY <1>0
  <2>2. A[2 * 1] = A[2 * 1 - 1] \o <<cols[1]>> BY <1>3, <2>1
  <2>3. SubSeq(cols, 1, 1) = <<cols[1]>> BY <1>2, <2>1, OnePart
  <2>4. A[2 * (0 + 1)] = A[1] \o SubSeq(cols, 1, 0 + 1) BY <2>1, <2>2, <2>3
  <2>5. QED BY <2>4
<1>5. ASSUME NEW k \in Nat, k \in K PROVE k + 1 \in K
  <2> DEFINE i == k + 1
             j == i + 1
  <2> SUFFICES ASSUME j <= n PROVE A[2 * j] = A[1] \o SubSeq(cols, 1, j)
    <3>1. k + 1 \in Nat /\ (k + 1) + 1 = j OBVIOUS
    <3>2. QED BY <3>1
  <2>1. /\ i \in Nat /\ j \in Nat /\ i \in 1 .. n - 1 /\ i \in 1 .. n /\ j \in 1 .. n /\ 2 * j - 1 = 2 * i + 1
        /\ (2 * i + 1) - 1 = 2 * i /\ j - 1 = i /\ i <= n /\ 1 <= j /\ j <= j + 1
    BY <1>0
  <2>2. A[2 * i] = A[1] \o SubSeq(cols, 1, i)
    BY <1>5, <2>1
  <2> HIDE DEF i, j
  <2>3. 2 * i + 1 \in 1 .. N
    <3>1. 2 * i \in 1 .. N /\ toks[2 * i].type = "IDENTIFIER" BY <2>1
    <3> DEFINE h == 2 * i
    <3>2. h \in 1 .. N /\ toks[h].type # "EOF" BY <3>1
    <3> HIDE DEF h
    <3>3. h + 1 \in 1 .. N BY <3>2, NotLast
    <3>4. QED BY <3>3 DEF h
  <2>4. A[2 * i + 1] = A[2 * i]
    <3> DEFINE h == 2 * i + 1
    <3>1. h \in 1 .. N /\ toks[h].type = "COMMA" /\ h - 1 = 2 * i BY <2>1, <2>3
    <3> HIDE DEF h
    <3>2. A[h] = A[h - 1] BY <3>1, Says
    <3>3. QED BY <3>1, <3>2 DEF h
  <2>5. A[2 * j] = A[2 * i] \o <<cols[j]>>
    <3>1. A[2 * j] = A[2 * j - 1] \o <<cols[j]>> BY <1>3, <2>1
    <3>2. QED BY <2>1, <2>4, <3>1
  <2> DEFINE x == A[1]
             y == SubSeq(cols, 1, i)
             z == <<cols[j]>>
  <2>6. y \in Seq(Word) /\ SubSeq(cols, 1, j) = y \o z /\ z \in Seq(Word)
    <3>1. /\ SubSeq(cols, 1, j - 1) \in Seq(Word) /\ SubSeq(cols, j, j) \in Seq(Word)
          /\ SubSeq(cols, 1, j) = SubSeq(cols, 1, j - 1) \o SubSeq(cols, j, j)
      <4>1. j \in Nat /\ 1 \in Nat /\ 1 <= 1 /\ 1 <= j /\ j <= j + 1 /\ j <= Len(cols) /\ cols \in Seq(Word)
        BY <1>2, <2>1
      <4>2. QED BY ONLY <4>1, SplitPart
    <3>2. SubSeq(cols, j, j) = z BY <1>2, <2>1, OnePart
    <3>3. QED BY <2>1, <3>1, <3>2
  <2>7. x \in Seq(Word)
    <3>1. 1 \in 0 .. N BY <1>0, <2>3
    <3>2. QED BY <3>1 DEF SoFar
  <2> HIDE DEF x, y, z
  <2>8. (x \o y) \o z = x \o (y \o z)
    BY ONLY <2>6, <2>7, Assoc, SMTT(30)
  <2>9. QED BY <2>2, <2>5, <2>6, <2>8 DEF x, y, z
<1>6. Nat \subseteq K
  <2> HIDE DEF K
  <2>1. QED BY <1>4, <1>5, SetInduction
<1>7. A[2 * n] = A[1] \o SubSeq(cols, 1, n)
  <2>1. n - 1 \in Nat /\ (n - 1) + 1 = n /\ (n - 1) + 1 <= n BY <1>0
  <2>2. n - 1 \in K BY <1>6, <2>1
  <2>3. QED BY <2>1, <2>2
<1>8. SubSeq(cols, 1, n) = cols
  BY <1>2
<1>9. cols # <<>>
  BY <1>0, <1>2
<1>10. QED BY <1>2, <1>7, <1>8, <1>9

\* SELECT.
LEMMA SelectSays ==
  ASSUME NEW toks \in Tokens, NEW A, SoFar(toks, A), \A i \in 1 .. Len(toks) : SymbolTok(toks[i]),
         toks[1].type = "SELECT", NEW s, s = parseSelect(toks), s # ParseError
  PROVE  Begins(toks, A, s)
<1> DEFINE N == Len(toks)
           star == expect(toks, 2, <<"STAR">>)
           n == columnCount(toks)
           from == IF star THEN 3 ELSE 2 * n + 1
           cols == IF star THEN <<>> ELSE [i \in 1 .. n |-> toks[2 * i].value]
           name == toks[from + 1].value
           selected == IF cols = <<>> THEN <<<<"*">>>> ELSE cols
           k1 == spelling["SELECT"]
           k2 == spelling["FROM"]
<1>0. N \in Nat /\ 1 \in 1 .. N
  <2>1. N \in Nat /\ N # 0 BY DEF Tokens
  <2>2. QED BY <2>1
<1>1. /\ star \/ \A i \in 1 .. n : expect(toks, 2 * i, <<"IDENTIFIER">>)
      /\ expect(toks, from, <<"FROM", "IDENTIFIER">>)
      /\ s = parseWhere(toks, from + 2, [Statement("SELECT", name) EXCEPT !.selectColumns = cols])
  BY DEF parseSelect
<1>2. n \in 1 .. N /\ \A i \in 1 .. n - 1 : toks[2 * i + 1].type = "COMMA"
  BY ColumnCount
<1> HIDE DEF n
<1>3. A[1] = <<k1>>
  <2>1. A[0] = <<>> BY DEF SoFar
  <2>2. A[1] = A[1 - 1] \o <<k1>>
    <3>1. "SELECT" \in Keyword BY Keywords
    <3>2. QED BY <1>0, <3>1, KeywordSays
  <2>3. 1 - 1 = 0 OBVIOUS
  <2> HIDE DEF k1
  <2>4. QED BY <2>1, <2>2, <2>3, Grow1
<1>4. from - 1 \in Nat /\ from \in Nat /\ A[from - 1] = <<k1>> \o selected
  <2>1. CASE star
    <3>1. 2 <= N /\ toks[2].type = "STAR" BY <2>1, Expect1
    <3>2. 2 \in 1 .. N BY <1>0, <3>1
    <3>3. toks[2].value = <<"*">> BY <3>1, <3>2 DEF SymbolTok
    <3>4. A[2] = A[2 - 1] \o <<toks[2].value>> BY <3>1, <3>2, Says
    <3>5. 2 - 1 = 1 /\ 3 - 1 = 2 OBVIOUS
    <3>6. selected = <<<<"*">>>> /\ from = 3 BY <2>1
    <3> HIDE DEF selected, from, k1
    <3>7. QED BY <1>3, <3>3, <3>4, <3>5, <3>6
  <2>2. CASE ~star
    <3>1. \A i \in 1 .. n : 2 * i \in 1 .. N /\ toks[2 * i].type = "IDENTIFIER"
      <4> SUFFICES ASSUME NEW i \in 1 .. n PROVE 2 * i \in 1 .. N /\ toks[2 * i].type = "IDENTIFIER"
        OBVIOUS
      <4>1. expect(toks, 2 * i, <<"IDENTIFIER">>) BY <1>1, <2>2
      <4>2. i \in Nat /\ i >= 1 /\ 2 * i \in Nat /\ 2 * i >= 1 BY <1>0, <1>2
      <4>3. 2 * i <= N /\ toks[2 * i].type = "IDENTIFIER" BY <4>1, <4>2, Expect1
      <4>4. QED BY <1>0, <4>2, <4>3
    <3> DEFINE c == [i \in 1 .. n |-> toks[2 * i].value]
    <3>2. c \in Seq(Word) /\ c # <<>> /\ A[2 * n] = A[1] \o c
      BY <1>2, <3>1, ColumnsSay
    <3>3. cols = c /\ from = 2 * n + 1 BY <2>2
    <3> HIDE DEF c, cols, from
    <3>4. selected = c BY <3>2, <3>3
    <3> HIDE DEF selected, k1
    <3>5. (2 * n + 1) - 1 = 2 * n /\ 2 * n \in Nat /\ 2 * n + 1 \in Nat BY <1>0, <1>2
    <3>6. QED BY <1>3, <3>2, <3>3, <3>4, <3>5
  <2>3. QED BY <2>1, <2>2
<1> HIDE DEF from
<1>5. from + 1 <= N /\ toks[from].type = "FROM" /\ toks[from + 1].type = "IDENTIFIER" /\ from # 0
  <2>1. from + 1 <= N /\ toks[from].type = "FROM" /\ toks[from + 1].type = "IDENTIFIER"
    BY <1>1, <1>4, Expect2
  <2>2. from # 0 BY <1>4
  <2>3. QED BY <2>1, <2>2
<1>6. from \in 1 .. N /\ from + 1 \in 1 .. N /\ from + 2 \in 1 .. N /\ (from + 1) - 1 = from
      /\ (from + 2) - 1 = from + 1
  <2>1. from \in 1 .. N /\ from + 1 \in 1 .. N BY <1>0, <1>4, <1>5
  <2> DEFINE h == from + 1
  <2>2. h \in 1 .. N /\ toks[h].type # "EOF" BY <1>5, <2>1
  <2> HIDE DEF h
  <2>3. h + 1 \in 1 .. N BY <2>2, NotLast
  <2>4. QED BY <1>0, <1>4, <2>1, <2>3 DEF h
<1> DEFINE x == A[from - 1]
<1>7. A[from] = x \o <<k2>> /\ x \in Seq(Word) /\ k2 \in Word
  <2>1. /\ toks[from].type \in Keyword => A[from] = A[from - 1] \o <<spelling[toks[from].type]>>
        /\ A[from - 1] \in Seq(Word) /\ \A k \in Keyword : spelling[k] \in Word
    BY <1>6, Says
  <2>2. QED BY <1>5, <2>1, Keywords
<1>8. A[from + 1] = A[from] \o <<name>> /\ name \in Word
  <2>1. A[from + 1] = A[(from + 1) - 1] \o <<name>> /\ name \in Word BY <1>5, <1>6, Says
  <2>2. QED BY <1>6, <2>1
<1>9. A[from + 1] = (<<k1>> \o selected) \o <<k2, name>>
  <2>1. x = <<k1>> \o selected BY <1>4
  <2> HIDE DEF x, name, k1, k2, selected
  <2>2. (x \o <<k2>>) \o <<name>> = x \o <<k2, name>> BY <1>7, <1>8, TwoMore
  <2>3. QED BY <1>7, <1>8, <2>1, <2>2
<1> HIDE DEF name, cols
<1>10. [Statement("SELECT", name) EXCEPT !.selectColumns = cols] = Chosen("SELECT", name, cols, NoWhere)
  BY DEF Statement, Chosen
<1>11. PICK r, where : /\ r \in 0 .. N /\ s = Chosen("SELECT", name, cols, where)
                       /\ A[r] = A[(from + 2) - 1] \o WhereWords(where)
  <2> DEFINE q == from + 2
  <2>1. WhereRead(toks, A, q, Chosen("SELECT", name, cols, NoWhere), s)
    BY <1>1, <1>6, <1>10 DEF WhereRead
  <2> HIDE DEF q
  <2>2. WhereTold(toks, A, q, "SELECT", name, cols, s)
    BY ONLY <2>1, WhereSays
  <2>3. QED BY <2>2 DEF WhereTold, q
<1>12. s.type = "SELECT" /\ s.tableName = name /\ s.where = where /\ s.selectColumns = cols
  BY <1>11 DEF Chosen
<1>13. Meaning(s) = <<k1>> \o selected \o <<k2, name>> \o WhereWords(where)
  BY <1>12 DEF Meaning, WhereWords
<1>14. QED BY <1>6, <1>9, <1>11, <1>13 DEF Begins

\* What parse returns says how the line begins.
LEMMA ParserKeeps ==
  ASSUME NEW toks \in Tokens, \A i \in 1 .. Len(toks) : SymbolTok(toks[i]),
         NEW s, s = parse(toks), s # ParseError
  PROVE  IsPrefix(Meaning(s), Words(toks))
<1>1. PICK A : SoFar(toks, A) /\ Words(toks) = A[Len(toks)]
  BY SoFarExists
<1>2. \/ s = parseCreateTable(toks)
      \/ s = parseInsert(toks)
      \/ toks[1].type = "SELECT" /\ s = parseSelect(toks)
      \/ s = parseDelete(toks)
  BY DEF parse
<1>3. Begins(toks, A, s)
  <2>1. CASE s = parseCreateTable(toks) BY <1>1, <2>1, CreateSays
  <2>2. CASE s = parseInsert(toks) BY <1>1, <2>2, InsertSays
  <2>3. CASE toks[1].type = "SELECT" /\ s = parseSelect(toks) BY <1>1, <2>3, SelectSays
  <2>4. CASE s = parseDelete(toks) BY <1>1, <2>4, DeleteSays
  <2>5. QED BY <1>2, <2>1, <2>2, <2>3, <2>4
<1>4. PICK r \in 0 .. Len(toks) : A[r] = Meaning(s)
  BY <1>3 DEF Begins
<1>5. IsPrefix(A[r], A[Len(toks)])
  BY <1>1, SoFarPrefix
<1>6. QED BY <1>1, <1>4, <1>5

\* What is executed stands at the start of the line, for every line that can be
\* typed: the parser drops, adds and moves no word.
THEOREM ParserSound ==
  Spec => []ParseSound
<1>1. EngineInv => ParseSound
  <2> SUFFICES ASSUME EngineInv, NEW toks, toks = handleInput(line), NEW s, s = parse(toks), s # ParseError
               PROVE  IsPrefix(Meaning(s), Words(toks))
    BY DEF ParseSound
  <2>1. line \in Text BY DEF EngineInv
  <2>2. toks \in Tokens BY <2>1, LexerType
  <2>3. \A i \in 1 .. Len(toks) : SymbolTok(toks[i]) BY <2>1, SymbolTokens
  <2>4. QED BY <2>2, <2>3, ParserKeeps
<1>2. QED BY <1>1, EngineCorrect, PTL
===============================================================================
