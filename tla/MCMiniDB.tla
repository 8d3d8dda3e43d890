---- MODULE MCMiniDB ----
EXTENDS MiniDB

\* Keywords of one letter.
Spelling ==
  [SELECT |-> <<"S">>, INSERT |-> <<"I">>, INTO |-> <<"O">>, VALUES |-> <<"V">>,
   FROM |-> <<"F">>, WHERE |-> <<"W">>, CREATE |-> <<"C">>, TABLE |-> <<"T">>,
   DELETE |-> <<"D">>, INT |-> <<"N">>, TEXT |-> <<"X">>]

Small == [d |-> "D", w |-> "W"]
Letters == {"S", "I", "O", "V", "F", "W", "C", "T", "D", "N", "X", "d", "w", "r", "k", "m", "a"}
Upper == [c \in Letters |-> IF c \in DOMAIN Small THEN Small[c] ELSE c]

r == <<"r">>
k == <<"k">>
m == <<"m">>
a == <<"a">>

IntColumn(name) == [name |-> name, type |-> "INT"]
TextColumn(name) == [name |-> name, type |-> "TEXT"]

Statements ==
  {[Statement("CREATE_TABLE", r) EXCEPT !.columns = <<IntColumn(k), TextColumn(m)>>],
   Statement("CREATE_TABLE", r), Statement("INSERT", r),
   [Statement("INSERT", r) EXCEPT !.values = <<<<"0">>, a>>],
   [Statement("INSERT", r) EXCEPT !.values = <<<<"1">>, a>>],
   [Statement("SELECT", r) EXCEPT !.selectColumns = <<m, k>>, !.where = <<k, <<"1">>>>],
   [Statement("SELECT", r) EXCEPT !.where = <<m, a>>],
   [Statement("DELETE_STMT", r) EXCEPT !.where = <<m, a>>]}

\* I O r V('-1','k'), which can only be typed with quotes; and d F r w k=0, in small
\* letters.
Typed ==
  {<<"I", " ", "O", " ", "r", " ", "V", "(", "'", "-", "1", "'", ",", "'", "k", "'", ")">>,
   <<"d", " ", "F", " ", "r", " ", "w", " ", "k", "=", "0">>}

Slips == {"\t", ",", "'", "1", "-"}

AllLines == {statementToString(s) : s \in Statements} \cup Typed
====
