------------------------------- MODULE Executors -------------------------------
(***************************************************************************)
(* src/query/Executor.cpp: how tuples are stored and how the operators of  *)
(* a query plan make rows from tables.  An operator that reads is its      *)
(* result: a schema and the rows that next returns, in that order, after   *)
(* the one init that an operator is given. IndexScanExecutor,              *)
(* FilterExecutor and ProjectionExecutor have no caller and are left out.  *)
(* The heap file of a table is a tuple store (PageManager,                 *)
(* ImplementsTupleStore), its B+ tree a map from keys to RIDs (BPlusTree,  *)
(* SearchRight).                                                           *)
(***************************************************************************)
EXTENDS Parser, FiniteSetsExt

CONSTANTS MaxRids,             \* bound on the RIDs of a table
          BPLUS_TREE_LEAF_MAX

ASSUME EngineAssumption == MaxRids \in Nat /\ BPLUS_TREE_LEAF_MAX \in Nat \ {0}

\* RIDs are numbered in the order in which scanTable visits them.
RID == 1 .. MaxRids

-------------------------------------------------------------------------------
(* serializeTuple, deserializeTuple *)

\* A cell is a type marker, an int, a length of 16 bits or a character.
cells(v) ==
  IF v.type = "INT" THEN <<1, v.int>> ELSE <<2, Len(v.text) % 2^16>> \o v.text

serializeTuple(tuple) == FlattenSeq([i \in DOMAIN tuple |-> cells(tuple[i])])

\* What is stored at an RID that has no tuple; readTuple cannot tell a tuple of
\* no bytes from it.
NoTuple == <<>>

\* Mutant: the last character is lost.
textAtShort(data, p) == SubSeq(data, p + 2, p + data[p + 1])

textAt(data, p) == SubSeq(data, p + 2, p + 1 + data[p + 1])

deserializeTuple(data, schema) ==
  LET read[i \in 0 .. Len(schema)] ==   \* after i columns
        IF i = 0 THEN [values |-> <<>>, offset |-> 1]
        ELSE LET r == read[i - 1]
                 p == r.offset
             IN  IF p > Len(data) THEN r
                 ELSE IF data[p] = 1
                 THEN [values |-> Append(r.values, IntValue(data[p + 1])), offset |-> p + 2]
                 ELSE [values |-> Append(r.values, TextValue(textAt(data, p))),
                       offset |-> p + 2 + data[p + 1]]
  IN  read[Len(schema)].values

-------------------------------------------------------------------------------
(* A table: what the catalog, the heap file and the index keep of it *)

NewTable(schema) ==
  [schema |-> schema, rowCount |-> 0, hasIndex |-> FALSE,
   heap |-> [rid \in RID |-> NoTuple],
   index |-> <<>>]

Live(info) == {rid \in RID : info.heap[rid] # NoTuple}

tupleAt(info, rid) == deserializeTuple(info.heap[rid], info.schema)

\* The RIDs whose tuples a scan with that predicate accepts.
matching(info, where) == {rid \in Live(info) : predicate(info.schema, where, tupleAt(info, rid))}

-------------------------------------------------------------------------------
(* The operators that read *)

Result(schema, rows) == [schema |-> schema, rows |-> rows]

\* The numbers of a finite set, the smallest first.
ascending(S) ==
  CHOOSE s \in [1 .. Cardinality(S) -> S] : \A i, j \in DOMAIN s : i < j => s[i] < s[j]

\* The rows at these positions, in their order.
rowsAt(rows, S) ==
  LET kept == ascending(S) IN [i \in DOMAIN kept |-> rows[kept[i]]]

SeqScanExecutor(info, where) ==
  LET rids == ascending(matching(info, where))
  IN  Result(info.schema, [i \in DOMAIN rids |-> tupleAt(info, rids[i])])

\* Mutant: a row of the left side finds one partner at most.
partnersFirst(rows, value, r) ==
  LET j == SelectInSeq(rows, LAMBDA t : t[r] = value) IN IF j = 0 THEN <<>> ELSE <<rows[j]>>

\* The rows with that value in column r.
partners(rows, value, r) == rowsAt(rows, {i \in DOMAIN rows : rows[i][r] = value})

\* init throws unless each side has its column.
NestedLoopJoinExecutor(left, right, leftCol, rightCol) ==
  LET l == findColumn(left.schema, leftCol)
      r == findColumn(right.schema, rightCol)
      pairs(i) == partners(right.rows, left.rows[i][l], r)
  IN  Result(left.schema \o right.schema,
             FlattenSeq([i \in DOMAIN left.rows |->
               [j \in DOMAIN pairs(i) |-> left.rows[i] \o pairs(i)[j]]]))

-------------------------------------------------------------------------------
(* InsertExecutor, DeleteExecutor *)

isKeyed(values) == values # <<>> /\ values[1].type = "INT"

\* The leaf may be full: tree->insert then splits it, and throws when the vector
\* of the nodes moves (BPlusTree, splitLeafThrows), as it does at the first split
\* of a tree that was never emptied: later the vector may have room.
mayThrow(info, values) ==
  /\ isKeyed(values) /\ values[1].int \notin DOMAIN info.index
  /\ Cardinality(DOMAIN info.index) >= BPLUS_TREE_LEAF_MAX

\* The index after the insertion; a key that is there keeps its RID.
treeInsert(info, values, rid) ==
  IF ~isKeyed(values) \/ values[1].int \in DOMAIN info.index THEN info.index
  ELSE [k \in DOMAIN info.index \cup {values[1].int} |->
          IF k = values[1].int THEN rid ELSE info.index[k]]

InsertExecutor(info, values, rid) ==
  [info EXCEPT !.heap[rid] = serializeTuple(values),
               !.index = treeInsert(info, values, rid),
               !.rowCount = @ + 1]

\* Mutant: the key 0 stays as well.
removedPositive(info, rids) ==
  {k \in DOMAIN info.index : k > 0 /\ \E rid \in rids :
     isKeyed(tupleAt(info, rid)) /\ tupleAt(info, rid)[1].int = k}

\* The keys that tree->remove is called with: -1 stands for none.
removedKeys(info, rids) ==
  {k \in DOMAIN info.index : k >= 0 /\ \E rid \in rids :
     isKeyed(tupleAt(info, rid)) /\ tupleAt(info, rid)[1].int = k}

\* Mutant: the statistics start afresh.
restCountReset(info, n) == 0

restCount(info, n) == IF info.rowCount >= n THEN info.rowCount - n ELSE 0

DeleteExecutor(info, where) ==
  LET rids == matching(info, where) IN
  [info EXCEPT
     !.heap = [rid \in RID |-> IF rid \in rids THEN NoTuple ELSE @[rid]],
     !.index = [k \in DOMAIN @ \ removedKeys(info, rids) |-> @[k]],
     !.rowCount = restCount(info, Cardinality(rids))]
================================================================================
