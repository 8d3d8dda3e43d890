------------------------------- MODULE Optimizer -------------------------------
(***************************************************************************)
(* src/optimizer/Optimizer.cpp: the plan of a statement, from the          *)
(* statement and the catalog's statistics.                                 *)
(***************************************************************************)
EXTENDS Executors

CONSTANT IndexRows   \* a table with more rows than this is worth an index scan

shouldUseIndex(catalog, s) ==
  /\ s.tableName \in DOMAIN catalog
  /\ LET info == catalog[s.tableName] IN
     /\ info.hasIndex
     /\ info.schema # <<>> /\ info.schema[1].name = s.where[1]
     /\ info.rowCount > IndexRows

rowCount(catalog, s) ==
  IF s.tableName \in DOMAIN catalog THEN catalog[s.tableName].rowCount ELSE 0

\* rowCount times estimateSelectivity, in tenths.
estimatedRows(catalog, s) ==
  LET n == rowCount(catalog, s) IN
  IF s.where = NoWhere THEN 10 * n
  ELSE IF n \in 1 .. 9 THEN 10 ELSE n

\* type is that of the top node, scan that of the node below it.
optimize(catalog, s) ==
  LET scan == IF s.type = "SELECT" /\ s.where # NoWhere /\ shouldUseIndex(catalog, s)
              THEN "INDEX_SCAN" ELSE "SEQ_SCAN"
      type == CASE s.type = "INSERT" -> "INSERT_OP"
                [] s.type = "DELETE_STMT" -> "DELETE_OP"
                [] s.type = "SELECT" -> IF s.selectColumns = <<>> THEN scan ELSE "PROJECTION"
                [] OTHER -> "NONE"
  IN  [type |-> type, scan |-> scan,
       estimatedRows |-> IF s.type = "INSERT" THEN 10 ELSE estimatedRows(catalog, s)]
================================================================================
