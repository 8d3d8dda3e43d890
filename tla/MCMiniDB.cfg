\* One table, of two columns or none, and three RIDs, an index of two entries, four changes,
\* and one slip while there was at most one change; keywords of one letter.
SPECIFICATION Spec
CONSTANTS
  IntMax = 99
  Letter <- Letters
  upper <- Upper
  spelling <- Spelling
  MaxRids = 3
  BPLUS_TREE_LEAF_MAX = 2
  IndexRows = 1
  Lines <- AllLines
  TypoChar <- Slips
  MaxTypos = 1
  TypoLog = 2
  MaxTables = 1
  MaxCells = 6
  MaxLog = 8
INVARIANTS TypeOK IndexSound RowCountCovers JoinRight LexFaithful ParseSound ParseComplete
PROPERTY ImplementsSqlTables
CHECK_DEADLOCK FALSE
