\* The bounds of MCMiniDB.cfg.
SPECIFICATION Spec
CONSTANTS
  IntMax = 99
  Letter <- Letters
  upper <- Upper
  spelling <- Spelling
  MaxRids = 3
  BPLUS_TREE_LEAF_MAX = 2
  IndexRows = 1
  Lines <- AllLines
  TypoChar <- Slips
  MaxTypos = 1
  TypoLog = 2
  MaxTables = 1
  MaxCells = 6
  MaxLog = 8
PROPERTY RowsOutliveCrash
CHECK_DEADLOCK FALSE
