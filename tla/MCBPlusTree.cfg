\* Leaves and internal nodes of at most two keys; trees of up to three levels.
SPECIFICATION Spec
CONSTANTS
  Order = 3
  Entry <- Entries
  NoRID = NoRID
  MaxNodes = 7
INVARIANTS TypeOK SearchRight ScanRight LeafFill
CHECK_DEADLOCK FALSE
