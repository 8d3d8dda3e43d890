\* One transaction; a record is torn and followed by others.
SPECIFICATION Spec
CONSTANTS
  TxnId = {x}
  MaxLSN = 3
  MaxCells = 6
  Garbage = garbage
INVARIANTS TypeOK LSNsIncrease CleanCommitDurable
PROPERTY ReadableKept
