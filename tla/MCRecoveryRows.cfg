\* One page of three one-byte tuples; a process that may die, the one that recovers
\* from it and may die as well, and one more; a log of five records.
SPECIFICATION RecoverySpec
CONSTANTS
  PAGE_SIZE = 4
  HEADER_SIZE = 1
  MAX_SLOTS_PER_PAGE = 3
  MaxPages = 1
  a = a
  b = b
  ZeroByte = z
  Byte = {z, a, b}
  Tuple <- Tuples
  MaxTxn = 2
  MaxLog = 5
  MaxSessions = 3
INVARIANT RecoverRestores
CHECK_DEADLOCK FALSE
