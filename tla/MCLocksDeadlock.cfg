SPECIFICATION Spec
CONSTANTS
  MaxTxn = 3
  Res = {r1, r2}
  NoCall = NoCall
INVARIANT DeadlocksDetected
SYMMETRY Symmetry
CHECK_DEADLOCK FALSE
