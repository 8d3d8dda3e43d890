\* Three transactions and two resources; threads may also release single locks before
\* they finish.
SPECIFICATION LiveSpec
CONSTANTS
  MaxTxn = 3
  Res = {r1, r2}
  NoCall = NoCall
INVARIANTS TypeOK LockExclusion NoLostWakeup PendingRequests WaitGraphAcyclic
PROPERTIES RefusalJustified EveryWaitEnds
CHECK_DEADLOCK FALSE
