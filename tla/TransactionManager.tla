--------------------------- MODULE TransactionManager ---------------------------
(***************************************************************************)
(* Transactions over the lock manager: src/transaction/Transaction.cpp and *)
(* the threads that run one transaction each.  begin, commit and abort run *)
(* under TransactionManager::mutex_; commit and abort call unlockAll under *)
(* it, so each is one step.                                                *)
(*                                                                         *)
(* A thread follows what LockManager.cpp asks of its caller: after a       *)
(* refused request it aborts.  Ids are never used twice.                   *)
(***************************************************************************)
EXTENDS LockManager

VARIABLES nextTxnId,
          txnState,    \* Txn -> TxnState, "none" before begin
          strict       \* history: so far only commit and abort released locks

vars == <<lockVars, nextTxnId, txnState, strict>>

TxnState == {"none", "ACTIVE", "COMMITTED", "ABORTED"}

\* Type of every variable; only threads that are waiting can be woken.
TypeOK ==
  /\ LockTypeOK
  /\ nextTxnId \in 1 .. MaxTxn + 1
  /\ txnState \in [Txn -> TxnState]
  /\ strict \in BOOLEAN

Init ==
  /\ LockInit
  /\ nextTxnId = 1
  /\ txnState = [t \in Txn |-> "none"]
  /\ strict = TRUE

\* The thread of t can make a call.
Running(t) == txnState[t] = "ACTIVE" /\ call[t] = NoCall

begin ==
  /\ nextTxnId \in Txn
  /\ txnState' = [txnState EXCEPT ![nextTxnId] = "ACTIVE"]
  /\ nextTxnId' = nextTxnId + 1
  /\ UNCHANGED <<lockVars, strict>>

finish(t, state) ==
  /\ Running(t)
  /\ txnState' = [txnState EXCEPT ![t] = state]
  /\ unlockAll(t)
  /\ refused' = refused \ {t}
  /\ UNCHANGED <<nextTxnId, strict>>

commit(t) == t \notin refused /\ finish(t, "COMMITTED")

abort(t) == finish(t, "ABORTED")

lock(t) ==
  /\ Running(t) /\ t \notin refused
  /\ \E r \in Res, mode \in Mode :
       lockNow(t, r, mode) \/ lockRefuse(t, r, mode) \/ lockWait(t, r, mode)
  /\ UNCHANGED <<nextTxnId, txnState, strict>>

\* A single lock is released before the transaction is over.
release(t) ==
  /\ Running(t)
  /\ \E r \in Res : unlock(t, r)
  /\ strict' = FALSE
  /\ UNCHANGED <<nextTxnId, txnState>>

wait(t) ==
  /\ wake(t) \/ spuriousWakeup(t)
  /\ UNCHANGED <<nextTxnId, txnState, strict>>

Next ==
  \/ begin
  \/ \E t \in Txn : commit(t) \/ abort(t) \/ lock(t) \/ release(t) \/ wait(t)

Spec == Init /\ [][Next]_vars

\* A woken thread gets mutex_ in the end; a thread that is not waiting for a
\* lock finishes its transaction in the end.
Fairness ==
  \A t \in Txn :
    /\ WF_vars(wake(t) /\ UNCHANGED <<nextTxnId, txnState, strict>>)
    /\ WF_vars(commit(t) \/ abort(t))

LiveSpec == Spec /\ Fairness

-------------------------------------------------------------------------------
(* Properties *)

\* An exclusive lock is held by nobody else, whatever the order of barging,
\* upgrading and waking.
LockExclusion ==
  \A r \in Res : \A p, q \in lockTable[r] :
    p.granted /\ q.granted /\ p.txnId # q.txnId
      => p.mode = "SHARED" /\ q.mode = "SHARED"

\* A thread that sleeps in cv_.wait has been notified of every change that
\* made its predicate true: there is no lost wake-up.
NoLostWakeup ==
  \A t \in Waiting \ notified : ~CanGrant(t, call[t][1], call[t][2])

\* The reference a sleeping call has to its vector of requests stays valid: its
\* own pending request keeps the entry in the table; and only requests of
\* sleeping calls are pending.
PendingRequests ==
  /\ \A t \in Waiting : Request(t, call[t][2], FALSE) \in lockTable[call[t][1]]
  /\ \A r \in Res : \A q \in lockTable[r] : ~q.granted => call[q.txnId] = <<r, q.mode>>

\* The recorded wait-for graph has no cycle: detection comes before the wait.
WaitGraphAcyclic ==
  \A S \in SUBSET Txn : S # {} => \E t \in S : waitForGraph[t] \cap S = {}

\* The transactions whose granted requests conflict with t's request.
Conflicting(t, r, mode) ==
  {u \in Txn \ {t} : \E q \in lockTable[r] :
     q.txnId = u /\ q.granted /\ ~(q.mode = "SHARED" /\ mode = "SHARED")}

\* The transactions that keep t's waiting call asleep.
Blockers(t) == Conflicting(t, call[t][1], call[t][2])

\* Waiting for one of Obstacles, t would be in a set of transactions each of
\* which waits for another of the set.
RealDeadlock(t, Obstacles) ==
  \E S \in SUBSET Txn :
    /\ t \in S
    /\ Obstacles \cap S # {}
    /\ \A u \in S \ {t} : u \in Waiting /\ Blockers(u) \cap S # {}

\* A request is refused only for a real deadlock, as long as locks have been
\* released by commit and abort only.
RefusalJustified ==
  [][strict => \A t \in Txn, r \in Res, mode \in Mode :
       Running(t) /\ t \notin refused /\ lockRefuse(t, r, mode)
         => RealDeadlock(t, Conflicting(t, r, mode))]_vars

-------------------------------------------------------------------------------
(* The inductive invariant behind them *)

\* Ids from nextTxnId on have not been given out.
IdsFresh == \A t \in Txn : txnState[t] = "none" <=> t >= nextTxnId

\* Only an active transaction has requests, waits, or was refused; and one that
\* was refused is not waiting.
OwnersActive ==
  /\ \A r \in Res : \A q \in lockTable[r] : txnState[q.txnId] = "ACTIVE"
  /\ \A t \in Waiting : txnState[t] = "ACTIVE" /\ t \notin refused
  /\ \A t \in refused : txnState[t] = "ACTIVE"

\* A transaction that does not wait has no edges.
OnlyWaitersHaveEdges == \A t \in Txn \ Waiting : waitForGraph[t] = {}

\* An edge leads to a transaction that is over, or that blocks the call.
EdgesTruthful ==
  \A t \in Waiting : \A u \in waitForGraph[t] :
    txnState[u] \in {"COMMITTED", "ABORTED"} \/ u \in Blockers(t)

IndInv ==
  /\ TypeOK
  /\ LockExclusion
  /\ NoLostWakeup
  /\ PendingRequests
  /\ WaitGraphAcyclic
  /\ IdsFresh
  /\ OwnersActive
  /\ OnlyWaitersHaveEdges
  /\ (strict => EdgesTruthful)

-------------------------------------------------------------------------------
(* Progress, and what the headers promise *)

\* A lock call does not wait for ever where two transactions are begun at most;
\* among three, DeadlocksDetected is about calls that do.
EveryWaitEnds ==
  [](nextTxnId <= 3) => \A t \in Txn : call[t] # NoCall ~> call[t] = NoCall

\* LockManager.h: "Includes simple deadlock detection via wait-for graph".  No
\* set of sleeping threads waits for members of the set only.
DeadlocksDetected ==
  strict => \A S \in SUBSET (Waiting \ notified) :
    S # {} => \E t \in S : Blockers(t) \cap S = {}
================================================================================
