------------------------------ MODULE LockManager ------------------------------
(***************************************************************************)
(* The lock table of src/transaction/LockManager.cpp.  A call holds mutex_ *)
(* from its first line to its return, or until cv_.wait gives it up; so a  *)
(* call is one step, or one step up to the wait and one for each time the  *)
(* thread wakes and has mutex_ again.  A transaction is run by one thread  *)
(* and has at most one call under way.                                     *)
(*                                                                         *)
(* lockTable_[res] is a vector of requests.  Its order shows only in       *)
(* unlock, which erases the transaction's FIRST granted request: that is   *)
(* its shared one if it has both, because lockShared adds nothing for a    *)
(* transaction that has a granted request.  So the vector is a set here.   *)
(***************************************************************************)
EXTENDS Integers, FiniteSets

CONSTANTS MaxTxn,   \* bound on the number of transactions begun
          Res,      \* the ResourceIds
          NoCall    \* the transaction's thread is not waiting in a lock call

Txn == 1 .. MaxTxn
Mode == {"SHARED", "EXCLUSIVE"}
LockRequest == [txnId : Txn, mode : Mode, granted : BOOLEAN]
Call == Res \X Mode

ASSUME LockAssumption == MaxTxn \in Nat /\ NoCall \notin Call

VARIABLES lockTable,     \* Res -> set of LockRequest
          waitForGraph,  \* Txn -> the transactions it waits for
          call,          \* Txn -> the (res, mode) it waits for inside cv_.wait
          notified,      \* waiting threads that cv_ has woken
          refused        \* transactions whose last lock call returned false

lockVars == <<lockTable, waitForGraph, call, notified, refused>>

Waiting == {t \in Txn : call[t] # NoCall}

LockTypeOK ==
  /\ lockTable \in [Res -> SUBSET LockRequest]
  /\ waitForGraph \in [Txn -> SUBSET Txn]
  /\ call \in [Txn -> Call \cup {NoCall}]
  /\ notified \subseteq Waiting
  /\ refused \subseteq Txn

LockInit ==
  /\ lockTable = [r \in Res |-> {}]
  /\ waitForGraph = [t \in Txn |-> {}]
  /\ call = [t \in Txn |-> NoCall]
  /\ notified = {}
  /\ refused = {}

Request(t, mode, granted) == [txnId |-> t, mode |-> mode, granted |-> granted]

-------------------------------------------------------------------------------
(* lockShared and lockExclusive, up to the wait *)

\* t has a lock on r that serves the request: any for SHARED.
AlreadyHas(t, r, mode) ==
  \E q \in lockTable[r] :
    q.txnId = t /\ q.granted /\ (mode = "EXCLUSIVE" => q.mode = "EXCLUSIVE")

\* Mutant: lockExclusive looks for exclusive holders only.
CanGrantShared(t, r, mode) ==
  \A q \in lockTable[r] : q.txnId # t /\ q.granted => q.mode = "SHARED"

\* No other transaction has a conflicting granted request.
CanGrant(t, r, mode) ==
  \A q \in lockTable[r] :
    q.txnId # t /\ q.granted => mode = "SHARED" /\ q.mode = "SHARED"

\* Mutant: a transaction's own shared lock counts as an obstacle.
AllHolders(t, r) == {q.txnId : q \in {x \in lockTable[r] : x.granted}}

\* The transactions that are entered into the wait-for graph for t.
Holders(t, r) == {q.txnId : q \in {x \in lockTable[r] : x.granted /\ x.txnId # t}}

\* Mutant: no deadlock detection.
neverDeadlock(G, t) == FALSE

\* detectCycle from t finds a cycle: some set that t is in and that no walk
\* along G has to leave (DeadlockDetector checks the search itself).
hasDeadlock(G, t) ==
  \E S \in SUBSET Txn : t \in S /\ \A u \in S : G[u] \cap S # {}

\* The graph with t's edges to the holders of r.
WaitEdges(t, r) == [waitForGraph EXCEPT ![t] = @ \cup Holders(t, r)]

\* The call returns true at once.
lockNow(t, r, mode) ==
  /\ AlreadyHas(t, r, mode) \/ CanGrant(t, r, mode)
  /\ lockTable' = [lockTable EXCEPT ![r] =
       IF AlreadyHas(t, r, mode) THEN @ ELSE @ \cup {Request(t, mode, TRUE)}]
  /\ UNCHANGED <<waitForGraph, call, notified, refused>>

MustWait(t, r, mode) == ~AlreadyHas(t, r, mode) /\ ~CanGrant(t, r, mode)

\* The call returns false: "caller should abort this transaction".
lockRefuse(t, r, mode) ==
  /\ MustWait(t, r, mode)
  /\ hasDeadlock(WaitEdges(t, r), t)
  /\ waitForGraph' = [waitForGraph EXCEPT ![t] = {}]
  /\ refused' = refused \cup {t}
  /\ UNCHANGED <<lockTable, call, notified>>

\* The request is queued and cv_.wait gives up mutex_: its predicate is the
\* negation of the test that brought the call here, so it sleeps.
lockWait(t, r, mode) ==
  /\ MustWait(t, r, mode)
  /\ ~hasDeadlock(WaitEdges(t, r), t)
  /\ waitForGraph' = WaitEdges(t, r)
  /\ lockTable' = [lockTable EXCEPT ![r] = @ \cup {Request(t, mode, FALSE)}]
  /\ call' = [call EXCEPT ![t] = <<r, mode>>]
  /\ UNCHANGED <<notified, refused>>

-------------------------------------------------------------------------------
(* The wait *)

\* cv_.wait may return without a notification.
spuriousWakeup(t) ==
  /\ t \in Waiting \ notified
  /\ notified' = notified \cup {t}
  /\ UNCHANGED <<lockTable, waitForGraph, call, refused>>

\* A woken thread has mutex_ again and tests the predicate: it turns its
\* pending request into a granted one and returns true, or goes back to sleep.
wake(t) ==
  LET r == call[t][1]
      mode == call[t][2] IN
  /\ t \in notified
  /\ notified' = notified \ {t}
  /\ IF CanGrant(t, r, mode)
     THEN /\ lockTable' = [lockTable EXCEPT ![r] =
               {q \in @ : q.txnId # t \/ q.granted} \cup {Request(t, mode, TRUE)}]
          /\ waitForGraph' = [waitForGraph EXCEPT ![t] = {}]
          /\ call' = [call EXCEPT ![t] = NoCall]
     ELSE UNCHANGED <<lockTable, waitForGraph, call>>
  /\ UNCHANGED refused

-------------------------------------------------------------------------------
(* unlock and unlockAll *)

\* Mutant: notify_one.
notifyOne ==
  IF Waiting = {} THEN notified ELSE notified \cup {CHOOSE t \in Waiting : TRUE}

\* Mutant: a notification is kept for threads that do not wait yet.
notifyLatched == Txn

\* cv_.notify_all
notifyAll == Waiting

\* Mutant: unlock erases a request without a look at whose it is.
AnyRequest(t, r) == {CHOOSE q \in lockTable[r] : TRUE}

\* The granted request of t on r that comes first in the vector.
FirstGranted(t, r) ==
  LET mine == {q \in lockTable[r] : q.txnId = t /\ q.granted}
      shared == {q \in mine : q.mode = "SHARED"}
  IN  IF shared # {} THEN shared ELSE mine

unlock(t, r) ==
  /\ lockTable[r] # {}
  /\ lockTable' = [lockTable EXCEPT ![r] = @ \ FirstGranted(t, r)]
  /\ notified' = notifyAll
  /\ UNCHANGED <<waitForGraph, call, refused>>

\* Mutant: the whole entry of a resource goes with t's request.
eraseEntry(t, r) ==
  IF \E q \in lockTable[r] : q.txnId = t THEN {} ELSE lockTable[r]

\* erase(remove_if(...)) of t's requests, granted or not.
eraseAllOf(t, r) == {q \in lockTable[r] : q.txnId # t}

unlockAll(t) ==
  /\ lockTable' = [r \in Res |-> eraseAllOf(t, r)]
  /\ waitForGraph' = [waitForGraph EXCEPT ![t] = {}]
  /\ notified' = notifyAll
  /\ UNCHANGED call
================================================================================
