--------------------------- MODULE TransactionProofs ---------------------------
(***************************************************************************)
(* For every number of transactions and resources: lock exclusion, no lost *)
(* wake-up, an acyclic wait-for graph, and refusals only for deadlocks.    *)
(***************************************************************************)
EXTENDS TransactionManager, TLAPS

\* The fields of a request.
LEMMA RequestFields ==
  \A t, mode, granted :
    /\ Request(t, mode, granted).txnId = t
    /\ Request(t, mode, granted).mode = mode
    /\ Request(t, mode, granted).granted = granted
    /\ t \in Txn /\ mode \in Mode /\ granted \in BOOLEAN
         => Request(t, mode, granted) \in LockRequest
BY DEF Request, LockRequest

\* A call in progress is a pair, and NoCall is not one.
LEMMA CallPairs ==
  /\ \A x \in Call : x[1] \in Res /\ x[2] \in Mode /\ x # NoCall
  /\ \A r \in Res, mode \in Mode :
       <<r, mode>> \in Call /\ <<r, mode>>[1] = r /\ <<r, mode>>[2] = mode
BY LockAssumption DEF Call

\* Initially nothing is requested.
LEMMA InitEstablishes == Init => IndInv
<1> SUFFICES ASSUME Init PROVE IndInv
  OBVIOUS
<1> USE DEF Init, LockInit
<1>1. Waiting = {}
  BY DEF Waiting
<1>2. TypeOK
  BY <1>1, LockAssumption DEF TypeOK, LockTypeOK, TxnState, Txn
<1>3. LockExclusion /\ NoLostWakeup /\ PendingRequests
  BY <1>1 DEF LockExclusion, NoLostWakeup, PendingRequests
<1>4. WaitGraphAcyclic
  BY DEF WaitGraphAcyclic
<1>5. IdsFresh
  BY LockAssumption DEF IdsFresh, Txn
<1>6. OwnersActive /\ OnlyWaitersHaveEdges /\ EdgesTruthful
  BY <1>1 DEF OwnersActive, OnlyWaitersHaveEdges, EdgesTruthful
<1>7. QED BY <1>2, <1>3, <1>4, <1>5, <1>6 DEF IndInv

-------------------------------------------------------------------------------
(* Facts about the tests of the code *)

\* A request that must wait conflicts with every other holder: a shared one only
\* waits for an exclusive lock, and that one has no other holder beside it.
LEMMA HoldersConflict ==
  ASSUME LockTypeOK, LockExclusion, NEW t \in Txn, NEW r \in Res, NEW mode \in Mode,
         ~CanGrant(t, r, mode)
  PROVE  Holders(t, r) = Conflicting(t, r, mode) /\ Holders(t, r) \subseteq Txn
<1>1. PICK p \in lockTable[r] : p.txnId # t /\ p.granted
                                /\ ~(mode = "SHARED" /\ p.mode = "SHARED")
  BY DEF CanGrant
<1>2. \A q \in lockTable[r] : q \in LockRequest
  BY DEF LockTypeOK
<1>3. Conflicting(t, r, mode) \subseteq Holders(t, r)
  BY DEF Conflicting, Holders
<1>4. ASSUME NEW u \in Holders(t, r) PROVE u \in Conflicting(t, r, mode)
  <2>1. PICK q \in lockTable[r] : q.granted /\ q.txnId = u /\ u # t
    BY DEF Holders
  <2>2. u \in Txn /\ q.mode \in Mode /\ p.mode \in Mode
    BY <1>1, <1>2, <2>1 DEF LockRequest
  <2>3. CASE mode = "EXCLUSIVE"
    BY <2>1, <2>2, <2>3 DEF Conflicting
  <2>4. CASE mode = "SHARED"
    <3>1. p.txnId = u
      BY <1>1, <2>1, <2>4 DEF LockExclusion
    <3>2. QED BY <1>1, <2>2, <2>4, <3>1 DEF Conflicting
  <2>5. QED BY <2>3, <2>4 DEF Mode
<1>5. QED BY <1>2, <1>3, <1>4 DEF Holders, LockRequest

\* Giving t edges that do not close a cycle keeps the graph acyclic.
LEMMA NoCycleAdded ==
  ASSUME WaitGraphAcyclic, NEW t \in Txn, NEW G, ~hasDeadlock(G, t),
         \A u \in Txn \ {t} : G[u] = waitForGraph[u]
  PROVE  \A S \in SUBSET Txn : S # {} => \E u \in S : G[u] \cap S = {}
<1>1. SUFFICES ASSUME NEW S \in SUBSET Txn, S # {}
               PROVE  \E u \in S : G[u] \cap S = {}
  OBVIOUS
<1>2. CASE t \in S
  BY <1>2 DEF hasDeadlock
<1>3. CASE t \notin S
  <2>1. PICK u \in S : waitForGraph[u] \cap S = {}
    BY <1>1 DEF WaitGraphAcyclic
  <2>2. u \in Txn \ {t}
    BY <1>3
  <2>3. QED BY <2>1, <2>2
<1>4. QED BY <1>2, <1>3

\* Removing a transaction's edges keeps the graph acyclic.
LEMMA NoCycleByErase ==
  ASSUME WaitGraphAcyclic, LockTypeOK, NEW t \in Txn,
         waitForGraph' = [waitForGraph EXCEPT ![t] = {}]
  PROVE  WaitGraphAcyclic'
<1>1. \A u \in Txn : waitForGraph'[u] \subseteq waitForGraph[u]
  BY DEF LockTypeOK
<1>2. SUFFICES ASSUME NEW S \in SUBSET Txn, S # {}
               PROVE  \E u \in S : waitForGraph'[u] \cap S = {}
  BY DEF WaitGraphAcyclic
<1>3. PICK u \in S : waitForGraph[u] \cap S = {}
  BY <1>2 DEF WaitGraphAcyclic
<1>4. QED BY <1>1, <1>3

-------------------------------------------------------------------------------
(* One lemma per operation *)

\* The invariant depends on the variables only.
LEMMA StutterKeeps == IndInv /\ UNCHANGED vars => IndInv'
<1> SUFFICES ASSUME IndInv, UNCHANGED vars PROVE IndInv'
  OBVIOUS
<1>1. UNCHANGED <<lockTable, waitForGraph, call, notified, refused, nextTxnId, txnState, strict>>
  BY DEF vars, lockVars
<1>2. TypeOK' /\ IdsFresh' /\ WaitGraphAcyclic' /\ OnlyWaitersHaveEdges'
  BY <1>1 DEF IndInv, TypeOK, LockTypeOK, IdsFresh, WaitGraphAcyclic, OnlyWaitersHaveEdges,
     Waiting
<1>3. LockExclusion' /\ OwnersActive' /\ PendingRequests'
  BY <1>1 DEF IndInv, LockExclusion, OwnersActive, PendingRequests, Waiting
<1>4. NoLostWakeup' /\ (strict => EdgesTruthful')
  BY <1>1 DEF IndInv, NoLostWakeup, EdgesTruthful, Waiting, CanGrant, Blockers, Conflicting
<1>5. QED BY <1>1, <1>2, <1>3, <1>4 DEF IndInv

\* A lock granted at once keeps the invariant.
LEMMA LockNowKeeps ==
  ASSUME IndInv, NEW t \in Txn, NEW r \in Res, NEW mode \in Mode,
         Running(t), lockNow(t, r, mode), UNCHANGED <<nextTxnId, txnState, strict>>
  PROVE  IndInv'
<1> DEFINE g == Request(t, mode, TRUE)
<1>0. TypeOK /\ LockTypeOK /\ LockExclusion /\ NoLostWakeup /\ PendingRequests
      /\ WaitGraphAcyclic /\ IdsFresh /\ OwnersActive /\ OnlyWaitersHaveEdges
      /\ (strict => EdgesTruthful)
  BY DEF IndInv, TypeOK
<1>1. UNCHANGED <<waitForGraph, call, notified, refused, nextTxnId, txnState, strict>>
  BY DEF lockNow
<1>2. CASE AlreadyHas(t, r, mode)
  <2>1. lockTable' = lockTable
    BY <1>0, <1>2 DEF lockNow, LockTypeOK
  <2>2. QED BY <1>1, <2>1, StutterKeeps DEF vars, lockVars
<1>3. CASE ~AlreadyHas(t, r, mode)
  <2>1. CanGrant(t, r, mode)
    BY <1>3 DEF lockNow
  <2>2. \A x \in Res : lockTable'[x] = IF x = r THEN lockTable[x] \cup {g} ELSE lockTable[x]
    BY <1>0, <1>3 DEF lockNow, LockTypeOK
  <2>3. g \in LockRequest /\ g.txnId = t /\ g.mode = mode /\ g.granted
    BY DEF Request, LockRequest
  <2> HIDE DEF g
  <2>4. TypeOK'
    <3>1. lockTable' \in [Res -> SUBSET LockRequest]
      BY <1>0, <1>3, <2>3 DEF lockNow, LockTypeOK, g
    <3>2. QED BY <1>0, <1>1, <3>1 DEF TypeOK, LockTypeOK, Waiting
  <2>5. LockExclusion'
    BY <1>0, <2>1, <2>2, <2>3, ZenonT(30) DEF LockExclusion, CanGrant
  <2>6. NoLostWakeup'
    <3>1. ASSUME NEW u \in Txn, NEW x \in Res, NEW m \in Mode, ~CanGrant(u, x, m)
          PROVE  ~CanGrant(u, x, m)'
      BY <2>2, <3>1 DEF CanGrant
    <3>2. \A u \in Waiting : call[u][1] \in Res /\ call[u][2] \in Mode
      BY <1>0, CallPairs DEF Waiting, LockTypeOK
    <3>3. Waiting \subseteq Txn
      BY DEF Waiting
    <3>4. QED BY <1>0, <1>1, <3>1, <3>2, <3>3 DEF NoLostWakeup, Waiting
  <2>7. PendingRequests'
    <3>1. \A u \in Waiting : call[u][1] \in Res
      BY <1>0, CallPairs DEF Waiting, LockTypeOK
    <3>2. \A u \in Waiting : Request(u, call[u][2], FALSE) \in lockTable'[call[u][1]]
      BY <1>0, <2>2, <3>1 DEF PendingRequests
    <3>3. \A x \in Res : \A q \in lockTable'[x] : ~q.granted => call[q.txnId] = <<x, q.mode>>
      BY <1>0, <2>2, <2>3, ZenonT(30) DEF PendingRequests
    <3>4. QED BY <1>1, <3>2, <3>3 DEF PendingRequests, Waiting
  <2>8. WaitGraphAcyclic' /\ IdsFresh' /\ OnlyWaitersHaveEdges'
    BY <1>0, <1>1 DEF WaitGraphAcyclic, IdsFresh, OnlyWaitersHaveEdges, Waiting
  <2>9. OwnersActive'
    <3>1. \A x \in Res : \A q \in lockTable'[x] : txnState[q.txnId] = "ACTIVE"
      BY <1>0, <2>2, <2>3 DEF OwnersActive, Running
    <3>2. QED BY <1>0, <1>1, <3>1 DEF OwnersActive, Waiting
  <2>10. strict => EdgesTruthful'
    <3>1. \A u \in Waiting : call[u][1] \in Res
      BY <1>0, CallPairs DEF Waiting, LockTypeOK
    <3>2. ASSUME NEW u \in Waiting PROVE Blockers(u) \subseteq Blockers(u)'
      BY <1>1, <2>2, <3>1 DEF Blockers, Conflicting
    <3>3. Waiting' = Waiting
      BY <1>1 DEF Waiting
    <3>4. QED BY <1>0, <1>1, <3>2, <3>3 DEF EdgesTruthful
  <2>11. QED BY <2>4, <2>5, <2>6, <2>7, <2>8, <2>9, <2>10 DEF IndInv
<1>4. QED BY <1>2, <1>3

\* A refused request keeps the invariant.
LEMMA LockRefuseKeeps ==
  ASSUME IndInv, NEW t \in Txn, NEW r \in Res, NEW mode \in Mode,
         Running(t), lockRefuse(t, r, mode), UNCHANGED <<nextTxnId, txnState, strict>>
  PROVE  IndInv'
<1>0. TypeOK /\ LockTypeOK /\ LockExclusion /\ NoLostWakeup /\ PendingRequests
      /\ WaitGraphAcyclic /\ IdsFresh /\ OwnersActive /\ OnlyWaitersHaveEdges
      /\ (strict => EdgesTruthful)
  BY DEF IndInv, TypeOK
<1>1. /\ waitForGraph' = [waitForGraph EXCEPT ![t] = {}]
      /\ refused' = refused \cup {t}
      /\ UNCHANGED <<lockTable, call, notified, nextTxnId, txnState, strict>>
  BY DEF lockRefuse
<1>2. Waiting' = Waiting /\ t \notin Waiting /\ txnState[t] = "ACTIVE"
  BY <1>1 DEF Waiting, Running
<1>3. waitForGraph' = waitForGraph
  BY <1>0, <1>1, <1>2 DEF OnlyWaitersHaveEdges, LockTypeOK
<1>4. TypeOK'
  BY <1>0, <1>1, <1>2, <1>3 DEF TypeOK, LockTypeOK
<1>5. LockExclusion' /\ NoLostWakeup' /\ PendingRequests'
  <2>1. LockExclusion' /\ PendingRequests'
    BY <1>0, <1>1, <1>2 DEF LockExclusion, PendingRequests
  <2>2. NoLostWakeup'
    BY <1>0, <1>1, <1>2 DEF NoLostWakeup, CanGrant
  <2>3. QED BY <2>1, <2>2
<1>6. WaitGraphAcyclic' /\ IdsFresh' /\ OnlyWaitersHaveEdges'
  BY <1>0, <1>1, <1>2, <1>3 DEF WaitGraphAcyclic, IdsFresh, OnlyWaitersHaveEdges
<1>7. OwnersActive'
  BY <1>0, <1>1, <1>2 DEF OwnersActive
<1>8. strict => EdgesTruthful'
  BY <1>0, <1>1, <1>2, <1>3 DEF EdgesTruthful, Blockers, Conflicting
<1>9. QED BY <1>4, <1>5, <1>6, <1>7, <1>8 DEF IndInv

\* A request that goes to sleep keeps the invariant.
LEMMA LockWaitKeeps ==
  ASSUME IndInv, NEW t \in Txn, NEW r \in Res, NEW mode \in Mode,
         Running(t), t \notin refused, lockWait(t, r, mode),
         UNCHANGED <<nextTxnId, txnState, strict>>
  PROVE  IndInv'
<1> DEFINE p == Request(t, mode, FALSE)
           G == WaitEdges(t, r)
<1>0. TypeOK /\ LockTypeOK /\ LockExclusion /\ NoLostWakeup /\ PendingRequests
      /\ WaitGraphAcyclic /\ IdsFresh /\ OwnersActive /\ OnlyWaitersHaveEdges
      /\ (strict => EdgesTruthful)
  BY DEF IndInv, TypeOK
<1>1. /\ ~CanGrant(t, r, mode) /\ ~hasDeadlock(G, t)
      /\ waitForGraph' = G
      /\ call' = [call EXCEPT ![t] = <<r, mode>>]
      /\ UNCHANGED <<notified, refused, nextTxnId, txnState, strict>>
  BY DEF lockWait, MustWait
<1>2. \A x \in Res : lockTable'[x] = IF x = r THEN lockTable[x] \cup {p} ELSE lockTable[x]
  BY <1>0 DEF lockWait, LockTypeOK
<1>3. p \in LockRequest /\ p.txnId = t /\ p.mode = mode /\ ~p.granted
  BY DEF Request, LockRequest
<1>4. lockTable' \in [Res -> SUBSET LockRequest]
  BY <1>0, <1>3 DEF lockWait, LockTypeOK
<1>5. p = Request(t, mode, FALSE)
  OBVIOUS
<1> HIDE DEF p
<1>6. Holders(t, r) = Conflicting(t, r, mode) /\ Holders(t, r) \subseteq Txn
  BY <1>0, <1>1, HoldersConflict
<1>7. /\ t \notin Waiting /\ waitForGraph[t] = {} /\ txnState[t] = "ACTIVE"
      /\ Waiting' = Waiting \cup {t}
      /\ \A u \in Waiting : call'[u] = call[u]
      /\ call'[t] = <<r, mode>>
  BY <1>0, <1>1, CallPairs DEF Waiting, Running, OnlyWaitersHaveEdges, LockTypeOK
<1>8. /\ G \in [Txn -> SUBSET Txn] /\ G[t] = Holders(t, r)
      /\ \A u \in Txn \ {t} : G[u] = waitForGraph[u]
  BY <1>0, <1>6, <1>7 DEF WaitEdges, LockTypeOK
<1> HIDE DEF G
<1>9. TypeOK'
  BY <1>0, <1>1, <1>4, <1>7, <1>8, CallPairs DEF TypeOK, LockTypeOK
<1>10. LockExclusion'
  BY <1>0, <1>2, <1>3 DEF LockExclusion
<1>11. \A u \in Txn, x \in Res, m \in Mode : CanGrant(u, x, m)' <=> CanGrant(u, x, m)
  BY <1>2, <1>3 DEF CanGrant
<1>12. \A u \in Waiting : u \in Txn /\ call[u][1] \in Res /\ call[u][2] \in Mode
  BY <1>0, CallPairs DEF Waiting, LockTypeOK
<1>13. NoLostWakeup'
  <2>1. SUFFICES ASSUME NEW u \in Waiting' \ notified'
                 PROVE  ~CanGrant(u, call[u][1], call[u][2])'
    BY DEF NoLostWakeup
  <2>2. CASE u = t
    <3>1. ~CanGrant(t, r, mode)'
      BY <1>1, <1>11
    <3>2. QED BY <1>7, <2>2, <3>1 DEF CanGrant
  <2>3. CASE u # t
    <3>1. u \in Waiting \ notified /\ call'[u] = call[u]
      BY <1>1, <1>7, <2>1, <2>3
    <3> DEFINE x == call[u][1]
               m == call[u][2]
    <3>2. ~CanGrant(u, x, m) /\ x \in Res /\ m \in Mode /\ u \in Txn
      BY <1>0, <1>12, <3>1 DEF NoLostWakeup
    <3>3. \E q \in lockTable'[x] :
            q.txnId # u /\ q.granted /\ ~(m = "SHARED" /\ q.mode = "SHARED")
      BY <1>2, <3>2 DEF CanGrant
    <3>4. QED BY <3>1, <3>3 DEF CanGrant
  <2>4. QED BY <2>2, <2>3
<1>14. PendingRequests'
  <2>1. ASSUME NEW u \in Waiting'
        PROVE  Request(u, call'[u][2], FALSE) \in lockTable'[call'[u][1]]
    <3>1. CASE u = t
      <4>1. call'[u][1] = r /\ call'[u][2] = mode
        BY <1>7, <3>1, CallPairs
      <4>2. p \in lockTable'[r]
        BY <1>2
      <4>3. QED BY <1>5, <3>1, <4>1, <4>2
    <3>2. CASE u # t
      BY <1>0, <1>2, <1>7, <1>12, <2>1, <3>2 DEF PendingRequests
    <3>3. QED BY <3>1, <3>2
  <2>2. ASSUME NEW x \in Res, NEW q \in lockTable'[x], ~q.granted
        PROVE  call'[q.txnId] = <<x, q.mode>>
    <3>1. CASE x = r /\ q = p
      BY <1>3, <1>7, <3>1
    <3>2. CASE q \in lockTable[x]
      <4>1. call[q.txnId] = <<x, q.mode>> /\ q.txnId \in Txn /\ q.mode \in Mode
        BY <1>0, <2>2, <3>2 DEF PendingRequests, LockTypeOK, LockRequest
      <4>2. q.txnId \in Waiting
        BY <4>1, CallPairs DEF Waiting
      <4>3. QED BY <1>7, <4>1, <4>2
    <3>3. QED BY <1>2, <2>2, <3>1, <3>2
  <2>3. QED BY <2>1, <2>2 DEF PendingRequests, Request
<1>15. WaitGraphAcyclic'
  <2>1. \A S \in SUBSET Txn : S # {} => \E u \in S : G[u] \cap S = {}
    BY <1>0, <1>1, <1>8, NoCycleAdded
  <2>2. QED BY <1>1, <2>1 DEF WaitGraphAcyclic
<1>16. IdsFresh' /\ OnlyWaitersHaveEdges'
  BY <1>0, <1>1, <1>7, <1>8 DEF IdsFresh, OnlyWaitersHaveEdges
<1>17. OwnersActive'
  <2>1. \A x \in Res : \A q \in lockTable'[x] : txnState[q.txnId] = "ACTIVE"
    <3>1. TAKE x \in Res
    <3>0. TAKE q \in lockTable'[x]
    <3>2. CASE q \in lockTable[x]
      BY <1>0, <3>2 DEF OwnersActive
    <3>3. CASE q = p
      BY <1>3, <1>7, <3>3
    <3>4. q \in lockTable[x] \/ q = p
      BY <1>2
    <3>5. QED BY <3>2, <3>3, <3>4
  <2>2. QED BY <1>0, <1>1, <1>7, <2>1 DEF OwnersActive
<1>18. strict => EdgesTruthful'
  <2>1. \A u \in Txn, x \in Res, m \in Mode :
          Conflicting(u, x, m)' = Conflicting(u, x, m)
    BY <1>2, <1>3 DEF Conflicting
  <2>2. \A u \in Waiting : Blockers(u)' = Blockers(u)
    BY <1>7, <1>12, <2>1 DEF Blockers
  <2>3. Blockers(t)' = Holders(t, r)
    BY <1>6, <1>7, <2>1, CallPairs DEF Blockers
  <2>4. QED BY <1>0, <1>1, <1>7, <1>8, <1>12, <2>2, <2>3 DEF EdgesTruthful
<1>19. QED BY <1>9, <1>10, <1>13, <1>14, <1>15, <1>16, <1>17, <1>18 DEF IndInv

\* Waking up, with or without the lock, keeps the invariant.
LEMMA WakeKeeps ==
  ASSUME IndInv, NEW t \in Txn, wake(t), UNCHANGED <<nextTxnId, txnState, strict>>
  PROVE  IndInv'
<1> DEFINE r == call[t][1]
           mode == call[t][2]
           g == Request(t, mode, TRUE)
<1>0. TypeOK /\ LockTypeOK /\ LockExclusion /\ NoLostWakeup /\ PendingRequests
      /\ WaitGraphAcyclic /\ IdsFresh /\ OwnersActive /\ OnlyWaitersHaveEdges
      /\ (strict => EdgesTruthful)
  BY DEF IndInv, TypeOK
<1>1. t \in Waiting /\ t \in notified /\ notified' = notified \ {t}
      /\ UNCHANGED <<refused, nextTxnId, txnState, strict>>
  BY <1>0 DEF wake, LockTypeOK
<1>2. r \in Res /\ mode \in Mode
  BY <1>0, <1>1, CallPairs DEF Waiting, LockTypeOK
<1>3. \A u \in Waiting : u \in Txn /\ call[u][1] \in Res /\ call[u][2] \in Mode
  BY <1>0, CallPairs DEF Waiting, LockTypeOK
<1>4. CASE ~CanGrant(t, r, mode)
  <2>1. UNCHANGED <<lockTable, waitForGraph, call>>
    BY <1>4 DEF wake
  <2>2. Waiting' = Waiting
    BY <2>1 DEF Waiting
  <2>3. TypeOK' /\ IdsFresh' /\ WaitGraphAcyclic' /\ OnlyWaitersHaveEdges'
    BY <1>0, <1>1, <2>1, <2>2 DEF TypeOK, LockTypeOK, IdsFresh, WaitGraphAcyclic,
       OnlyWaitersHaveEdges
  <2>4. LockExclusion' /\ OwnersActive' /\ PendingRequests'
    BY <1>0, <1>1, <2>1, <2>2 DEF LockExclusion, OwnersActive, PendingRequests
  <2>5. NoLostWakeup'
    BY <1>0, <1>1, <1>4, <2>1, <2>2 DEF NoLostWakeup, CanGrant
  <2>6. strict => EdgesTruthful'
    BY <1>0, <1>1, <2>1, <2>2 DEF EdgesTruthful, Blockers, Conflicting
  <2>7. QED BY <2>3, <2>4, <2>5, <2>6 DEF IndInv
<1>5. CASE CanGrant(t, r, mode)
  <2>1. /\ waitForGraph' = [waitForGraph EXCEPT ![t] = {}]
        /\ call' = [call EXCEPT ![t] = NoCall]
        /\ lockTable' = [lockTable EXCEPT ![r] =
             {q \in @ : q.txnId # t \/ q.granted} \cup {g}]
    BY <1>5 DEF wake
  <2>2. g \in LockRequest /\ g.txnId = t /\ g.mode = mode /\ g.granted
    BY <1>2 DEF Request, LockRequest
  <2> HIDE DEF g
  <2>3. /\ lockTable' \in [Res -> SUBSET LockRequest]
        /\ \A x \in Res : lockTable'[x] =
             IF x = r THEN {q \in lockTable[x] : q.txnId # t \/ q.granted} \cup {g}
                      ELSE lockTable[x]
    BY <1>0, <1>2, <2>1, <2>2 DEF LockTypeOK
  <2>4. Waiting' = Waiting \ {t} /\ \A u \in Waiting \ {t} : call'[u] = call[u]
    BY <1>0, <2>1 DEF Waiting, LockTypeOK
  <2> HIDE DEF r, mode
  <2>5. TypeOK'
    BY <1>0, <1>1, <2>1, <2>3, <2>4 DEF TypeOK, LockTypeOK
  <2>6. LockExclusion'
    BY <1>0, <1>5, <2>2, <2>3 DEF LockExclusion, CanGrant
  <2>7. \A x \in Res : \A q \in lockTable[x] : q.granted => q \in lockTable'[x]
    BY <2>3
  <2>8. NoLostWakeup'
    <3>1. SUFFICES ASSUME NEW u \in Waiting' \ notified'
                   PROVE  ~CanGrant(u, call[u][1], call[u][2])'
      BY DEF NoLostWakeup
    <3>2. u \in Waiting \ notified /\ call'[u] = call[u]
      BY <1>1, <2>4, <3>1
    <3> DEFINE x == call[u][1]
               m == call[u][2]
    <3>3. ~CanGrant(u, x, m) /\ x \in Res
      BY <1>0, <1>3, <3>2 DEF NoLostWakeup
    <3>4. \E q \in lockTable'[x] :
            q.txnId # u /\ q.granted /\ ~(m = "SHARED" /\ q.mode = "SHARED")
      BY <2>7, <3>3 DEF CanGrant
    <3>5. QED BY <3>2, <3>4 DEF CanGrant
  <2>9. PendingRequests'
    <3>1. ASSUME NEW u \in Waiting'
          PROVE  Request(u, call'[u][2], FALSE) \in lockTable'[call'[u][1]]
      <4>1. u \in Waiting /\ u # t /\ call'[u] = call[u]
        BY <2>4
      <4>2. Request(u, call[u][2], FALSE) \in lockTable[call[u][1]] /\ call[u][1] \in Res
        BY <1>0, <1>3, <4>1 DEF PendingRequests
      <4> DEFINE q == Request(u, call[u][2], FALSE)
      <4>3. q.txnId = u /\ q \in lockTable[call[u][1]]
        BY <4>2, RequestFields
      <4> HIDE DEF q
      <4>4. q \in lockTable'[call[u][1]]
        BY <2>3, <4>1, <4>2, <4>3
      <4>5. QED BY <4>1, <4>4 DEF q
    <3>2. ASSUME NEW x \in Res, NEW q \in lockTable'[x], ~q.granted
          PROVE  call'[q.txnId] = <<x, q.mode>>
      <4>1. q \in lockTable[x] /\ (x = r => q.txnId # t)
        BY <2>2, <2>3, <3>2
      <4>2. call[q.txnId] = <<x, q.mode>> /\ q.txnId \in Txn /\ q.mode \in Mode
        BY <1>0, <3>2, <4>1 DEF PendingRequests, LockTypeOK, LockRequest
      <4>3. q.txnId # t
        BY <4>1, <4>2 DEF r
      <4>4. q.txnId \in Waiting
        BY <4>2, CallPairs DEF Waiting
      <4>5. QED BY <2>4, <4>2, <4>3, <4>4
    <3>3. QED BY <3>1, <3>2 DEF PendingRequests, Request
  <2>10. WaitGraphAcyclic'
    BY <1>0, <2>1, NoCycleByErase
  <2>11. IdsFresh' /\ OnlyWaitersHaveEdges'
    BY <1>0, <1>1, <2>1, <2>4 DEF IdsFresh, OnlyWaitersHaveEdges, LockTypeOK
  <2>12. OwnersActive'
    <3>1. \A x \in Res : \A q \in lockTable'[x] : txnState[q.txnId] = "ACTIVE"
      BY <1>0, <1>1, <2>2, <2>3 DEF OwnersActive
    <3>2. QED BY <1>0, <1>1, <2>4, <3>1 DEF OwnersActive
  <2>13. strict => EdgesTruthful'
    <3>1. ASSUME NEW u \in Waiting' PROVE Blockers(u) \subseteq Blockers(u)'
      <4>1. u \in Waiting /\ call'[u] = call[u] /\ call[u][1] \in Res
        BY <1>3, <2>4
      <4>2. QED BY <2>7, <4>1 DEF Blockers, Conflicting
    <3>2. ASSUME NEW u \in Waiting' PROVE u \in Waiting /\ waitForGraph'[u] = waitForGraph[u]
      BY <1>0, <1>3, <2>1, <2>4 DEF LockTypeOK
    <3>3. QED BY <1>0, <1>1, <3>1, <3>2 DEF EdgesTruthful
  <2>14. QED BY <2>5, <2>6, <2>8, <2>9, <2>10, <2>11, <2>12, <2>13 DEF IndInv
<1>6. QED BY <1>4, <1>5

\* A spurious wake-up keeps the invariant.
LEMMA SpuriousKeeps ==
  ASSUME IndInv, NEW t \in Txn, spuriousWakeup(t), UNCHANGED <<nextTxnId, txnState, strict>>
  PROVE  IndInv'
<1>1. /\ t \in Waiting /\ notified' = notified \cup {t}
      /\ UNCHANGED <<lockTable, waitForGraph, call, refused, nextTxnId, txnState, strict>>
  BY DEF spuriousWakeup
<1>2. Waiting' = Waiting
  BY <1>1 DEF Waiting
<1>3. TypeOK' /\ IdsFresh' /\ WaitGraphAcyclic' /\ OnlyWaitersHaveEdges'
  BY <1>1, <1>2 DEF IndInv, TypeOK, LockTypeOK, IdsFresh, WaitGraphAcyclic,
     OnlyWaitersHaveEdges
<1>4. LockExclusion' /\ OwnersActive' /\ PendingRequests'
  BY <1>1, <1>2 DEF IndInv, LockExclusion, OwnersActive, PendingRequests
<1>5. NoLostWakeup'
  BY <1>1, <1>2 DEF IndInv, NoLostWakeup, CanGrant
<1>6. strict => EdgesTruthful'
  BY <1>1, <1>2 DEF IndInv, EdgesTruthful, Blockers, Conflicting
<1>7. QED BY <1>3, <1>4, <1>5, <1>6 DEF IndInv

\* unlock keeps the invariant.
LEMMA UnlockKeeps ==
  ASSUME IndInv, NEW t \in Txn, NEW r \in Res, unlock(t, r), strict' = FALSE,
         UNCHANGED <<nextTxnId, txnState>>
  PROVE  IndInv'
<1>0. TypeOK /\ LockTypeOK /\ LockExclusion /\ NoLostWakeup /\ PendingRequests
      /\ WaitGraphAcyclic /\ IdsFresh /\ OwnersActive /\ OnlyWaitersHaveEdges
  BY DEF IndInv, TypeOK
<1>1. /\ notified' = Waiting
      /\ strict' = FALSE
      /\ UNCHANGED <<waitForGraph, call, refused, nextTxnId, txnState>>
  BY DEF unlock, notifyAll
<1>2. /\ lockTable' \in [Res -> SUBSET LockRequest]
      /\ \A x \in Res : lockTable'[x] \subseteq lockTable[x]
      /\ \A x \in Res : \A q \in lockTable[x] : ~q.granted => q \in lockTable'[x]
  BY <1>0 DEF unlock, FirstGranted, LockTypeOK
<1>3. Waiting' = Waiting
  BY <1>1 DEF Waiting
<1>4. TypeOK' /\ IdsFresh' /\ WaitGraphAcyclic' /\ OnlyWaitersHaveEdges'
  <2>1. strict' \in BOOLEAN
    BY <1>1
  <2>2. TypeOK'
    BY <1>0, <1>1, <1>2, <1>3, <2>1 DEF TypeOK, LockTypeOK
  <2>3. IdsFresh' /\ WaitGraphAcyclic' /\ OnlyWaitersHaveEdges'
    BY <1>0, <1>1, <1>3 DEF IdsFresh, WaitGraphAcyclic, OnlyWaitersHaveEdges
  <2>4. QED BY <2>2, <2>3
<1>5. LockExclusion' /\ OwnersActive'
  BY <1>0, <1>1, <1>2, <1>3 DEF LockExclusion, OwnersActive
<1>6. PendingRequests'
  <2>1. \A u \in Waiting : u \in Txn /\ call[u][1] \in Res
    BY <1>0, CallPairs DEF Waiting, LockTypeOK
  <2>2. ASSUME NEW u \in Waiting
        PROVE  Request(u, call[u][2], FALSE) \in lockTable'[call[u][1]]
    <3> DEFINE q == Request(u, call[u][2], FALSE)
    <3>1. q \in lockTable[call[u][1]]
      BY <1>0 DEF PendingRequests
    <3>2. q.txnId = u /\ ~q.granted
      BY RequestFields
    <3> HIDE DEF q
    <3>3. q \in lockTable'[call[u][1]]
      BY <1>2, <2>1, <3>1, <3>2
    <3>4. QED BY <3>3 DEF q
  <2>3. \A x \in Res : \A q \in lockTable'[x] : ~q.granted => call[q.txnId] = <<x, q.mode>>
    BY <1>0, <1>2 DEF PendingRequests
  <2>4. QED BY <1>1, <1>3, <2>2, <2>3 DEF PendingRequests
<1>7. NoLostWakeup'
  BY <1>1, <1>3 DEF NoLostWakeup
<1>8. QED BY <1>1, <1>4, <1>5, <1>6, <1>7 DEF IndInv

\* commit and abort keep the invariant.
LEMMA FinishKeeps ==
  ASSUME IndInv, NEW t \in Txn, NEW state \in {"COMMITTED", "ABORTED"}, finish(t, state)
  PROVE  IndInv'
<1>0. TypeOK /\ LockTypeOK /\ LockExclusion /\ NoLostWakeup /\ PendingRequests
      /\ WaitGraphAcyclic /\ IdsFresh /\ OwnersActive /\ OnlyWaitersHaveEdges
      /\ (strict => EdgesTruthful)
  BY DEF IndInv, TypeOK
<1>1. /\ notified' = Waiting /\ refused' = refused \ {t}
      /\ waitForGraph' = [waitForGraph EXCEPT ![t] = {}]
      /\ txnState' = [txnState EXCEPT ![t] = state]
      /\ UNCHANGED <<call, nextTxnId, strict>>
      /\ txnState[t] = "ACTIVE" /\ t \notin Waiting
  BY DEF finish, unlockAll, notifyAll, Running, Waiting
<1>2. /\ lockTable' \in [Res -> SUBSET LockRequest]
      /\ \A x \in Res : lockTable'[x] = {q \in lockTable[x] : q.txnId # t}
  BY <1>0 DEF finish, unlockAll, eraseAllOf, LockTypeOK
<1>3. Waiting' = Waiting
  BY <1>1 DEF Waiting
<1>4. /\ \A u \in Txn : txnState'[u] = IF u = t THEN state ELSE txnState[u]
      /\ waitForGraph' = waitForGraph
  BY <1>0, <1>1 DEF TypeOK, LockTypeOK, OnlyWaitersHaveEdges
<1>5. TypeOK'
  BY <1>0, <1>1, <1>2, <1>3, <1>4 DEF TypeOK, LockTypeOK, TxnState
<1>6. IdsFresh' /\ WaitGraphAcyclic' /\ OnlyWaitersHaveEdges'
  BY <1>0, <1>1, <1>3, <1>4 DEF IdsFresh, WaitGraphAcyclic, OnlyWaitersHaveEdges
<1>7. LockExclusion'
  BY <1>0, <1>2 DEF LockExclusion
<1>8. OwnersActive'
  <2>1. \A x \in Res : \A q \in lockTable'[x] : txnState'[q.txnId] = "ACTIVE"
    BY <1>0, <1>2, <1>4 DEF OwnersActive, LockTypeOK, LockRequest
  <2>2. \A u \in Waiting : txnState'[u] = "ACTIVE" /\ u \notin refused'
    BY <1>0, <1>1, <1>4 DEF OwnersActive, Waiting
  <2>3. \A u \in refused' : txnState'[u] = "ACTIVE"
    BY <1>0, <1>1, <1>4 DEF OwnersActive, LockTypeOK
  <2>4. QED BY <1>3, <2>1, <2>2, <2>3 DEF OwnersActive
<1>9. \A u \in Waiting : u \in Txn /\ u # t /\ call[u][1] \in Res
  BY <1>0, <1>1, CallPairs DEF Waiting, LockTypeOK
<1>10. PendingRequests'
  <2>1. ASSUME NEW u \in Waiting
        PROVE  Request(u, call[u][2], FALSE) \in lockTable'[call[u][1]]
    <3> DEFINE q == Request(u, call[u][2], FALSE)
    <3>1. q \in lockTable[call[u][1]]
      BY <1>0 DEF PendingRequests
    <3>2. q.txnId = u /\ ~q.granted
      BY RequestFields
    <3> HIDE DEF q
    <3>3. q \in lockTable'[call[u][1]]
      BY <1>2, <1>9, <3>1, <3>2
    <3>4. QED BY <3>3 DEF q
  <2>2. \A x \in Res : \A q \in lockTable'[x] : ~q.granted => call[q.txnId] = <<x, q.mode>>
    BY <1>0, <1>2 DEF PendingRequests
  <2>3. QED BY <1>1, <1>3, <2>1, <2>2 DEF PendingRequests
<1>11. NoLostWakeup'
  BY <1>1, <1>3 DEF NoLostWakeup
<1>12. strict => EdgesTruthful'
  <2>1. ASSUME NEW u \in Waiting PROVE Blockers(u) \ {t} \subseteq Blockers(u)'
    BY <1>1, <1>2, <1>9 DEF Blockers, Conflicting
  <2>2. ASSUME strict, NEW u \in Waiting, NEW v \in waitForGraph[u]
        PROVE  txnState'[v] \in {"COMMITTED", "ABORTED"} \/ v \in Blockers(u)'
    <3>1. v \in Txn
      BY <1>0, <1>9, <2>2 DEF LockTypeOK
    <3>2. CASE v = t
      BY <1>4, <3>1, <3>2
    <3>3. CASE v # t
      BY <1>0, <1>4, <2>1, <2>2, <3>1, <3>3 DEF EdgesTruthful
    <3>4. QED BY <3>2, <3>3
  <2>3. QED BY <1>3, <1>4, <2>2 DEF EdgesTruthful
<1>13. QED BY <1>1, <1>5, <1>6, <1>7, <1>8, <1>10, <1>11, <1>12 DEF IndInv

\* begin keeps the invariant.
LEMMA BeginKeeps ==
  ASSUME IndInv, begin
  PROVE  IndInv'
<1>0. TypeOK /\ LockTypeOK /\ IdsFresh /\ OwnersActive
  BY DEF IndInv, TypeOK
<1>1. /\ UNCHANGED <<lockTable, waitForGraph, call, notified, refused, strict>>
      /\ nextTxnId \in Txn /\ nextTxnId' = nextTxnId + 1
      /\ txnState' = [txnState EXCEPT ![nextTxnId] = "ACTIVE"]
  BY DEF begin, lockVars
<1>2. Waiting' = Waiting
  BY <1>1 DEF Waiting
<1>3. TypeOK'
  BY <1>0, <1>1, <1>2, LockAssumption DEF TypeOK, LockTypeOK, TxnState, Txn
<1>4. IdsFresh'
  BY <1>0, <1>1, LockAssumption DEF IdsFresh, TypeOK, Txn
<1>5. txnState[nextTxnId] = "none"
      /\ \A u \in Txn : u # nextTxnId => txnState'[u] = txnState[u]
  BY <1>0, <1>1, LockAssumption DEF IdsFresh, TypeOK, Txn
<1>6. OwnersActive'
  BY <1>0, <1>1, <1>2, <1>5 DEF OwnersActive, LockTypeOK, LockRequest, TypeOK, Waiting
<1>7. WaitGraphAcyclic' /\ OnlyWaitersHaveEdges' /\ LockExclusion' /\ PendingRequests'
  BY <1>1, <1>2 DEF IndInv, WaitGraphAcyclic, OnlyWaitersHaveEdges, LockExclusion,
     PendingRequests
<1>8. NoLostWakeup'
  BY <1>1, <1>2 DEF IndInv, NoLostWakeup, CanGrant
<1>9. strict => EdgesTruthful'
  <2>1. \A u \in Waiting : Blockers(u)' = Blockers(u)
    BY <1>1 DEF Blockers, Conflicting
  <2>2. ASSUME strict, NEW u \in Waiting, NEW v \in waitForGraph[u]
        PROVE  txnState'[v] \in {"COMMITTED", "ABORTED"} \/ v \in Blockers(u)'
    <3>1. v \in Txn
      BY <1>0, <2>2 DEF LockTypeOK, Waiting
    <3>2. txnState[v] \in {"COMMITTED", "ABORTED"} \/ v \in Blockers(u)
      BY <2>2 DEF IndInv, EdgesTruthful
    <3>3. QED BY <1>5, <2>1, <3>1, <3>2
  <2>3. QED BY <1>1, <1>2, <2>2 DEF EdgesTruthful
<1>10. QED BY <1>1, <1>3, <1>4, <1>6, <1>7, <1>8, <1>9 DEF IndInv

-------------------------------------------------------------------------------
(* The theorems *)

\* The inductive invariant holds in every reachable state.
THEOREM TxnInvariant == Spec => []IndInv
<1>1. Init => IndInv
  BY InitEstablishes
<1>2. ASSUME IndInv, [Next]_vars PROVE IndInv'
  <2>1. CASE begin
    BY <1>2, <2>1, BeginKeeps
  <2>2. ASSUME NEW t \in Txn, commit(t) \/ abort(t) PROVE IndInv'
    BY <1>2, <2>2, FinishKeeps DEF commit, abort
  <2>3. ASSUME NEW t \in Txn, lock(t) PROVE IndInv'
    BY <1>2, <2>3, LockNowKeeps, LockRefuseKeeps, LockWaitKeeps DEF lock
  <2>4. ASSUME NEW t \in Txn, release(t) PROVE IndInv'
    BY <1>2, <2>4, UnlockKeeps DEF release
  <2>5. ASSUME NEW t \in Txn, wait(t) PROVE IndInv'
    BY <1>2, <2>5, WakeKeeps, SpuriousKeeps DEF wait
  <2>6. CASE UNCHANGED vars
    BY <1>2, <2>6, StutterKeeps
  <2>7. QED BY <1>2, <2>1, <2>2, <2>3, <2>4, <2>5, <2>6 DEF Next
<1>3. QED BY <1>1, <1>2, PTL DEF Spec

\* Type correctness of the lock table and of the transactions.
THEOREM TxnTypes == Spec => []TypeOK
<1>1. IndInv => TypeOK
  BY DEF IndInv
<1>2. QED BY <1>1, TxnInvariant, PTL

\* Conflicting locks are never granted together.
THEOREM LocksExclude == Spec => []LockExclusion
<1>1. IndInv => LockExclusion
  BY DEF IndInv
<1>2. QED BY <1>1, TxnInvariant, PTL

\* No sleeping call misses the release it waits for.
THEOREM NoWakeupIsLost == Spec => []NoLostWakeup
<1>1. IndInv => NoLostWakeup
  BY DEF IndInv
<1>2. QED BY <1>1, TxnInvariant, PTL

\* The reference that a sleeping lockShared or lockExclusive has into the lock table
\* stays valid: its own pending request keeps the entry there.
THEOREM RequestsStayPending == Spec => []PendingRequests
<1>1. IndInv => PendingRequests
  BY DEF IndInv
<1>2. QED BY <1>1, TxnInvariant, PTL

\* The recorded wait-for graph never has a cycle.
THEOREM GraphStaysAcyclic == Spec => []WaitGraphAcyclic
<1>1. IndInv => WaitGraphAcyclic
  BY DEF IndInv
<1>2. QED BY <1>1, TxnInvariant, PTL

\* Under strict two-phase locking a request is refused for a real deadlock only.
THEOREM RefusalsAreJustified == Spec => RefusalJustified
<1>1. ASSUME IndInv, NEW t \in Txn, NEW r \in Res, NEW mode \in Mode,
             strict, Running(t), lockRefuse(t, r, mode)
      PROVE  RealDeadlock(t, Conflicting(t, r, mode))
  <2>0. LockTypeOK /\ LockExclusion /\ OwnersActive /\ OnlyWaitersHaveEdges /\ EdgesTruthful
    BY <1>1 DEF IndInv, TypeOK
  <2>1. PICK S \in SUBSET Txn : t \in S /\ \A u \in S : WaitEdges(t, r)[u] \cap S # {}
    BY <1>1 DEF lockRefuse, hasDeadlock
  <2>2. Holders(t, r) = Conflicting(t, r, mode)
    BY <1>1, <2>0, HoldersConflict DEF lockRefuse, MustWait
  <2>3. t \notin Waiting /\ waitForGraph[t] = {} /\ txnState[t] = "ACTIVE"
    BY <1>1, <2>0 DEF Running, Waiting, OnlyWaitersHaveEdges
  <2>4. WaitEdges(t, r)[t] = Holders(t, r)
        /\ \A u \in Txn \ {t} : WaitEdges(t, r)[u] = waitForGraph[u]
    BY <2>0, <2>3 DEF WaitEdges, LockTypeOK
  <2>5. \A u \in S \ {t} : u \in Waiting
    BY <2>0, <2>1, <2>4 DEF OnlyWaitersHaveEdges
  <2>6. \A u \in S : txnState[u] = "ACTIVE"
    BY <2>0, <2>3, <2>5 DEF OwnersActive
  <2>7. ASSUME NEW u \in S \ {t} PROVE Blockers(u) \cap S # {}
    <3>1. PICK v \in S : v \in waitForGraph[u]
      BY <2>1, <2>4, <2>7
    <3>2. v \in Blockers(u)
      BY <2>0, <2>5, <2>6, <2>7, <3>1 DEF EdgesTruthful
    <3>3. QED BY <3>1, <3>2
  <2>8. Conflicting(t, r, mode) \cap S # {}
    BY <2>1, <2>2, <2>4
  <2>9. QED BY <2>1, <2>5, <2>7, <2>8 DEF RealDeadlock
<1>2. IndInv /\ [Next]_vars =>
        [strict => \A t \in Txn, r \in Res, mode \in Mode :
           Running(t) /\ t \notin refused /\ lockRefuse(t, r, mode)
             => RealDeadlock(t, Conflicting(t, r, mode))]_vars
  BY <1>1
<1>3. QED BY <1>2, TxnInvariant, PTL DEF Spec, RefusalJustified
====
