------------------------------- MODULE Recovery -------------------------------
(***************************************************************************)
(* Crash recovery, src/recovery/Recovery.cpp, over a heap file, the file   *)
(* it lives in and the write-ahead log.  Pages reach the disk when the     *)
(* buffer pool evicts or flushes them, records when the log is flushed; a  *)
(* process that dies loses the rest.  The next process calls recover,      *)
(* which may die as well.                                                  *)
(*                                                                         *)
(* The transactions log as the interface of LogManager has it: a tuple is  *)
(* inserted and its RID logged, a deletion is logged with the old tuple.   *)
(* The log's records are whole here; LogManager tears them.  There is one  *)
(* table.  recover opens its file itself, and what follows uses the file   *)
(* id it got: openFile gives every caller an id, and with it copies of the *)
(* pages, of its own.                                                      *)
(***************************************************************************)
EXTENDS PageManager, SequencesExt, FiniteSetsExt

CONSTANTS MaxTxn,      \* bound on the transactions of one process
          MaxLog,      \* bound on the records of the log
          MaxSessions  \* bound on the processes, one after the other

ASSUME RecoveryAssumption ==
  /\ MaxTxn \in Nat /\ MaxLog \in Nat /\ MaxSessions \in Nat \ {0}

TxnId == 1 .. MaxTxn
NoTxn == 0
NoRID == <<0, 0>>

\* Nothing writes the UPDATE records, and recover passes over them.
LogRecordType == {"BEGIN_TXN", "COMMIT_TXN", "ABORT_TXN", "INSERT", "DELETE", "CHECKPOINT"}

\* data is newData of an INSERT, oldData of a DELETE.  session is not in the
\* file: it tells apart transactions of two processes that have the same id.
LogRecord == [type : LogRecordType, txnId : TxnId \cup {NoTxn}, rid : RID,
              data : Tuple \cup {NoTuple}, session : 1 .. MaxSessions]

VARIABLES diskPages,  \* PageNum -> the page in the file
          log,        \* the records appended
          flushed,    \* how many of them are in the file
          mode,       \* what the process does
          pos,        \* the record the loop of redoPhase or undoPhase is at
          session,    \* the number of the process
          active,     \* transactions that have begun and not finished
          nextTxnId,
          fresh       \* recover began on pages that were initialised and empty

heapVars == <<pageCount, pages>>
logVars == <<log, flushed>>
txnVars == <<active, nextTxnId>>
recoveryVars == <<heapVars, diskPages, logVars, mode, pos, session, txnVars, fresh>>

\* A page that allocateNewPage wrote and that no initPage reached the disk for.
rawPage == [initPage EXCEPT !.freeSpacePtr = 0]

Mode == {"up", "down", "redo", "undo", "spoilt"}

\* Type of every variable of the recovery model.
RecoveryTypeOK ==
  /\ TypeOK
  /\ diskPages \in [PageNum -> Page]
  /\ log \in Seq(LogRecord) /\ Len(log) <= MaxLog
  /\ flushed \in 0 .. Len(log)
  /\ mode \in Mode
  /\ pos \in 0 .. Len(log) + 1
  /\ session \in 1 .. MaxSessions
  /\ active \subseteq TxnId /\ nextTxnId \in 1 .. MaxTxn + 1
  /\ fresh \in BOOLEAN

\* createTable has run: page 0 is initialised in the pool, and zeros in the file.
RecoveryInit ==
  /\ Init
  /\ diskPages = [p \in PageNum |-> rawPage]
  /\ log = <<>> /\ flushed = 0
  /\ mode = "up" /\ pos = 0 /\ session = 1
  /\ active = {} /\ nextTxnId = 1
  /\ fresh = FALSE

-------------------------------------------------------------------------------
(* The heap operations, of transactions and of recover *)

\* findFreePage takes a page that was never initialised for an empty one, and
\* the tuple is written over its header: nothing is known of the page then.
WritesOverHeader(t) == \E p \in PageNum :
  findFreePage(p, Len(t)) /\ p < pageCount /\ pages[p].freeSpacePtr < HEADER_SIZE

Placed(rid) == tuples[rid] = NoTuple /\ tuples'[rid] # NoTuple

insertOrSpoil(t) ==
  IF WritesOverHeader(t)
  THEN mode' = "spoilt" /\ UNCHANGED heapVars
  ELSE insertTuple(t) /\ UNCHANGED mode

-------------------------------------------------------------------------------
(* Transactions: TransactionManager and LogManager *)

\* Mutant: page and slot of the RID are swapped.
appendSwapped(type, x, rid, t) ==
  /\ Len(log) < MaxLog
  /\ log' = Append(log, [type |-> type, txnId |-> x, rid |-> <<rid[2], rid[1]>>, data |-> t,
                         session |-> session])

append(type, x, rid, t) ==
  /\ Len(log) < MaxLog
  /\ log' = Append(log, [type |-> type, txnId |-> x, rid |-> rid, data |-> t,
                         session |-> session])

begin ==
  /\ mode = "up" /\ nextTxnId <= MaxTxn
  /\ active' = active \cup {nextTxnId} /\ nextTxnId' = nextTxnId + 1
  /\ append("BEGIN_TXN", nextTxnId, NoRID, NoTuple)
  /\ UNCHANGED <<heapVars, diskPages, flushed, mode, pos, session, fresh>>

insert(x, t) ==
  /\ mode = "up" /\ x \in active
  /\ insertOrSpoil(t)
  /\ \/ mode' = "spoilt" /\ UNCHANGED log
     \/ \E rid \in RID : Placed(rid) /\ append("INSERT", x, rid, t)
  /\ UNCHANGED <<diskPages, flushed, pos, session, txnVars, fresh>>

\* No other running transaction has written the tuple: it would be locked.
Unlocked(x, rid) ==
  \A rec \in ToSet(log) :
    rec.session = session /\ rec.txnId \in active \ {x} => rec.rid # rid \/ rec.data = NoTuple

delete(x, rid) ==
  /\ mode = "up" /\ x \in active
  /\ tuples[rid] # NoTuple /\ Unlocked(x, rid)
  /\ append("DELETE", x, rid, tuples[rid])
  /\ deleteTuple(rid[1], rid[2])
  /\ UNCHANGED <<diskPages, flushed, mode, pos, session, txnVars, fresh>>

\* The record is in the file when logCommit returns.
commit(x) ==
  /\ mode = "up" /\ x \in active
  /\ append("COMMIT_TXN", x, NoRID, NoTuple)
  /\ flushed' = Len(log) + 1
  /\ active' = active \ {x}
  /\ UNCHANGED <<heapVars, diskPages, mode, pos, session, nextTxnId, fresh>>

\* Neither abort nor logAbort touches the tuples that the transaction wrote.
abort(x) ==
  /\ mode = "up" /\ x \in active
  /\ append("ABORT_TXN", x, NoRID, NoTuple)
  /\ active' = active \ {x}
  /\ UNCHANGED <<heapVars, diskPages, flushed, mode, pos, session, nextTxnId, fresh>>

\* checkpoint writes a record and flushes the log, not the pages.
checkpoint ==
  /\ mode = "up"
  /\ append("CHECKPOINT", NoTxn, NoRID, NoTuple)
  /\ flushed' = Len(log) + 1
  /\ UNCHANGED <<heapVars, diskPages, mode, pos, session, txnVars, fresh>>

-------------------------------------------------------------------------------
(* The disk, the end of a process and the next one *)

\* An eviction, flushPage or flushAllPages.
writeBack(p) ==
  /\ mode \in {"up", "redo", "undo"} /\ p < pageCount
  /\ diskPages' = [diskPages EXCEPT ![p] = pages[p]]
  /\ UNCHANGED <<heapVars, logVars, mode, pos, session, txnVars, fresh>>

\* The pool, the transactions and some of the records that were not flushed
\* are gone.
crash ==
  /\ mode \in {"up", "redo", "undo"} /\ session < MaxSessions
  /\ \E n \in flushed .. Len(log) : log' = SubSeq(log, 1, n) /\ flushed' = n
  /\ pages' = [p \in PageNum |-> IF p < pageCount THEN diskPages[p] ELSE initPage]
  /\ active' = {} /\ nextTxnId' = 1
  /\ mode' = "down" /\ pos' = 0
  /\ UNCHANGED <<pageCount, diskPages, session, fresh>>

\* The next process opens the log and the table, and calls recover; the ids of
\* its transactions start at 1 again.
restart ==
  /\ mode = "down"
  /\ session' = session + 1
  /\ fresh' = \A p \in PageNum : p < pageCount => pages[p] = initPage
  /\ mode' = IF log = <<>> THEN "up" ELSE "redo"
  /\ pos' = IF log = <<>> THEN 0 ELSE 1
  /\ UNCHANGED <<heapVars, diskPages, logVars, txnVars>>

-------------------------------------------------------------------------------
(* recover *)

\* Mutant: a commit leaves the transaction in activeTxns.
neverErased(recs) == {rec.txnId : rec \in {r \in ToSet(recs) : r.type = "BEGIN_TXN"}}

\* The analysis: a transaction is active when nothing ends it after its BEGIN.
activeTxns(recs) ==
  {x \in TxnId : \E i \in 1 .. Len(recs) :
     /\ recs[i].type = "BEGIN_TXN" /\ recs[i].txnId = x
     /\ \A j \in i + 1 .. Len(recs) :
          recs[j].txnId = x => recs[j].type \notin {"COMMIT_TXN", "ABORT_TXN"}}

committedTxns(recs) ==
  {rec.txnId : rec \in {r \in ToSet(recs) : r.type = "COMMIT_TXN"}}

\* One turn of the loop of redoPhase.
redoPhase ==
  /\ mode = "redo" /\ pos <= Len(log)
  /\ LET rec == log[pos] IN
     \/ /\ rec.txnId \in committedTxns(log) /\ rec.type = "INSERT"
        /\ insertOrSpoil(rec.data)
     \/ /\ rec.txnId \in committedTxns(log) /\ rec.type = "DELETE"
        /\ deleteTuple(rec.rid[1], rec.rid[2]) /\ UNCHANGED mode
     \/ /\ rec.txnId \notin committedTxns(log) \/ rec.type \notin {"INSERT", "DELETE"}
        /\ UNCHANGED <<heapVars, mode>>
  /\ pos' = pos + 1
  /\ UNCHANGED <<diskPages, logVars, session, txnVars, fresh>>

redoDone ==
  /\ mode = "redo" /\ pos = Len(log) + 1
  /\ mode' = "undo" /\ pos' = Len(log)
  /\ UNCHANGED <<heapVars, diskPages, logVars, session, txnVars, fresh>>

\* One turn of the loop of undoPhase, from the last record to the first.
undoPhase ==
  /\ mode = "undo" /\ pos > 0
  /\ LET rec == log[pos] IN
     \/ /\ rec.txnId \in activeTxns(log) /\ rec.type = "INSERT"
        /\ deleteTuple(rec.rid[1], rec.rid[2]) /\ UNCHANGED mode
     \/ /\ rec.txnId \in activeTxns(log) /\ rec.type = "DELETE"
        /\ insertOrSpoil(rec.data)
     \/ /\ rec.txnId \notin activeTxns(log) \/ rec.type \notin {"INSERT", "DELETE"}
        /\ UNCHANGED <<heapVars, mode>>
  /\ pos' = pos - 1
  /\ UNCHANGED <<diskPages, logVars, session, txnVars, fresh>>

undoDone ==
  /\ mode = "undo" /\ pos = 0
  /\ mode' = "up"
  /\ UNCHANGED <<heapVars, diskPages, logVars, pos, session, txnVars, fresh>>

recover == redoPhase \/ redoDone \/ undoPhase \/ undoDone

RecoveryNext ==
  \/ begin \/ checkpoint
  \/ \E x \in TxnId : commit(x) \/ abort(x)
  \/ \E x \in TxnId, t \in Tuple : insert(x, t)
  \/ \E x \in TxnId, rid \in RID : delete(x, rid)
  \/ \E p \in PageNum : writeBack(p)
  \/ crash \/ restart
  \/ recover

RecoverySpec == RecoveryInit /\ [][RecoveryNext]_recoveryVars

-------------------------------------------------------------------------------
(* Properties *)

\* The tuples of a page never overlap, although after a crash every page is as
\* old as its last write-back and recover inserts and deletes by records that
\* know nothing of that -- unless a tuple was written over a header.
HeapSound == mode # "spoilt" => TuplesDisjoint

DataRecord(i) == log[i].type \in {"INSERT", "DELETE"}

\* Record i belongs to a transaction that committed.
Committed(i) == \E j \in 1 .. Len(log) :
  log[j].type = "COMMIT_TXN" /\ log[j].txnId = log[i].txnId /\ log[j].session = log[i].session

\* How often tuple t should be in the table, by the transactions that committed.
Wanted(t) ==
  LET count(type) == Cardinality({i \in 1 .. Len(log) :
                       log[i].type = type /\ log[i].data = t /\ Committed(i)})
  IN  count("INSERT") - count("DELETE")

Found(t) == Cardinality({rid \in RID : tuples[rid] = t})

\* recover has returned and nothing has happened since.
Recovered == mode = "up" /\ session > 1 /\ \A rec \in ToSet(log) : rec.session < session

\* What did not commit comes last, and inserted only.
UncommittedLast ==
  \A i \in 1 .. Len(log) : DataRecord(i) /\ ~Committed(i) =>
    /\ log[i].type = "INSERT"
    /\ \A j \in i + 1 .. Len(log) : DataRecord(j) => ~Committed(j)

\* When recover is right: the log is that of one process, no tuple had reached
\* the disk, and what did not commit comes last.  The replay then goes through
\* the same heaps, ends up with the same RIDs and undo finds nothing at its own.
RecoverExact ==
  Recovered /\ fresh /\ UncommittedLast /\ (\A rec \in ToSet(log) : rec.session = 1)
    => \A t \in Tuple : Found(t) = Wanted(t)

\* "Perform crash recovery: read log, redo committed, undo uncommitted"
\* (Recovery.h, recover): a tuple that committed is there as often as it was
\* inserted.
RecoverRestores ==
  Recovered => \A t \in Tuple : Wanted(t) > 0 => Found(t) = Wanted(t)
===============================================================================
