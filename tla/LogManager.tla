------------------------------ MODULE LogManager ------------------------------
(***************************************************************************)
(* The write-ahead log of src/recovery/LogManager.cpp: the file, the       *)
(* stream's buffer in front of it, threads that append records and commit, *)
(* and a process that stops at any moment and opens the log again.         *)
(*                                                                         *)
(* The file is a sequence of cells.  A record is written as a size cell    *)
(* and as many body cells as that size says, so that a reader that starts  *)
(* in the wrong place reads what is there, as the code does.               *)
(***************************************************************************)
EXTENDS Integers, Sequences, SequencesExt, FiniteSetsExt

CONSTANTS TxnId, MaxLSN,
          MaxCells,   \* bound on the cells of the file and the buffer
          Garbage     \* a record made of cells that are not those of one record

LSN == 1 .. MaxLSN

LogRecordType == {"BEGIN_TXN", "COMMIT_TXN", "ABORT_TXN", "INSERT", "DELETE"}

LogRecord == [lsn : LSN, type : LogRecordType, txnId : TxnId]

ASSUME LogAssumption ==
  /\ MaxLSN \in Nat /\ MaxCells \in Nat
  /\ Garbage \notin LogRecord

\* Body cells of a record: table name, RID and data make these two longer.
BodyLen(rec) == IF rec.type \in {"INSERT", "DELETE"} THEN 2 ELSE 1

\* Part 0 is the size that appendLog writes in front of the record.
Cell == [rec : LogRecord, part : 0 .. 2]

VARIABLES up,          \* the process runs and has the log open
          file,        \* the cells in the file
          buffer,      \* the cells in the buffer of logFile_
          nextLSN,
          committing,  \* records of the calls between the two halves of logCommit
          acked,       \* records whose logCommit has returned, with the value of clean
          clean        \* the log ended with a whole record when it was opened

vars == <<up, file, buffer, nextLSN, committing, acked, clean>>

\* Type of every variable.
TypeOK ==
  /\ up \in BOOLEAN /\ clean \in BOOLEAN
  /\ file \in Seq(Cell) /\ buffer \in Seq(Cell)
  /\ nextLSN \in 1 .. MaxLSN + 1
  /\ committing \subseteq LogRecord
  /\ acked \subseteq [rec : LogRecord, clean : BOOLEAN]

Init ==
  /\ up = FALSE /\ clean = TRUE
  /\ file = <<>> /\ buffer = <<>>
  /\ nextLSN = 1
  /\ committing = {} /\ acked = {}

-------------------------------------------------------------------------------
(* serializeRecord, deserializeRecord, readAllRecords *)

\* Mutant: the last field is written twice.
serializeTwice(rec) == [i \in 1 .. BodyLen(rec) + 1 |-> [rec |-> rec, part |-> i]]

serializeRecord(rec) == [i \in 1 .. BodyLen(rec) |-> [rec |-> rec, part |-> i]]

sizeOf(rec) == <<[rec |-> rec, part |-> 0]>>

\* The record whose body the cells are.  deserializeRecord makes a record of
\* any other cells too.
deserializeRecord(cells) ==
  IF cells = serializeRecord(cells[1].rec) THEN cells[1].rec ELSE Garbage

\* What the loop reads from cell i on, and whether it ends at the end of the
\* file.  A body cell in the place of a size is a number of no meaning: from
\* there on nothing is known.
readFrom(f) ==
  LET read[i \in 1 .. Len(f) + 1] ==
        IF i > Len(f) THEN <<>>
        ELSE IF f[i].part # 0 THEN <<Garbage>>
        ELSE LET next == i + BodyLen(f[i].rec) + 1 IN
             IF next > Len(f) + 1 THEN <<>>
             ELSE <<deserializeRecord(SubSeq(f, i + 1, next - 1))>> \o read[next]
  IN  read[1]

readAllRecords == readFrom(file)

\* The records of recs that were logged.
Logged(recs) == ToSet(recs) \ {Garbage}

-------------------------------------------------------------------------------
(* open *)

\* Mutant: the LSN of the last record is given again.
reuseLSN(recs) == Max({1} \cup {rec.lsn : rec \in Logged(recs)})

lsnAfter(recs) == Max({1} \cup {rec.lsn + 1 : rec \in Logged(recs)})

\* Mutant: the file is opened without std::ios::app.
truncated(f) == <<>>

appendMode(f) == f

\* The file is a sequence of whole records: they follow one another to its end.
Whole(f) ==
  LET end[i \in 1 .. Len(f) + 1] ==
        IF i > Len(f) THEN i
        ELSE LET rec == f[i].rec
                 next == i + BodyLen(rec) + 1
             IN  IF next > Len(f) + 1 THEN i
                 ELSE IF SubSeq(f, i, next - 1) # sizeOf(rec) \o serializeRecord(rec) THEN i
                 ELSE end[next]
  IN  end[1] = Len(f) + 1

\* A garbage record has any LSN.
open ==
  /\ ~up
  /\ up' = TRUE
  /\ nextLSN' \in IF Garbage \in ToSet(readAllRecords)
                  THEN lsnAfter(readAllRecords) .. MaxLSN + 1
                  ELSE {lsnAfter(readAllRecords)}
  /\ file' = appendMode(file)
  /\ clean' = Whole(file)
  /\ UNCHANGED <<buffer, committing, acked>>

-------------------------------------------------------------------------------
(* appendLog, flushLog and the calls that use them *)

appendLog(type, x, rec) ==
  /\ up /\ nextLSN <= MaxLSN
  /\ rec = [lsn |-> nextLSN, type |-> type, txnId |-> x]
  /\ Len(file) + Len(buffer) + 1 + BodyLen(rec) <= MaxCells
  /\ nextLSN' = nextLSN + 1
  /\ buffer' = buffer \o sizeOf(rec) \o serializeRecord(rec)

\* logBegin, logAbort, logInsert and logDelete append their record.
log(type, x) ==
  /\ \E rec \in LogRecord : appendLog(type, x, rec)
  /\ UNCHANGED <<up, file, committing, acked, clean>>

logBegin(x) == log("BEGIN_TXN", x)
logAbort(x) == log("ABORT_TXN", x)
logInsert(x) == log("INSERT", x)
logDelete(x) == log("DELETE", x)

\* logCommit appends its record and gives the mutex up,
logCommit(x) ==
  /\ \E rec \in LogRecord :
       /\ appendLog("COMMIT_TXN", x, rec)
       /\ committing' = committing \cup {rec}
  /\ UNCHANGED <<up, file, acked, clean>>

\* Mutant: what is in the buffer stays there.
notFlushed == file

flushed == file \o buffer

\* and then calls flushLog and returns.
flushLog(rec) ==
  /\ up /\ rec \in committing
  /\ file' = flushed /\ buffer' = <<>>
  /\ committing' = committing \ {rec}
  /\ acked' = acked \cup {[rec |-> rec, clean |-> clean]}
  /\ UNCHANGED <<up, nextLSN, clean>>

-------------------------------------------------------------------------------
(* The end of the process *)

\* The stream hands its buffer to the file when it is full and when it is
\* flushed: a process that is killed leaves some part of the buffer there.
crash ==
  /\ up
  /\ \E n \in 0 .. Len(buffer) : file' = file \o SubSeq(buffer, 1, n)
  /\ up' = FALSE /\ buffer' = <<>> /\ nextLSN' = 1 /\ committing' = {}
  /\ UNCHANGED <<acked, clean>>

\* ~LogManager, when no call is running.
close ==
  /\ up /\ committing = {}
  /\ file' = flushed
  /\ up' = FALSE /\ buffer' = <<>> /\ nextLSN' = 1
  /\ UNCHANGED <<committing, acked, clean>>

Next ==
  \/ open
  \/ \E x \in TxnId :
       logBegin(x) \/ logAbort(x) \/ logInsert(x) \/ logDelete(x) \/ logCommit(x)
  \/ \E rec \in LogRecord : flushLog(rec)
  \/ crash
  \/ close

Spec == Init /\ [][Next]_vars

-------------------------------------------------------------------------------
(* Properties *)

\* The log sequence numbers that a reader of the file meets increase, across
\* crashes, lost tails and torn records.
LSNsIncrease ==
  LET recs == readAllRecords IN
  \A i, j \in DOMAIN recs :
    i < j /\ recs[i] # Garbage /\ recs[j] # Garbage => recs[i].lsn < recs[j].lsn

\* A record once readable stays readable in its place: readers of the log (open,
\* recover) see an older log extended.
ReadableKept == [][IsPrefix(readAllRecords, readAllRecords')]_vars

\* logCommit returns when its record can be read back after any crash, provided
\* that the log ended with a whole record when it was opened.
CleanCommitDurable ==
  \A a \in acked : a.clean => a.rec \in ToSet(readAllRecords)

\* "force flush on commit for durability" (LogManager.cpp, logCommit): a commit
\* that has returned can be read back.
CommitDurable == \A a \in acked : a.rec \in ToSet(readAllRecords)
===============================================================================
