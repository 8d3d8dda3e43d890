------------------------------ MODULE DiskManager ------------------------------
(***************************************************************************)
(* The files of the data directory as src/storage/DiskManager.cpp sees     *)
(* them.  A page is named by the pair of a file id and a page number; its  *)
(* bytes are a member of Data, of which Zero is the all-zero page.  Every  *)
(* call runs under DiskManager::mutex_, so it is one step.                 *)
(***************************************************************************)
EXTENDS Integers, FiniteSets

CONSTANTS MaxFiles,   \* bound on the number of files created
          MaxPages,   \* bound on the pages of one file
          Data,       \* contents a page can have
          Zero        \* the content of a page nobody wrote

ASSUME DiskAssumption ==
  /\ MaxFiles \in Nat
  /\ MaxPages \in Nat
  /\ Zero \in Data

File == 1 .. MaxFiles
PageNum == 0 .. MaxPages - 1
PageKey == File \X PageNum

VARIABLES files,      \* the ids in files_, the handles that are open
          nextFileId,
          pageCount,  \* FileHandle::pageCount
          disk        \* the bytes in the files

diskVars == <<files, nextFileId, pageCount, disk>>

DiskTypeOK ==
  /\ files \subseteq File
  /\ nextFileId \in 1 .. MaxFiles + 1
  /\ pageCount \in [File -> 0 .. MaxPages]
  /\ disk \in [PageKey -> Data]

DiskInit ==
  /\ files = {}
  /\ nextFileId = 1
  /\ pageCount = [f \in File |-> 0]
  /\ disk = [k \in PageKey |-> Zero]

\* Mutant: the id is incremented before it is used.
createFilePreIncrement ==
  /\ nextFileId <= MaxFiles
  /\ files' = files \cup {nextFileId + 1}
  /\ nextFileId' = nextFileId + 1
  /\ UNCHANGED <<pageCount, disk>>

\* A fresh, truncated file under a new id.
createFile ==
  /\ nextFileId <= MaxFiles
  /\ files' = files \cup {nextFileId}
  /\ nextFileId' = nextFileId + 1
  /\ UNCHANGED <<pageCount, disk>>

closeFile(f) ==
  /\ f \in files
  /\ files' = files \ {f}
  /\ UNCHANGED <<nextFileId, pageCount, disk>>

\* The page is appended and written as zeros; the result is its number.
allocateNewPage(f) ==
  /\ f \in files
  /\ pageCount[f] < MaxPages
  /\ pageCount' = [pageCount EXCEPT ![f] = @ + 1]
  /\ disk' = [disk EXCEPT ![<<f, pageCount[f]>>] = Zero]
  /\ UNCHANGED <<files, nextFileId>>

\* readPage and writePage throw when the file id is not open.
IsOpen(k) == k[1] \in files

\* Pages beyond the end of a file read as zeros, and so do unwritten ones.
readPage(content, k) == content[k]

\* n is the page count of file f after the pages of S were written to it.
countAfter(f, S, n) ==
  LET C == {pageCount[f]} \cup {k[2] + 1 : k \in {x \in S : x[1] = f}}
  IN  n \in C /\ \A m \in C : m <= n

\* One writePage per key of S, in any order: the keys are distinct pages.
writePages(S, content) ==
  /\ disk' = [k \in PageKey |-> IF k \in S THEN content[k] ELSE disk[k]]
  /\ pageCount' \in [File -> 0 .. MaxPages]
  /\ \A f \in File : countAfter(f, S, pageCount'[f])
  /\ UNCHANGED <<files, nextFileId>>
================================================================================
