------------------------------- MODULE BufferPool -------------------------------
(***************************************************************************)
(* The page cache of src/storage/BufferPool.cpp over the files of          *)
(* DiskManager, and the clients that pin its pages.  Every public call     *)
(* runs under BufferPool::mutex_ from its first line to its last, so it is *)
(* one step; a client writes through the pointer fetchPage returned        *)
(* WITHOUT that mutex, so its writes interleave with everything.           *)
(*                                                                         *)
(* A client follows the pattern of every caller in PageManager.cpp: it has *)
(* one page pinned at a time, writes only a page it fetched for writing    *)
(* and that lies inside the file, and unpins as dirty whatever it wrote.   *)
(***************************************************************************)
EXTENDS DiskManager, Sequences, SequencesExt

CONSTANTS PoolSize,   \* number of frames
          Client,     \* the threads that use the pool
          NoPage      \* PageFrame::fileId = -1

ASSUME PoolAssumption ==
  /\ PoolSize \in Nat
  /\ IsFiniteSet(Client)
  /\ NoPage \notin PageKey

Frame == 0 .. PoolSize - 1
NoFrame == -1
FileOf(k) == k[1]

VARIABLES frameKey,   \* Frame -> (fileId, pageNum) of the frame, or NoPage
          data,       \* Frame -> content
          isDirty,    \* Frame -> BOOLEAN
          pinCount,   \* Frame -> Nat
          pageTable,  \* PageKey -> Frame, or NoFrame when there is no entry
          lruList,    \* front = most recently used
          freeList,
          held,       \* Client -> the page it has pinned, or NoPage
          ptr,        \* Client -> the frame its pointer points into
          use,        \* Client -> how it uses the page
          fault       \* the exception the last call threw

poolVars == <<frameKey, data, isDirty, pinCount, pageTable, lruList, freeList>>
clientVars == <<held, ptr, use>>
vars == <<diskVars, poolVars, clientVars, fault>>

Use == {"idle", "read", "write", "wrote"}
Fault == {"none", "allPinned", "badFile"}

\* Type of every variable of the pool and of its clients.
TypeOK ==
  /\ DiskTypeOK
  /\ frameKey \in [Frame -> PageKey \cup {NoPage}]
  /\ data \in [Frame -> Data]
  /\ isDirty \in [Frame -> BOOLEAN]
  /\ pinCount \in [Frame -> Nat]
  /\ pageTable \in [PageKey -> Frame \cup {NoFrame}]
  /\ lruList \in Seq(Frame)
  /\ freeList \in Seq(Frame)
  /\ held \in [Client -> PageKey \cup {NoPage}]
  /\ ptr \in [Client -> Frame \cup {NoFrame}]
  /\ use \in [Client -> Use]
  /\ fault \in Fault

Init ==
  /\ DiskInit
  /\ frameKey = [f \in Frame |-> NoPage]
  /\ data = [f \in Frame |-> Zero]
  /\ isDirty = [f \in Frame |-> FALSE]
  /\ pinCount = [f \in Frame |-> 0]
  /\ pageTable = [k \in PageKey |-> NoFrame]
  /\ lruList = <<>>
  /\ freeList = [i \in 1 .. PoolSize |-> i - 1]
  /\ held = [c \in Client |-> NoPage]
  /\ ptr = [c \in Client |-> NoFrame]
  /\ use = [c \in Client |-> "idle"]
  /\ fault = "none"

Resident(k) == pageTable[k] # NoFrame

\* A page of a file that createFile returned, now open or not.
Known(k) == k[1] < nextFileId

\* A page inside its file, as the page count of the handle has it.
InFile(k) == k[2] < pageCount[k[1]]

-------------------------------------------------------------------------------
(* Clients *)

\* fetchPage returned frame f, which holds page k.
Pinned(c, k, f, forWrite) ==
  /\ held' = [held EXCEPT ![c] = k]
  /\ ptr' = [ptr EXCEPT ![c] = f]
  /\ use' = [use EXCEPT ![c] = IF forWrite THEN "write" ELSE "read"]

\* initPage, or the slot updates of insertTuple and deleteTuple.
clientWrite(c, d) ==
  /\ use[c] \in {"write", "wrote"}
  /\ InFile(held[c])
  /\ data' = [data EXCEPT ![ptr[c]] = d]
  /\ use' = [use EXCEPT ![c] = "wrote"]
  /\ UNCHANGED <<diskVars, frameKey, isDirty, pinCount, pageTable, lruList,
                 freeList, held, ptr, fault>>

\* The dirty argument a caller passes to unpinPage.
DirtyArg(c) ==
  CASE use[c] = "read"  -> {FALSE}
    [] use[c] = "write" -> BOOLEAN
    [] use[c] = "wrote" -> {TRUE}
    [] OTHER            -> {}

-------------------------------------------------------------------------------
(* fetchPage *)

\* Mutant: a page that is pinned again stays eligible for eviction.
lruKeep(s, f) == s

\* The frame's LRU entry is dropped: it is pinned again.
lruErase(s, f) == RemoveFirst(s, f)

fetchHit(c, k, forWrite) ==
  LET f == pageTable[k] IN
  /\ held[c] = NoPage
  /\ Resident(k)
  /\ pinCount' = [pinCount EXCEPT ![f] = @ + 1]
  /\ isDirty' = [isDirty EXCEPT ![f] = @ \/ forWrite]
  /\ lruList' = lruErase(lruList, f)
  /\ Pinned(c, k, f, forWrite)
  /\ fault' = "none"
  /\ UNCHANGED <<diskVars, frameKey, data, pageTable, freeList>>

\* findVictimFrame: the next free frame, otherwise the least recently used.
CanEvict == freeList # <<>> \/ lruList # <<>>
victim == IF freeList # <<>> THEN Head(freeList) ELSE Last(lruList)

\* Mutant: the victim is read from the LRU list and not popped.
peekVictim ==
  /\ freeList' = IF freeList # <<>> THEN Tail(freeList) ELSE freeList
  /\ UNCHANGED lruList

findVictimFrame ==
  IF freeList # <<>>
  THEN freeList' = Tail(freeList) /\ UNCHANGED lruList
  ELSE lruList' = Front(lruList) /\ UNCHANGED freeList

\* findVictimFrame throws.
fetchAllPinned(c, k) ==
  /\ held[c] = NoPage
  /\ Known(k)
  /\ ~Resident(k)
  /\ ~CanEvict
  /\ fault' = "allPinned"
  /\ UNCHANGED <<diskVars, poolVars, clientVars>>

\* The entries of the page table once the victim f has lost its page.
evictEntry(f) ==
  [k \in PageKey |-> IF k = frameKey[f] THEN NoFrame ELSE pageTable[k]]

\* Mutant: the victim is dropped without a write.
neverWriteBack(f) == {}

\* The page the victim must write back, if any.
WriteBack(f) ==
  IF frameKey[f] # NoPage /\ isDirty[f] THEN {frameKey[f]} ELSE {}

fetchLoad(c, k, forWrite) ==
  LET f == victim IN
  /\ held[c] = NoPage
  /\ Known(k)
  /\ ~Resident(k)
  /\ CanEvict
  /\ \A x \in WriteBack(f) \cup {k} : IsOpen(x)
  /\ findVictimFrame
  /\ writePages(WriteBack(f), [x \in WriteBack(f) |-> data[f]])
  /\ data' = [data EXCEPT ![f] = readPage(disk, k)]
  /\ frameKey' = [frameKey EXCEPT ![f] = k]
  /\ isDirty' = [isDirty EXCEPT ![f] = forWrite]
  /\ pinCount' = [pinCount EXCEPT ![f] = 1]
  /\ pageTable' = [evictEntry(f) EXCEPT ![k] = f]
  /\ Pinned(c, k, f, forWrite)
  /\ fault' = "none"

\* writePage or readPage throws "invalid file ID": the victim has left its
\* list and its page the table, and nothing gives the frame back.
fetchThrows(c, k) ==
  LET f == victim IN
  /\ held[c] = NoPage
  /\ Known(k)
  /\ ~Resident(k)
  /\ CanEvict
  /\ \E x \in WriteBack(f) \cup {k} : ~IsOpen(x)
  /\ findVictimFrame
  /\ writePages({x \in WriteBack(f) : IsOpen(x)}, [x \in WriteBack(f) |-> data[f]])
  /\ pageTable' = evictEntry(f)
  /\ fault' = "badFile"
  /\ UNCHANGED <<frameKey, data, isDirty, pinCount, clientVars>>

-------------------------------------------------------------------------------
(* unpinPage *)

\* Mutant: the dirty bit set by fetchPage(forWrite) is trusted.
ignoreDirty(f, dirty) == isDirty

unpinDirty(f, dirty) == [isDirty EXCEPT ![f] = @ \/ dirty]

\* Mutant: any unpin makes the frame eligible for eviction.
pushAlways(f) == Cons(f, lruList)

\* At pin count 0 the frame becomes eligible for eviction.
lruPush(f) == IF pinCount[f] = 1 THEN Cons(f, lruList) ELSE lruList

unpinPage(c, dirty) ==
  LET k == held[c]
      f == pageTable[k] IN
  /\ k # NoPage
  /\ dirty \in DirtyArg(c)
  /\ IF f = NoFrame \/ pinCount[f] <= 0
     THEN UNCHANGED <<pinCount, isDirty, lruList>>
     ELSE /\ pinCount' = [pinCount EXCEPT ![f] = @ - 1]
          /\ isDirty' = unpinDirty(f, dirty)
          /\ lruList' = lruPush(f)
  /\ held' = [held EXCEPT ![c] = NoPage]
  /\ ptr' = [ptr EXCEPT ![c] = NoFrame]
  /\ use' = [use EXCEPT ![c] = "idle"]
  /\ fault' = "none"
  /\ UNCHANGED <<diskVars, frameKey, data, pageTable, freeList>>

-------------------------------------------------------------------------------
(* flushPage, flushAllPages *)

\* Pages some client is in the middle of writing: the bytes a concurrent
\* writePage copies out of the frame may be torn.
InFlight == {k \in PageKey : \E c \in Client : held[c] = k /\ use[c] = "wrote"}

\* Mutant: flushing skips pinned pages.
DirtyUnpinned == {k \in PageKey : Resident(k) /\ isDirty[pageTable[k]] /\ pinCount[pageTable[k]] = 0}

DirtyPages == {k \in PageKey : Resident(k) /\ isDirty[pageTable[k]]}

\* What writePage copies for each page of S.
Copies(S) ==
  {copy \in [S -> Data] : \A k \in S \ InFlight : copy[k] = data[pageTable[k]]}

\* The pages of S are written to disk and their frames become clean.
flushed(S) ==
  /\ \E copy \in Copies(S) : writePages(S, copy)
  /\ isDirty' = [f \in Frame |-> isDirty[f] /\ \A k \in S : pageTable[k] # f]
  /\ UNCHANGED <<frameKey, data, pinCount, pageTable, lruList, freeList,
                 clientVars>>

flushPage(k) ==
  LET S == {k} \cap DirtyPages IN
  \/ (\A x \in S : IsOpen(x)) /\ flushed(S) /\ fault' = "none"
  \/ (\E x \in S : ~IsOpen(x)) /\ fault' = "badFile"
     /\ UNCHANGED <<diskVars, poolVars, clientVars>>

\* Every dirty page is written, in the order of the hash table.
flushAllPages ==
  /\ \A k \in DirtyPages : IsOpen(k)
  /\ flushed(DirtyPages)
  /\ fault' = "none"

\* The loop stops at the first page whose file is not open.
flushAllThrows ==
  /\ \E k \in DirtyPages : ~IsOpen(k)
  /\ \E S \in SUBSET {k \in DirtyPages : IsOpen(k)} : flushed(S)
  /\ fault' = "badFile"

-------------------------------------------------------------------------------
(* DiskManager calls other than readPage and writePage *)

diskCall ==
  /\ createFile \/ \E f \in File : closeFile(f) \/ allocateNewPage(f)
  /\ UNCHANGED <<poolVars, clientVars, fault>>

Next ==
  \/ \E c \in Client, k \in PageKey, w \in BOOLEAN :
       fetchHit(c, k, w) \/ fetchLoad(c, k, w)
  \/ \E c \in Client, k \in PageKey : fetchAllPinned(c, k) \/ fetchThrows(c, k)
  \/ \E c \in Client, d \in Data : clientWrite(c, d)
  \/ \E c \in Client, dirty \in BOOLEAN : unpinPage(c, dirty)
  \/ \E k \in PageKey : flushPage(k)
  \/ flushAllPages
  \/ flushAllThrows
  \/ diskCall

Spec == Init /\ [][Next]_vars

-------------------------------------------------------------------------------
(* Properties *)

\* A page pinned by a client is in the table at the frame its pointer points
\* into: fetchPage's eviction never takes a frame away from a caller.
PointersValid ==
  \A c \in Client : held[c] # NoPage =>
    /\ Resident(held[c])
    /\ ptr[c] = pageTable[held[c]]
    /\ frameKey[ptr[c]] = held[c]

\* pinCount is the number of callers between fetchPage and unpinPage.
PinCountsExact ==
  \A f \in Frame : pinCount[f] = Cardinality({c \in Client : ptr[c] = f})

\* BufferPool.h: "Only unpinned pages are in this list", and every one of
\* them, once: an unpinned page can always be evicted.
LruExact ==
  /\ IsInjective(lruList)
  /\ ToSet(lruList) =
       {f \in Frame : pinCount[f] = 0 /\ \E k \in PageKey : pageTable[k] = f}

\* A page whose frame is clean has the same bytes on disk, so that eviction
\* may drop it without a write; a caller that has written and not yet
\* unpinned owes the dirty bit to its unpinPage.
CleanMatchesDisk ==
  \A k \in PageKey :
    Resident(k) /\ ~isDirty[pageTable[k]] /\ k \notin InFlight
      => disk[k] = data[pageTable[k]]

\* The value of a page, wherever the pool keeps it.
store == [k \in PageKey |-> IF Resident(k) THEN data[pageTable[k]] ELSE disk[k]]

Abs == INSTANCE PageStore WITH
         PageKey <- PageKey, File <- File, FileOf <- FileOf, Data <- Data, Zero <- Zero,
         Client <- Client, NoPage <- NoPage,
         store <- store, files <- files, held <- held

\* The pool is a page store: no fetch, eviction, flush or failed call changes
\* what a later fetchPage of a page of an open file returns.
ImplementsPageStore == Abs!Spec

\* BufferPool.h: flushAllPages "Flush all dirty pages to disk".  When it
\* returns normally, what is on disk is what a client would read, for every
\* page that is not being written at that moment.
FlushAllDurable ==
  [][flushAllPages => \A k \in PageKey \ InFlight : disk'[k] = store[k]]_vars

-------------------------------------------------------------------------------
(* The inductive invariant behind them *)

\* An entry of the page table leads to a frame that holds its page.
TableExact == \A k \in PageKey : Resident(k) => frameKey[pageTable[k]] = k

\* Free frames hold no page, and each is free once.
FreeFrames ==
  /\ IsInjective(freeList)
  /\ \A f \in ToSet(freeList) : frameKey[f] = NoPage /\ pinCount[f] = 0

\* A client has a pointer and a use exactly while it has a page.
ClientsConsistent ==
  \A c \in Client : (held[c] = NoPage) <=> (ptr[c] = NoFrame /\ use[c] = "idle")

\* Nobody has written a page that lies beyond the end of its file.
BeyondEndZero ==
  \A k \in PageKey : ~InFile(k) =>
    disk[k] = Zero /\ (Resident(k) => data[pageTable[k]] = Zero)

IndInv ==
  /\ TypeOK
  /\ TableExact
  /\ LruExact
  /\ FreeFrames
  /\ ClientsConsistent
  /\ PointersValid
  /\ PinCountsExact
  /\ CleanMatchesDisk
  /\ BeyondEndZero
================================================================================
