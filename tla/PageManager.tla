------------------------------ MODULE PageManager ------------------------------
(***************************************************************************)
(* One heap file of src/storage/PageManager.cpp: slotted pages with a slot *)
(* directory of fixed size in the header and tuples appended behind it.    *)
(* MiniDB calls the page manager from one thread, and the buffer pool is a *)
(* page store (BufferPool, ImplementsPageStore), so a call is one step on  *)
(* the values of the pages.                                                *)
(*                                                                         *)
(* A tuple is the sequence of its bytes.  A page keeps the bytes behind    *)
(* the header; offsets count from the start of the page.                   *)
(***************************************************************************)
EXTENDS Integers, Sequences

CONSTANTS PAGE_SIZE, HEADER_SIZE, MAX_SLOTS_PER_PAGE,
          MaxPages,   \* bound on the pages of the file
          Byte, ZeroByte,
          Tuple       \* the serialised tuples that are inserted

\* The tuples are those that fit into an empty page: insertTuple does not test
\* it.  An empty one is left out: it takes a slot that readTuple reports as empty
\* (a table without columns; see Executors).
ASSUME PageAssumption ==
  /\ HEADER_SIZE \in Nat \ {0} /\ PAGE_SIZE \in Nat /\ HEADER_SIZE <= PAGE_SIZE
  /\ MAX_SLOTS_PER_PAGE \in Nat \ {0}
  /\ MaxPages \in Nat \ {0}
  /\ ZeroByte \in Byte
  /\ Tuple \subseteq Seq(Byte)
  /\ \A t \in Tuple : Len(t) \in 1 .. PAGE_SIZE - HEADER_SIZE

PageNum == 0 .. MaxPages - 1
Slot == 0 .. MAX_SLOTS_PER_PAGE - 1
RID == PageNum \X Slot
Offset == HEADER_SIZE .. PAGE_SIZE - 1

Page == [numSlots : 0 .. MAX_SLOTS_PER_PAGE,
         freeSpacePtr : 0 .. PAGE_SIZE,
         slotDirectory : [Slot -> 0 .. PAGE_SIZE],
         slotLengths : [Slot -> 0 .. PAGE_SIZE],
         bytes : [Offset -> Byte]]

VARIABLES pageCount,
          pages       \* PageNum -> Page

vars == <<pageCount, pages>>

\* Type of the page count and of every page.
TypeOK ==
  /\ pageCount \in 0 .. MaxPages
  /\ pages \in [PageNum -> Page]

\* initPage
initPage ==
  [numSlots |-> 0,
   freeSpacePtr |-> HEADER_SIZE,
   slotDirectory |-> [s \in Slot |-> 0],
   slotLengths |-> [s \in Slot |-> 0],
   bytes |-> [o \in Offset |-> ZeroByte]]

\* createTable.  The pages beyond the end are shown as allocateNewPage and
\* initPage will leave them.
Init ==
  /\ pageCount = 1
  /\ pages = [p \in PageNum |-> initPage]

\* Slot s of page p holds a tuple.
Live(p, s) == pages[p].slotLengths[s] > 0

-------------------------------------------------------------------------------
(* insertTuple *)

\* Mutant: the test forgets one byte.
roomOffByOne(p, n) == PAGE_SIZE - pages[p].freeSpacePtr + 1 >= n

hasRoom(p, n) == PAGE_SIZE - pages[p].freeSpacePtr >= n

\* p is the page that findFreePage returns: the first with room, or a new one.
findFreePage(p, n) ==
  \/ /\ p < pageCount /\ hasRoom(p, n)
     /\ \A q \in 0 .. p - 1 : ~hasRoom(q, n)
  \/ /\ p = pageCount
     /\ \A q \in 0 .. pageCount - 1 : ~hasRoom(q, n)

\* Mutant: a slot counts as empty unless its tuple lies beyond the first one.
firstIsEmpty(pg, s) == pg.slotDirectory[s] <= HEADER_SIZE

isEmpty(pg, s) == pg.slotDirectory[s] = 0 /\ pg.slotLengths[s] = 0

\* s is the slot insertTuple picks in page pg: the first empty one, or the next.
pickSlot(pg, s) ==
  \/ /\ s < pg.numSlots /\ isEmpty(pg, s)
     /\ \A i \in 0 .. s - 1 : ~isEmpty(pg, i)
  \/ /\ s = pg.numSlots
     /\ \A i \in 0 .. pg.numSlots - 1 : ~isEmpty(pg, i)

\* Mutant: freeSpacePtr moves for a new slot only.
advanceNewSlot(pg, s, n) == IF s < pg.numSlots THEN pg.freeSpacePtr ELSE pg.freeSpacePtr + n

advance(pg, s, n) == pg.freeSpacePtr + n

\* The tuple is copied to the free space and slot s leads to it.
place(pg, s, t) ==
  [numSlots |-> IF s >= pg.numSlots THEN s + 1 ELSE pg.numSlots,
   freeSpacePtr |-> advance(pg, s, Len(t)),
   slotDirectory |-> [pg.slotDirectory EXCEPT ![s] = pg.freeSpacePtr],
   slotLengths |-> [pg.slotLengths EXCEPT ![s] = Len(t)],
   bytes |-> [o \in Offset |->
     IF o \in pg.freeSpacePtr .. pg.freeSpacePtr + Len(t) - 1
     THEN t[o - pg.freeSpacePtr + 1] ELSE pg.bytes[o]]]

\* The usual case: a slot is free in the page with room.
insertHere(t) ==
  \E p \in PageNum, s \in Slot :
    /\ findFreePage(p, Len(t))
    /\ pickSlot(pages[p], s)
    /\ pages' = [pages EXCEPT ![p] = place(pages[p], s, t)]
    /\ pageCount' = IF p = pageCount THEN pageCount + 1 ELSE pageCount

\* The page with room has no slot left: the tuple goes to slot 0 of a new page.
insertNewPage(t) ==
  \E p \in PageNum :
    /\ findFreePage(p, Len(t))
    /\ pickSlot(pages[p], MAX_SLOTS_PER_PAGE)
    /\ pageCount < MaxPages
    /\ pages' = [pages EXCEPT ![pageCount] = place(initPage, 0, t)]
    /\ pageCount' = pageCount + 1

insertTuple(t) == insertHere(t) \/ insertNewPage(t)

-------------------------------------------------------------------------------
(* deleteTuple, readTuple *)

\* Mutant: the space of the tuple is given back.
deleteGivesBack(p, s) ==
  /\ p < pageCount
  /\ pages' = IF s < pages[p].numSlots
              THEN [pages EXCEPT ![p].slotDirectory[s] = 0, ![p].slotLengths[s] = 0,
                                 ![p].freeSpacePtr = IF Live(p, s) THEN pages[p].slotDirectory[s] ELSE @]
              ELSE pages
  /\ UNCHANGED pageCount

deleteTuple(p, s) ==
  /\ p < pageCount
  /\ pages' = IF s < pages[p].numSlots
              THEN [pages EXCEPT ![p].slotDirectory[s] = 0, ![p].slotLengths[s] = 0]
              ELSE pages
  /\ UNCHANGED pageCount

NoTuple == <<>>

\* The bytes that readTuple copies out; none when the slot is empty.
readTuple(p, s) ==
  LET pg == pages[p] IN
  IF s >= pg.numSlots \/ pg.slotLengths[s] = 0 THEN NoTuple
  ELSE [i \in 1 .. pg.slotLengths[s] |-> pg.bytes[pg.slotDirectory[s] + i - 1]]

Next ==
  \/ \E t \in Tuple : insertTuple(t)
  \/ \E rid \in RID : deleteTuple(rid[1], rid[2])

Spec == Init /\ [][Next]_vars

-------------------------------------------------------------------------------
(* Properties *)

tuples == [rid \in RID |-> readTuple(rid[1], rid[2])]

Abs == INSTANCE TupleStore WITH
         RID <- RID, Tuple <- Tuple, NoTuple <- NoTuple, tuples <- tuples

\* A heap file is a map from RIDs to tuples: insertTuple puts the tuple at an RID
\* that is free, where readTuple finds its bytes until it is deleted, and no
\* insertion or deletion changes another tuple.
ImplementsTupleStore == Abs!Spec

EndOf(p, s) == pages[p].slotDirectory[s] + pages[p].slotLengths[s]

\* The tuples of a page lie behind the header and before the free space, and
\* no two of them share a byte, however often slots were emptied and used again.
TuplesDisjoint ==
  \A p \in PageNum : \A s \in Slot : Live(p, s) =>
    /\ s < pages[p].numSlots
    /\ HEADER_SIZE <= pages[p].slotDirectory[s]
    /\ EndOf(p, s) <= pages[p].freeSpacePtr
    /\ \A i \in Slot \ {s} : Live(p, i) =>
         \/ EndOf(p, s) <= pages[p].slotDirectory[i]
         \/ EndOf(p, i) <= pages[p].slotDirectory[s]

\* Slots beyond numSlots have never been used, and an emptied slot has neither
\* an offset nor a length.
UnusedSlotsEmpty ==
  \A p \in PageNum : \A s \in Slot :
    s >= pages[p].numSlots \/ ~Live(p, s) => isEmpty(pages[p], s)

\* Pages beyond the end are as initPage will leave them.
FreshBeyondEnd == \A p \in PageNum : p >= pageCount => pages[p] = initPage

\* The free space of a page starts behind its header.
FreeSpaceBehindHeader == \A p \in PageNum : pages[p].freeSpacePtr >= HEADER_SIZE

IndInv ==
  /\ TypeOK
  /\ TuplesDisjoint
  /\ UnusedSlotsEmpty
  /\ FreshBeyondEnd
  /\ FreeSpaceBehindHeader
================================================================================
