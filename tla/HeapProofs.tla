------------------------------ MODULE HeapProofs ------------------------------
(***************************************************************************)
(* For every page size, directory size and number of pages: a heap file    *)
(* implements the tuple store.  What the proof rests on is that a tuple is *)
(* written behind everything that is live in its page (TuplesDisjoint).    *)
(*                                                                         *)
(* For every number of processes and crashes: recover leaves a heap whose  *)
(* tuples do not overlap.  After a crash a page is as old as its last      *)
(* write-back; it is then a good page of that time, or one that was never  *)
(* initialised, and the records that redo and undo apply to it keep it so. *)
(*                                                                         *)
(* When recover is exact: the log of the first process is a history of its *)
(* heaps, insertTuple has no choice, and so redo goes through these heaps  *)
(* again up to the last record that committed (ExactInv).                  *)
(***************************************************************************)
EXTENDS Recovery, ListLemmas, FiniteSetTheorems, SequenceTheorems, TLAPS

\* What holds of a page by itself: the conjuncts of IndInv, for one page.
GoodPage(pg) ==
  /\ pg \in Page
  /\ pg.freeSpacePtr >= HEADER_SIZE
  /\ \A s \in Slot : s >= pg.numSlots \/ pg.slotLengths[s] = 0 => isEmpty(pg, s)
  /\ \A s \in Slot : pg.slotLengths[s] > 0 =>
       /\ s < pg.numSlots
       /\ HEADER_SIZE <= pg.slotDirectory[s]
       /\ pg.slotDirectory[s] + pg.slotLengths[s] <= pg.freeSpacePtr
  /\ \A s, i \in Slot : s # i /\ pg.slotLengths[s] > 0 /\ pg.slotLengths[i] > 0 =>
       \/ pg.slotDirectory[s] + pg.slotLengths[s] <= pg.slotDirectory[i]
       \/ pg.slotDirectory[i] + pg.slotLengths[i] <= pg.slotDirectory[s]

\* The invariant is that of the single pages, and of the pages beyond the end.
LEMMA PagewiseInvariant ==
  IndInv <=> /\ pageCount \in 0 .. MaxPages
             /\ pages \in [PageNum -> Page]
             /\ \A p \in PageNum : GoodPage(pages[p])
             /\ FreshBeyondEnd
<1>1. ASSUME pages \in [PageNum -> Page], NEW p \in PageNum, NEW s \in Slot
      PROVE  /\ pages[p] \in Page
             /\ pages[p].slotLengths[s] \in Nat
             /\ (Live(p, s) <=> pages[p].slotLengths[s] > 0)
             /\ (~Live(p, s) <=> pages[p].slotLengths[s] = 0)
  BY <1>1, PageAssumption DEF Page, Live
<1>2. ASSUME IndInv, NEW p \in PageNum PROVE GoodPage(pages[p])
  <2>1. pages \in [PageNum -> Page]
    BY <1>2 DEF IndInv, TypeOK
  <2>2. pages[p] \in Page /\ pages[p].freeSpacePtr >= HEADER_SIZE
    BY <1>2, <2>1 DEF IndInv, FreeSpaceBehindHeader
  <2>3. \A s \in Slot : s >= pages[p].numSlots \/ pages[p].slotLengths[s] = 0
                          => isEmpty(pages[p], s)
    BY <1>1, <1>2, <2>1 DEF IndInv, UnusedSlotsEmpty
  <2>4. \A s \in Slot : pages[p].slotLengths[s] > 0 =>
          /\ s < pages[p].numSlots
          /\ HEADER_SIZE <= pages[p].slotDirectory[s]
          /\ pages[p].slotDirectory[s] + pages[p].slotLengths[s] <= pages[p].freeSpacePtr
    BY <1>1, <1>2, <2>1 DEF IndInv, TuplesDisjoint, EndOf
  <2>5. \A s, i \in Slot :
          s # i /\ pages[p].slotLengths[s] > 0 /\ pages[p].slotLengths[i] > 0 =>
            \/ pages[p].slotDirectory[s] + pages[p].slotLengths[s] <= pages[p].slotDirectory[i]
            \/ pages[p].slotDirectory[i] + pages[p].slotLengths[i] <= pages[p].slotDirectory[s]
    BY <1>1, <1>2, <2>1 DEF IndInv, TuplesDisjoint, EndOf
  <2>6. QED BY <2>2, <2>3, <2>4, <2>5 DEF GoodPage
<1>3. ASSUME pages \in [PageNum -> Page], \A p \in PageNum : GoodPage(pages[p])
      PROVE  TuplesDisjoint /\ UnusedSlotsEmpty /\ FreeSpaceBehindHeader
  BY <1>1, <1>3 DEF GoodPage, TuplesDisjoint, UnusedSlotsEmpty, FreeSpaceBehindHeader, EndOf
<1>4. QED BY <1>2, <1>3 DEF IndInv, TypeOK

\* The same after a step.
LEMMA PagewiseNext ==
  (IndInv <=> /\ pageCount \in 0 .. MaxPages
              /\ pages \in [PageNum -> Page]
              /\ \A p \in PageNum : GoodPage(pages[p])
              /\ FreshBeyondEnd)'
BY PagewiseInvariant, PTL

\* A page as initPage leaves it.
LEMMA FreshPage == GoodPage(initPage)
<1>1. initPage \in Page
  BY PageAssumption DEF initPage, Page, Offset, Slot
<1>2. /\ initPage.freeSpacePtr = HEADER_SIZE
      /\ \A s \in Slot : initPage.slotDirectory[s] = 0 /\ initPage.slotLengths[s] = 0
  BY DEF initPage
<1>3. QED BY <1>1, <1>2, PageAssumption DEF GoodPage, isEmpty

\* The fields of a page after a tuple was placed into slot s.
LEMMA PlaceFields ==
  ASSUME NEW pg \in Page, NEW s \in Slot, NEW t \in Tuple,
         GoodPage(pg), PAGE_SIZE - pg.freeSpacePtr >= Len(t)
  PROVE  LET new == place(pg, s, t) IN
         /\ new \in Page
         /\ new.freeSpacePtr = pg.freeSpacePtr + Len(t)
         /\ new.numSlots = IF s >= pg.numSlots THEN s + 1 ELSE pg.numSlots
         /\ new.slotDirectory[s] = pg.freeSpacePtr
         /\ new.slotLengths[s] = Len(t)
         /\ \A i \in Slot \ {s} : new.slotDirectory[i] = pg.slotDirectory[i]
                                  /\ new.slotLengths[i] = pg.slotLengths[i]
         /\ \A o \in Offset : o < pg.freeSpacePtr => new.bytes[o] = pg.bytes[o]
         /\ \A i \in 1 .. Len(t) : /\ pg.freeSpacePtr + i - 1 \in Offset
                                   /\ new.bytes[pg.freeSpacePtr + i - 1] = t[i]
<1> DEFINE f == pg.freeSpacePtr
           n == Len(t)
           new == place(pg, s, t)
<1>1. /\ f \in HEADER_SIZE .. PAGE_SIZE /\ n \in 1 .. PAGE_SIZE - HEADER_SIZE
      /\ f + n <= PAGE_SIZE /\ f + n \in 0 .. PAGE_SIZE
      /\ n \in 0 .. PAGE_SIZE /\ f \in 0 .. PAGE_SIZE
      /\ HEADER_SIZE \in Nat /\ PAGE_SIZE \in Nat
  BY PageAssumption DEF GoodPage, Page
<1>2. /\ pg.numSlots \in 0 .. MAX_SLOTS_PER_PAGE
      /\ pg.slotDirectory \in [Slot -> 0 .. PAGE_SIZE]
      /\ pg.slotLengths \in [Slot -> 0 .. PAGE_SIZE]
      /\ pg.bytes \in [Offset -> Byte]
  BY DEF Page
<1>3. \A i \in 1 .. n : t[i] \in Byte
  BY PageAssumption
<1>4. /\ new.numSlots = IF s >= pg.numSlots THEN s + 1 ELSE pg.numSlots
      /\ new.freeSpacePtr = f + n
      /\ new.slotDirectory = [pg.slotDirectory EXCEPT ![s] = f]
      /\ new.slotLengths = [pg.slotLengths EXCEPT ![s] = n]
      /\ new.bytes = [o \in Offset |-> IF o \in f .. f + n - 1 THEN t[o - f + 1] ELSE pg.bytes[o]]
  BY DEF place, advance
<1>5. new.bytes \in [Offset -> Byte]
  <2>1. ASSUME NEW o \in Offset, o \in f .. f + n - 1 PROVE o - f + 1 \in 1 .. n
    BY <1>1, <2>1, SMTT(30) DEF Offset
  <2>2. QED BY <1>2, <1>3, <1>4, <2>1
<1>6. new \in Page
  <2>1. new.numSlots \in 0 .. MAX_SLOTS_PER_PAGE
    BY <1>2, <1>4, PageAssumption DEF Slot
  <2>2. new.slotDirectory \in [Slot -> 0 .. PAGE_SIZE] /\ new.slotLengths \in [Slot -> 0 .. PAGE_SIZE]
    BY <1>1, <1>2, <1>4
  <2>3. new = [numSlots |-> new.numSlots, freeSpacePtr |-> new.freeSpacePtr,
               slotDirectory |-> new.slotDirectory, slotLengths |-> new.slotLengths,
               bytes |-> new.bytes]
    BY DEF place
  <2> HIDE DEF new
  <2>4. QED BY <1>1, <1>4, <1>5, <2>1, <2>2, <2>3 DEF Page
<1>7. \A o \in Offset : o < f => new.bytes[o] = pg.bytes[o]
  BY <1>1, <1>4 DEF Offset
<1>8. ASSUME NEW i \in 1 .. n PROVE f + i - 1 \in Offset /\ new.bytes[f + i - 1] = t[i]
  <2>1. f + i - 1 \in Offset /\ f + i - 1 \in f .. f + n - 1 /\ (f + i - 1) - f + 1 = i
    BY <1>1, SMTT(30) DEF Offset
  <2>2. QED BY <1>4, <2>1
<1>9. QED BY <1>2, <1>4, <1>6, <1>7, <1>8

\* Placing a tuple into an empty slot, where there is room, keeps a page good.
LEMMA PlaceKeepsPage ==
  ASSUME NEW pg \in Page, NEW s \in Slot, NEW t \in Tuple, GoodPage(pg),
         PAGE_SIZE - pg.freeSpacePtr >= Len(t), pickSlot(pg, s)
  PROVE  GoodPage(place(pg, s, t))
<1> DEFINE new == place(pg, s, t)
<1>1. /\ new \in Page
      /\ new.freeSpacePtr = pg.freeSpacePtr + Len(t)
      /\ new.numSlots = IF s >= pg.numSlots THEN s + 1 ELSE pg.numSlots
      /\ new.slotDirectory[s] = pg.freeSpacePtr
      /\ new.slotLengths[s] = Len(t)
      /\ \A i \in Slot \ {s} : new.slotDirectory[i] = pg.slotDirectory[i]
                               /\ new.slotLengths[i] = pg.slotLengths[i]
  BY PlaceFields
<1> HIDE DEF new
<1>2. /\ pg.freeSpacePtr \in Nat /\ pg.freeSpacePtr >= HEADER_SIZE
      /\ Len(t) \in Nat /\ Len(t) > 0 /\ HEADER_SIZE \in Nat \ {0}
      /\ pg.numSlots \in Nat /\ s \in Nat /\ s <= pg.numSlots
      /\ \A i \in Slot : i \in Nat /\ pg.slotDirectory[i] \in Nat /\ pg.slotLengths[i] \in Nat
  BY PageAssumption, SMTT(30) DEF GoodPage, Page, Slot, pickSlot
<1>3. /\ \A i \in Slot : i >= pg.numSlots \/ pg.slotLengths[i] = 0 => isEmpty(pg, i)
      /\ \A i \in Slot : pg.slotLengths[i] > 0 =>
           /\ i < pg.numSlots
           /\ HEADER_SIZE <= pg.slotDirectory[i]
           /\ pg.slotDirectory[i] + pg.slotLengths[i] <= pg.freeSpacePtr
      /\ \A i, j \in Slot : i # j /\ pg.slotLengths[i] > 0 /\ pg.slotLengths[j] > 0 =>
           \/ pg.slotDirectory[i] + pg.slotLengths[i] <= pg.slotDirectory[j]
           \/ pg.slotDirectory[j] + pg.slotLengths[j] <= pg.slotDirectory[i]
  BY DEF GoodPage
<1>4. \A i \in Slot : i >= new.numSlots \/ new.slotLengths[i] = 0 => isEmpty(new, i)
  BY <1>1, <1>2, <1>3 DEF isEmpty
<1>5. \A i \in Slot : new.slotLengths[i] > 0 =>
        /\ i < new.numSlots
        /\ HEADER_SIZE <= new.slotDirectory[i]
        /\ new.slotDirectory[i] + new.slotLengths[i] <= new.freeSpacePtr
  <2>1. ASSUME NEW i \in Slot, i # s, new.slotLengths[i] > 0
        PROVE  /\ i < pg.numSlots
               /\ HEADER_SIZE <= new.slotDirectory[i]
               /\ new.slotDirectory[i] + new.slotLengths[i] <= pg.freeSpacePtr
    BY <1>1, <1>3, <2>1
  <2>2. pg.numSlots <= new.numSlots /\ s < new.numSlots /\ new.numSlots \in Nat
        /\ pg.freeSpacePtr <= new.freeSpacePtr /\ new.freeSpacePtr \in Nat
    BY <1>1, <1>2
  <2>3. ASSUME NEW i \in Slot, i # s, new.slotLengths[i] > 0
        PROVE  /\ i < new.numSlots
               /\ new.slotDirectory[i] + new.slotLengths[i] <= new.freeSpacePtr
    <3>1. /\ i \in Nat /\ pg.numSlots \in Nat /\ pg.freeSpacePtr \in Nat
          /\ new.slotDirectory[i] \in Nat /\ new.slotLengths[i] \in Nat
      BY <1>1, <1>2, <2>3
    <3>2. QED BY <2>1, <2>2, <2>3, <3>1
  <2>4. QED BY <1>1, <1>2, <2>1, <2>2, <2>3
<1>6. ASSUME NEW i \in Slot, NEW j \in Slot, i # j,
             new.slotLengths[i] > 0, new.slotLengths[j] > 0
      PROVE  \/ new.slotDirectory[i] + new.slotLengths[i] <= new.slotDirectory[j]
             \/ new.slotDirectory[j] + new.slotLengths[j] <= new.slotDirectory[i]
  <2>1. CASE i = s
    BY <1>1, <1>2, <1>3, <1>6, <2>1
  <2>2. CASE j = s
    BY <1>1, <1>2, <1>3, <1>6, <2>2
  <2>3. CASE i # s /\ j # s
    BY <1>1, <1>3, <1>6, <2>3
  <2>4. QED BY <2>1, <2>2, <2>3
<1>7. QED BY <1>1, <1>2, <1>4, <1>5, <1>6 DEF GoodPage, new

\* Emptying a slot keeps a page good, and leaves the other slots alone.
LEMMA ClearKeepsPage ==
  ASSUME NEW pg \in Page, NEW s \in Slot, GoodPage(pg), s < pg.numSlots
  PROVE  LET new == [pg EXCEPT !.slotDirectory[s] = 0, !.slotLengths[s] = 0] IN
         /\ GoodPage(new)
         /\ new \in Page
         /\ new.numSlots = pg.numSlots /\ new.bytes = pg.bytes
         /\ new.slotLengths[s] = 0
         /\ \A i \in Slot \ {s} : new.slotDirectory[i] = pg.slotDirectory[i]
                                  /\ new.slotLengths[i] = pg.slotLengths[i]
<1> DEFINE new == [pg EXCEPT !.slotDirectory[s] = 0, !.slotLengths[s] = 0]
<1>1. /\ new.numSlots = pg.numSlots /\ new.bytes = pg.bytes
      /\ new.freeSpacePtr = pg.freeSpacePtr
      /\ new.slotDirectory = [pg.slotDirectory EXCEPT ![s] = 0]
      /\ new.slotLengths = [pg.slotLengths EXCEPT ![s] = 0]
  BY DEF Page
<1>2. new \in Page
  <2>1. /\ [pg.slotDirectory EXCEPT ![s] = 0] \in [Slot -> 0 .. PAGE_SIZE]
        /\ [pg.slotLengths EXCEPT ![s] = 0] \in [Slot -> 0 .. PAGE_SIZE]
    BY PageAssumption DEF Page
  <2>2. new = [[pg EXCEPT !.slotDirectory = [pg.slotDirectory EXCEPT ![s] = 0]]
                 EXCEPT !.slotLengths = [pg.slotLengths EXCEPT ![s] = 0]]
    BY DEF Page
  <2>3. QED BY <2>1, <2>2 DEF Page
<1> HIDE DEF new
<1>3. /\ new.slotDirectory[s] = 0 /\ new.slotLengths[s] = 0
      /\ \A i \in Slot \ {s} : new.slotDirectory[i] = pg.slotDirectory[i]
                               /\ new.slotLengths[i] = pg.slotLengths[i]
  BY <1>1 DEF Page
<1>4. GoodPage(new)
  <2>1. \A i \in Slot : i >= new.numSlots \/ new.slotLengths[i] = 0 => isEmpty(new, i)
    BY <1>1, <1>3 DEF GoodPage, isEmpty
  <2>2. \A i \in Slot : new.slotLengths[i] > 0 => i # s
    BY <1>3
  <2>3. QED BY <1>1, <1>2, <1>3, <2>1, <2>2 DEF GoodPage
<1>5. QED BY <1>1, <1>2, <1>3, <1>4 DEF new

\* A page that is shown beyond the end has all its space and no slot in use.
LEMMA FreshFits ==
  ASSUME NEW t \in Tuple
  PROVE  /\ PAGE_SIZE - initPage.freeSpacePtr >= Len(t)
         /\ 0 \in Slot /\ pickSlot(initPage, 0) /\ initPage \in Page
BY FreshPage, PageAssumption DEF initPage, pickSlot, Slot, GoodPage

\* The steps of the heap file.  insertTuple changes one page, by placing the
\* tuple into a slot that is empty and with room for it.
LEMMA InsertStep ==
  ASSUME IndInv, NEW t \in Tuple, insertTuple(t)
  PROVE  \E p \in PageNum, s \in Slot :
           /\ PAGE_SIZE - pages[p].freeSpacePtr >= Len(t)
           /\ pickSlot(pages[p], s)
           /\ pages' = [pages EXCEPT ![p] = place(pages[p], s, t)]
           /\ \/ p < pageCount /\ pageCount' = pageCount
              \/ p = pageCount /\ pageCount' = pageCount + 1
<1>0. pageCount \in 0 .. MaxPages /\ FreshBeyondEnd
  BY DEF IndInv, TypeOK
<1>1. CASE insertHere(t)
  <2>1. PICK p \in PageNum, s \in Slot :
          /\ findFreePage(p, Len(t))
          /\ pickSlot(pages[p], s)
          /\ pages' = [pages EXCEPT ![p] = place(pages[p], s, t)]
          /\ pageCount' = IF p = pageCount THEN pageCount + 1 ELSE pageCount
    BY <1>1 DEF insertHere
  <2>2. CASE p < pageCount /\ hasRoom(p, Len(t))
    BY <1>0, <2>1, <2>2 DEF hasRoom, PageNum
  <2>3. CASE p = pageCount
    <3>1. pages[p] = initPage
      BY <1>0, <2>3 DEF FreshBeyondEnd, PageNum
    <3>2. QED BY <2>1, <2>3, <3>1, FreshFits
  <2>4. QED BY <2>1, <2>2, <2>3 DEF findFreePage
<1>2. CASE insertNewPage(t)
  <2>1. /\ pageCount < MaxPages
        /\ pages' = [pages EXCEPT ![pageCount] = place(initPage, 0, t)]
        /\ pageCount' = pageCount + 1
    BY <1>2 DEF insertNewPage
  <2>2. pageCount \in PageNum
    BY <1>0, <2>1, PageAssumption DEF PageNum
  <2>3. pages[pageCount] = initPage
    BY <1>0, <2>2 DEF FreshBeyondEnd, PageNum
  <2>4. QED BY <2>1, <2>2, <2>3, FreshFits
<1>3. QED BY <1>1, <1>2 DEF insertTuple

\* insertTuple keeps the invariant.
LEMMA InsertKeeps ==
  ASSUME IndInv, NEW t \in Tuple, insertTuple(t)
  PROVE  IndInv'
<1>0. /\ pageCount \in 0 .. MaxPages /\ pages \in [PageNum -> Page]
      /\ \A p \in PageNum : GoodPage(pages[p])
      /\ FreshBeyondEnd
  BY PagewiseInvariant
<1>1. PICK p \in PageNum, s \in Slot :
        /\ PAGE_SIZE - pages[p].freeSpacePtr >= Len(t)
        /\ pickSlot(pages[p], s)
        /\ pages' = [pages EXCEPT ![p] = place(pages[p], s, t)]
        /\ \/ p < pageCount /\ pageCount' = pageCount
           \/ p = pageCount /\ pageCount' = pageCount + 1
  BY InsertStep
<1>2. GoodPage(place(pages[p], s, t))
  BY <1>0, <1>1, PlaceKeepsPage
<1>3. place(pages[p], s, t) \in Page
  BY <1>2 DEF GoodPage
<1>4. pages' \in [PageNum -> Page] /\ \A q \in PageNum : GoodPage(pages'[q])
  BY <1>0, <1>1, <1>2, <1>3
<1>5. pageCount' \in 0 .. MaxPages
  BY <1>0, <1>1, PageAssumption DEF PageNum
<1>6. FreshBeyondEnd'
  BY <1>0, <1>1 DEF FreshBeyondEnd, PageNum
<1>7. QED BY <1>4, <1>5, <1>6, PagewiseNext

\* deleteTuple keeps the invariant.
LEMMA DeleteKeeps ==
  ASSUME IndInv, NEW p \in PageNum, NEW s \in Slot, deleteTuple(p, s)
  PROVE  IndInv'
<1>0. /\ pageCount \in 0 .. MaxPages /\ pages \in [PageNum -> Page]
      /\ \A q \in PageNum : GoodPage(pages[q])
      /\ FreshBeyondEnd
  BY PagewiseInvariant
<1> DEFINE new == [pages[p] EXCEPT !.slotDirectory[s] = 0, !.slotLengths[s] = 0]
<1>1. p < pageCount /\ pageCount' = pageCount
      /\ pages' = IF s < pages[p].numSlots THEN [pages EXCEPT ![p] = new] ELSE pages
  BY <1>0 DEF deleteTuple, Page
<1>2. s < pages[p].numSlots => GoodPage(new) /\ new \in Page
  BY <1>0, ClearKeepsPage
<1> HIDE DEF new
<1>3. pages' \in [PageNum -> Page] /\ \A q \in PageNum : GoodPage(pages'[q])
  BY <1>0, <1>1, <1>2
<1>4. FreshBeyondEnd'
  BY <1>0, <1>1 DEF FreshBeyondEnd, PageNum
<1>5. QED BY <1>0, <1>1, <1>3, <1>4, PagewiseNext

\* The inductive invariant of the heap file.
THEOREM HeapInvariant == Spec => []IndInv
<1>1. Init => IndInv
  <2> SUFFICES ASSUME Init PROVE IndInv
    OBVIOUS
  <2>1. initPage \in Page
    BY FreshPage DEF GoodPage
  <2>2. pageCount \in 0 .. MaxPages /\ pages \in [PageNum -> Page]
        /\ (\A p \in PageNum : GoodPage(pages[p])) /\ FreshBeyondEnd
    BY <2>1, FreshPage, PageAssumption DEF Init, FreshBeyondEnd
  <2>3. QED BY <2>2, PagewiseInvariant
<1>2. ASSUME IndInv, [Next]_vars PROVE IndInv'
  <2>1. ASSUME NEW t \in Tuple, insertTuple(t) PROVE IndInv'
    BY <1>2, <2>1, InsertKeeps
  <2>2. ASSUME NEW rid \in RID, deleteTuple(rid[1], rid[2]) PROVE IndInv'
    BY <1>2, <2>2, DeleteKeeps DEF RID
  <2>3. CASE UNCHANGED vars
    BY <1>2, <2>3 DEF vars, IndInv, TypeOK, TuplesDisjoint, Live, EndOf, UnusedSlotsEmpty,
       FreshBeyondEnd, FreeSpaceBehindHeader
  <2>4. QED BY <1>2, <2>1, <2>2, <2>3 DEF Next
<1>3. QED BY <1>1, <1>2, PTL DEF Spec

\* Type correctness of the heap file.
THEOREM HeapTypes == Spec => []TypeOK
<1>1. IndInv => TypeOK
  BY DEF IndInv
<1>2. QED BY <1>1, HeapInvariant, PTL

\* Live tuples of a page never overlap, nor reach into the header or the free space.
THEOREM HeapTuplesDisjoint == Spec => []TuplesDisjoint
<1>1. IndInv => TuplesDisjoint
  BY DEF IndInv
<1>2. QED BY <1>1, HeapInvariant, PTL

-------------------------------------------------------------------------------
(* Refinement *)

\* readTuple, as a function of the page.
ReadIn(pg, s) ==
  IF s >= pg.numSlots \/ pg.slotLengths[s] = 0 THEN NoTuple
  ELSE [i \in 1 .. pg.slotLengths[s] |-> pg.bytes[pg.slotDirectory[s] + i - 1]]

\* A slot that insertTuple picks has no tuple.
LEMMA PickedIsFree ==
  ASSUME NEW pg \in Page, NEW s \in Slot, pickSlot(pg, s)
  PROVE  ReadIn(pg, s) = NoTuple
BY DEF pickSlot, isEmpty, ReadIn, Page, Slot

\* What is read after a tuple was placed: the tuple in its slot, and in the
\* others what was there before.
LEMMA ReadAfterPlace ==
  ASSUME NEW pg \in Page, NEW s \in Slot, NEW t \in Tuple, GoodPage(pg),
         PAGE_SIZE - pg.freeSpacePtr >= Len(t), pickSlot(pg, s)
  PROVE  /\ ReadIn(place(pg, s, t), s) = t
         /\ \A i \in Slot \ {s} : ReadIn(place(pg, s, t), i) = ReadIn(pg, i)
<1> DEFINE new == place(pg, s, t)
<1>1. /\ new \in Page
      /\ new.numSlots = IF s >= pg.numSlots THEN s + 1 ELSE pg.numSlots
      /\ new.slotDirectory[s] = pg.freeSpacePtr
      /\ new.slotLengths[s] = Len(t)
      /\ \A i \in Slot \ {s} : new.slotDirectory[i] = pg.slotDirectory[i]
                               /\ new.slotLengths[i] = pg.slotLengths[i]
      /\ \A o \in Offset : o < pg.freeSpacePtr => new.bytes[o] = pg.bytes[o]
      /\ \A i \in 1 .. Len(t) : new.bytes[pg.freeSpacePtr + i - 1] = t[i]
  BY PlaceFields
<1> HIDE DEF new
<1>2. /\ Len(t) \in Nat /\ Len(t) > 0 /\ pg.numSlots \in Nat /\ s \in Nat /\ s <= pg.numSlots
      /\ t = [i \in 1 .. Len(t) |-> t[i]]
      /\ \A i \in Slot : i \in Nat
  BY PageAssumption, SMTT(30) DEF Page, Slot, pickSlot
<1>3. ReadIn(new, s) = t
  <2>1. ~(s >= new.numSlots) /\ new.slotLengths[s] # 0
    BY <1>1, <1>2
  <2>2. ReadIn(new, s) = [i \in 1 .. Len(t) |-> new.bytes[pg.freeSpacePtr + i - 1]]
    BY <1>1, <2>1 DEF ReadIn
  <2>3. QED BY <1>1, <1>2, <2>2
<1>4. ASSUME NEW i \in Slot \ {s} PROVE ReadIn(new, i) = ReadIn(pg, i)
  <2> DEFINE n == pg.slotLengths[i]
             d == pg.slotDirectory[i]
  <2>1. /\ new.slotLengths[i] = n /\ new.slotDirectory[i] = d /\ n \in Nat /\ d \in Nat
        /\ i \in Nat /\ pg.freeSpacePtr \in Nat /\ pg.freeSpacePtr <= PAGE_SIZE
        /\ PAGE_SIZE \in Nat /\ HEADER_SIZE \in Nat
    BY <1>1, <1>2, PageAssumption DEF Page
  <2>2. CASE n = 0
    BY <2>1, <2>2 DEF ReadIn
  <2>3. CASE n > 0
    <3>1. i < pg.numSlots /\ HEADER_SIZE <= d /\ d + n <= pg.freeSpacePtr
      BY <2>3 DEF GoodPage
    <3> HIDE DEF n, d
    <3>2. \A j \in 1 .. n : d + j - 1 \in Offset /\ d + j - 1 < pg.freeSpacePtr
      BY <2>1, <3>1, SMTT(30) DEF Offset
    <3>3. \A j \in 1 .. n : new.bytes[d + j - 1] = pg.bytes[d + j - 1]
      BY <1>1, <3>2
    <3>4. ~(i >= new.numSlots) /\ ~(i >= pg.numSlots) /\ n # 0
      BY <1>1, <1>2, <2>1, <2>3, <3>1
    <3>5. ReadIn(new, i) = [j \in 1 .. n |-> new.bytes[d + j - 1]]
      BY <2>1, <3>4 DEF ReadIn
    <3>6. ReadIn(pg, i) = [j \in 1 .. n |-> pg.bytes[d + j - 1]]
      BY <3>4 DEF ReadIn, n, d
    <3>7. QED BY <3>3, <3>5, <3>6
  <2>4. QED BY <2>1, <2>2, <2>3
<1>5. QED BY <1>3, <1>4 DEF new

\* The abstract map, page by page.
LEMMA TuplesByPage ==
  /\ tuples = [rid \in RID |-> ReadIn(pages[rid[1]], rid[2])]
  /\ tuples' = [rid \in RID |-> ReadIn(pages'[rid[1]], rid[2])]
BY DEF tuples, readTuple, ReadIn

\* insertTuple puts the tuple at an RID that has none, and changes no other.
LEMMA HeapInsert ==
  ASSUME IndInv, NEW t \in Tuple, insertTuple(t)
  PROVE  \E rid \in RID : Abs!Insert(rid, t)
<1>0. pages \in [PageNum -> Page] /\ \A p \in PageNum : GoodPage(pages[p])
  BY PagewiseInvariant
<1>1. PICK p \in PageNum, s \in Slot :
        /\ PAGE_SIZE - pages[p].freeSpacePtr >= Len(t)
        /\ pickSlot(pages[p], s)
        /\ pages' = [pages EXCEPT ![p] = place(pages[p], s, t)]
  BY InsertStep
<1> DEFINE rid == <<p, s>>
<1>2. rid \in RID /\ rid[1] = p /\ rid[2] = s
  BY DEF RID
<1>3. tuples[rid] = NoTuple
  BY <1>0, <1>1, <1>2, PickedIsFree, TuplesByPage
<1>4. /\ ReadIn(pages'[p], s) = t
      /\ \A i \in Slot \ {s} : ReadIn(pages'[p], i) = ReadIn(pages[p], i)
      /\ \A q \in PageNum \ {p} : pages'[q] = pages[q]
  BY <1>0, <1>1, ReadAfterPlace
<1>5. \A x \in RID : x # rid => x[1] # p \/ x[2] # s
  BY DEF RID
<1>6. \A x \in RID : x[1] \in PageNum /\ x[2] \in Slot
  BY DEF RID
<1>7. ASSUME NEW x \in RID PROVE tuples'[x] = IF x = rid THEN t ELSE tuples[x]
  <2>1. CASE x = rid
    BY <1>2, <1>4, <2>1, TuplesByPage
  <2>2. CASE x # rid
    BY <1>4, <1>5, <1>6, <2>2, TuplesByPage
  <2>3. QED BY <2>1, <2>2
<1> HIDE DEF rid
<1>8. tuples' = [tuples EXCEPT ![rid] = t]
  BY <1>2, <1>7, TuplesByPage
<1>9. QED BY <1>2, <1>3, <1>8 DEF Abs!Insert

\* deleteTuple takes away the tuple at its RID, and changes no other.
LEMMA HeapDelete ==
  ASSUME IndInv, NEW rid \in RID, deleteTuple(rid[1], rid[2])
  PROVE  Abs!Delete(rid)
<1> DEFINE p == rid[1]
           s == rid[2]
           new == [pages[p] EXCEPT !.slotDirectory[s] = 0, !.slotLengths[s] = 0]
<1>0. /\ pages \in [PageNum -> Page] /\ \A q \in PageNum : GoodPage(pages[q])
      /\ p \in PageNum /\ s \in Slot
  BY PagewiseInvariant DEF RID
<1>1. \A x \in RID : x[1] \in PageNum /\ x[2] \in Slot /\ (x # rid => x[1] # p \/ x[2] # s)
  BY DEF RID
<1>2. CASE s < pages[p].numSlots
  <2>1. pages' = [pages EXCEPT ![p] = new]
    BY <1>0, <1>2 DEF deleteTuple, Page
  <2>2. /\ new.numSlots = pages[p].numSlots /\ new.bytes = pages[p].bytes
        /\ new.slotLengths[s] = 0
        /\ \A i \in Slot \ {s} : new.slotDirectory[i] = pages[p].slotDirectory[i]
                                 /\ new.slotLengths[i] = pages[p].slotLengths[i]
    BY <1>0, <1>2, ClearKeepsPage
  <2> HIDE DEF new
  <2>3. ReadIn(new, s) = NoTuple /\ \A i \in Slot \ {s} : ReadIn(new, i) = ReadIn(pages[p], i)
    BY <2>2 DEF ReadIn
  <2>4. pages'[p] = new /\ \A q \in PageNum \ {p} : pages'[q] = pages[q]
    BY <1>0, <2>1
  <2> HIDE DEF p, s
  <2>5. tuples'[rid] = NoTuple
    BY <2>3, <2>4, TuplesByPage DEF p, s
  <2>6. \A x \in RID : x # rid => tuples'[x] = tuples[x]
    BY <1>1, <2>3, <2>4, TuplesByPage
  <2>7. QED BY <2>5, <2>6, TuplesByPage DEF Abs!Delete
<1>3. CASE ~(s < pages[p].numSlots)
  <2>1. pages' = pages
    BY <1>3 DEF deleteTuple
  <2>2. s >= pages[p].numSlots
    BY <1>0, <1>3 DEF Page, Slot
  <2>3. tuples' = tuples /\ tuples[rid] = NoTuple
    BY <2>1, <2>2, TuplesByPage DEF ReadIn
  <2>4. QED BY <2>3, TuplesByPage DEF Abs!Delete
<1>4. QED BY <1>2, <1>3

\* The heap file implements the tuple store.
THEOREM HeapRefinement == Spec => ImplementsTupleStore
<1>1. Init => Abs!Init
  <2> SUFFICES ASSUME Init PROVE tuples = [rid \in RID |-> NoTuple]
    BY DEF Abs!Init
  <2>1. ASSUME NEW rid \in RID PROVE ReadIn(pages[rid[1]], rid[2]) = NoTuple
    <3>1. pages[rid[1]] = initPage /\ rid[2] \in Slot
      BY DEF Init, RID
    <3>2. initPage.slotLengths[rid[2]] = 0
      BY <3>1 DEF initPage
    <3>3. QED BY <3>1, <3>2 DEF ReadIn
  <2>2. QED BY <2>1, TuplesByPage
<1>2. IndInv /\ [Next]_vars => [Abs!Next]_tuples
  <2> SUFFICES ASSUME IndInv, [Next]_vars PROVE [Abs!Next]_tuples
    OBVIOUS
  <2>1. ASSUME NEW t \in Tuple, insertTuple(t) PROVE Abs!Next
    BY <2>1, HeapInsert DEF Abs!Next
  <2>2. ASSUME NEW rid \in RID, deleteTuple(rid[1], rid[2]) PROVE Abs!Next
    BY <2>2, HeapDelete DEF Abs!Next
  <2>3. CASE UNCHANGED vars
    BY <2>3, TuplesByPage DEF vars
  <2>4. QED BY <2>1, <2>2, <2>3 DEF Next
<1>3. QED BY <1>1, <1>2, HeapInvariant, PTL DEF Spec, ImplementsTupleStore, Abs!Spec

-------------------------------------------------------------------------------
(* recover *)

\* A page of the pool or of the file: good or never initialised, and each slot
\* holds one of the tuples that were inserted.
Fair(pg) ==
  /\ pg \in Page
  /\ GoodPage(pg) \/ pg = rawPage
  /\ \A s \in Slot : ReadIn(pg, s) \in Tuple \cup {NoTuple}

HeapInv ==
  /\ pageCount \in 0 .. MaxPages
  /\ pages \in [PageNum -> Page]
  /\ \A p \in PageNum : Fair(pages[p])
  /\ FreshBeyondEnd

\* The records of insertions and deletions carry a tuple.
RecordsCarry ==
  \A i \in 1 .. Len(log) : log[i].type \in {"INSERT", "DELETE"} => log[i].data \in Tuple

\* The loops of recover are at a record, and a process that died has a successor.
LoopsInBounds ==
  /\ mode = "redo" => pos >= 1
  /\ mode = "undo" => pos <= Len(log)
  /\ mode = "down" => session < MaxSessions

RInv ==
  /\ RecoveryTypeOK
  /\ HeapInv
  /\ \A p \in PageNum : Fair(diskPages[p])
  /\ RecordsCarry
  /\ LoopsInBounds

-------------------------------------------------------------------------------
(* Pages *)

\* An initialised empty page is fair.
LEMMA FreshFair == Fair(initPage)
<1>1. initPage \in Page /\ GoodPage(initPage)
  BY FreshPage DEF GoodPage
<1>2. initPage.numSlots = 0
  BY DEF initPage
<1>3. \A s \in Slot : ReadIn(initPage, s) = NoTuple
  BY <1>2 DEF ReadIn, Slot
<1>4. QED BY <1>1, <1>3 DEF Fair

\* So is a page that was never initialised.
LEMMA RawFair ==
  /\ Fair(rawPage)
  /\ rawPage.freeSpacePtr = 0 /\ rawPage.numSlots = 0
  /\ \A s \in Slot : rawPage.slotLengths[s] = 0
<1>1. initPage \in Page
  BY FreshPage DEF GoodPage
<1>2. rawPage \in Page
  <2>1. 0 \in 0 .. PAGE_SIZE
    BY PageAssumption
  <2>2. QED BY <1>1, <2>1 DEF rawPage, Page
<1>3. rawPage.freeSpacePtr = 0 /\ rawPage.numSlots = 0 /\ \A s \in Slot : rawPage.slotLengths[s] = 0
  BY DEF rawPage, initPage
<1>4. \A s \in Slot : ReadIn(rawPage, s) = NoTuple
  BY <1>3 DEF ReadIn, Slot
<1>5. QED BY <1>2, <1>3, <1>4 DEF Fair

\* A page whose free space starts behind the header is good.
LEMMA FairWithHeader ==
  ASSUME NEW pg, Fair(pg), ~(pg.freeSpacePtr < HEADER_SIZE)
  PROVE  GoodPage(pg)
BY RawFair, PageAssumption DEF Fair

\* Placing a tuple into a good page leaves a fair one.
LEMMA PlaceFair ==
  ASSUME NEW pg, NEW s \in Slot, NEW t \in Tuple, Fair(pg), GoodPage(pg),
         PAGE_SIZE - pg.freeSpacePtr >= Len(t), pickSlot(pg, s)
  PROVE  Fair(place(pg, s, t)) /\ place(pg, s, t) \in Page
<1>1. pg \in Page
  BY DEF Fair
<1>2. GoodPage(place(pg, s, t))
  BY <1>1, PlaceKeepsPage
<1>3. /\ ReadIn(place(pg, s, t), s) = t
      /\ \A i \in Slot \ {s} : ReadIn(place(pg, s, t), i) = ReadIn(pg, i)
  BY <1>1, ReadAfterPlace
<1>4. place(pg, s, t) \in Page
  BY <1>2 DEF GoodPage
<1> DEFINE new == place(pg, s, t)
<1>5. \A i \in Slot : ReadIn(pg, i) \in Tuple \cup {NoTuple}
  BY DEF Fair
<1> HIDE DEF new
<1>6. \A i \in Slot : ReadIn(new, i) \in Tuple \cup {NoTuple}
  BY <1>3, <1>5 DEF new
<1>7. QED BY <1>2, <1>4, <1>6 DEF Fair, new

\* Emptying a slot that is in use leaves a fair page.
LEMMA ClearFair ==
  ASSUME NEW pg, NEW s \in Slot, Fair(pg), s < pg.numSlots
  PROVE  LET new == [pg EXCEPT !.slotDirectory[s] = 0, !.slotLengths[s] = 0] IN
         Fair(new) /\ new \in Page
<1> DEFINE new == [pg EXCEPT !.slotDirectory[s] = 0, !.slotLengths[s] = 0]
<1>1. pg \in Page
  BY DEF Fair
<1>2. GoodPage(pg)
  <2>1. pg # rawPage
    BY RawFair DEF Slot
  <2>2. QED BY <2>1 DEF Fair
<1>3. /\ GoodPage(new) /\ new \in Page
      /\ new.numSlots = pg.numSlots /\ new.bytes = pg.bytes
      /\ new.slotLengths[s] = 0
      /\ \A i \in Slot \ {s} : new.slotDirectory[i] = pg.slotDirectory[i]
                               /\ new.slotLengths[i] = pg.slotLengths[i]
  BY <1>1, <1>2, ClearKeepsPage
<1> HIDE DEF new
<1>4. ReadIn(new, s) = NoTuple /\ \A i \in Slot \ {s} : ReadIn(new, i) = ReadIn(pg, i)
  BY <1>3 DEF ReadIn
<1>5. \A i \in Slot : ReadIn(new, i) \in Tuple \cup {NoTuple}
  BY <1>4 DEF Fair
<1>6. QED BY <1>3, <1>5 DEF Fair, new

-------------------------------------------------------------------------------
(* The heap *)

\* insertTuple, where it does not write over a header, keeps the heap.
LEMMA InsertKeepsHeap ==
  ASSUME HeapInv, NEW t \in Tuple, ~WritesOverHeader(t), insertTuple(t)
  PROVE  HeapInv'
<1>0. /\ pageCount \in 0 .. MaxPages /\ pages \in [PageNum -> Page]
      /\ \A p \in PageNum : Fair(pages[p])
      /\ FreshBeyondEnd
  BY DEF HeapInv
<1>1. \E p \in PageNum, s \in Slot :
        /\ GoodPage(pages[p]) /\ PAGE_SIZE - pages[p].freeSpacePtr >= Len(t)
        /\ pickSlot(pages[p], s)
        /\ pages' = [pages EXCEPT ![p] = place(pages[p], s, t)]
        /\ \/ p < pageCount /\ pageCount' = pageCount
           \/ p = pageCount /\ pageCount' = pageCount + 1
  <2>1. CASE insertHere(t)
    <3>1. PICK p \in PageNum, s \in Slot :
            /\ findFreePage(p, Len(t))
            /\ pickSlot(pages[p], s)
            /\ pages' = [pages EXCEPT ![p] = place(pages[p], s, t)]
            /\ pageCount' = IF p = pageCount THEN pageCount + 1 ELSE pageCount
      BY <2>1 DEF insertHere
    <3>2. CASE p < pageCount /\ hasRoom(p, Len(t))
      <4>1. ~(pages[p].freeSpacePtr < HEADER_SIZE)
        BY <3>1, <3>2 DEF WritesOverHeader
      <4>2. GoodPage(pages[p])
        BY <1>0, <4>1, FairWithHeader
      <4>3. pageCount' = pageCount
        BY <1>0, <3>1, <3>2 DEF PageNum
      <4>4. QED BY <3>1, <3>2, <4>2, <4>3 DEF hasRoom
    <3>3. CASE p = pageCount
      <4>1. pages[p] = initPage
        BY <1>0, <3>3 DEF FreshBeyondEnd, PageNum
      <4>2. QED BY <3>1, <3>3, <4>1, FreshFits, FreshPage
    <3>4. QED BY <3>1, <3>2, <3>3 DEF findFreePage
  <2>2. CASE insertNewPage(t)
    <3>1. /\ pageCount < MaxPages
          /\ pages' = [pages EXCEPT ![pageCount] = place(initPage, 0, t)]
          /\ pageCount' = pageCount + 1
      BY <2>2 DEF insertNewPage
    <3>2. pageCount \in PageNum
      BY <1>0, <3>1, PageAssumption DEF PageNum
    <3>3. pages[pageCount] = initPage
      BY <1>0, <3>2 DEF FreshBeyondEnd, PageNum
    <3>4. QED BY <3>1, <3>2, <3>3, FreshFits, FreshPage
  <2>3. QED BY <2>1, <2>2 DEF insertTuple
<1>2. PICK p \in PageNum, s \in Slot :
        /\ GoodPage(pages[p]) /\ PAGE_SIZE - pages[p].freeSpacePtr >= Len(t)
        /\ pickSlot(pages[p], s)
        /\ pages' = [pages EXCEPT ![p] = place(pages[p], s, t)]
        /\ \/ p < pageCount /\ pageCount' = pageCount
           \/ p = pageCount /\ pageCount' = pageCount + 1
  BY <1>1
<1>3. Fair(place(pages[p], s, t)) /\ place(pages[p], s, t) \in Page
  BY <1>0, <1>2, PlaceFair
<1>4. pages' \in [PageNum -> Page] /\ \A q \in PageNum : Fair(pages'[q])
  BY <1>0, <1>2, <1>3
<1>5. pageCount' \in 0 .. MaxPages
  BY <1>0, <1>2, PageAssumption DEF PageNum
<1>6. FreshBeyondEnd'
  BY <1>0, <1>2 DEF FreshBeyondEnd, PageNum
<1>7. QED BY <1>4, <1>5, <1>6 DEF HeapInv

\* deleteTuple keeps the heap, whatever the page holds by now.
LEMMA DeleteKeepsHeap ==
  ASSUME HeapInv, NEW p \in PageNum, NEW s \in Slot, deleteTuple(p, s)
  PROVE  HeapInv'
<1>0. /\ pageCount \in 0 .. MaxPages /\ pages \in [PageNum -> Page]
      /\ \A q \in PageNum : Fair(pages[q])
      /\ FreshBeyondEnd
  BY DEF HeapInv
<1> DEFINE new == [pages[p] EXCEPT !.slotDirectory[s] = 0, !.slotLengths[s] = 0]
<1>1. p < pageCount /\ pageCount' = pageCount
      /\ pages' = IF s < pages[p].numSlots THEN [pages EXCEPT ![p] = new] ELSE pages
  BY <1>0 DEF deleteTuple, Page
<1>2. s < pages[p].numSlots => Fair(new) /\ new \in Page
  BY <1>0, ClearFair
<1> HIDE DEF new
<1>3. pages' \in [PageNum -> Page] /\ \A q \in PageNum : Fair(pages'[q])
  BY <1>0, <1>1, <1>2
<1>4. FreshBeyondEnd'
  BY <1>0, <1>1 DEF FreshBeyondEnd, PageNum
<1>5. QED BY <1>0, <1>1, <1>3, <1>4 DEF HeapInv

\* A step that leaves the heap alone.
LEMMA HeapUntouched ==
  ASSUME HeapInv, UNCHANGED heapVars
  PROVE  HeapInv'
BY DEF HeapInv, heapVars, FreshBeyondEnd

\* insertOrSpoil keeps the heap: a page is spoilt in the model by the mode only.
LEMMA InsertOrSpoilKeepsHeap ==
  ASSUME HeapInv, NEW t \in Tuple, insertOrSpoil(t)
  PROVE  HeapInv' /\ mode' \in {mode, "spoilt"}
<1>1. CASE WritesOverHeader(t)
  BY <1>1, HeapUntouched DEF insertOrSpoil
<1>2. CASE ~WritesOverHeader(t)
  BY <1>2, InsertKeepsHeap DEF insertOrSpoil
<1>3. QED BY <1>1, <1>2

\* The tuple at an RID.
LEMMA TupleAtRid ==
  ASSUME HeapInv, NEW rid \in RID
  PROVE  tuples[rid] \in Tuple \cup {NoTuple}
<1>1. rid[1] \in PageNum /\ rid[2] \in Slot
  BY DEF RID
<1>2. ReadIn(pages[rid[1]], rid[2]) \in Tuple \cup {NoTuple}
  BY <1>1 DEF HeapInv, Fair
<1>3. QED BY <1>2, TuplesByPage

\* No two tuples of a fair heap overlap.
LEMMA HeapInvDisjoint == HeapInv => TuplesDisjoint
<1> SUFFICES ASSUME HeapInv, NEW p \in PageNum, NEW s \in Slot, Live(p, s)
             PROVE  /\ s < pages[p].numSlots
                    /\ HEADER_SIZE <= pages[p].slotDirectory[s]
                    /\ EndOf(p, s) <= pages[p].freeSpacePtr
                    /\ \A i \in Slot \ {s} : Live(p, i) =>
                         \/ EndOf(p, s) <= pages[p].slotDirectory[i]
                         \/ EndOf(p, i) <= pages[p].slotDirectory[s]
  BY DEF TuplesDisjoint
<1>1. pages[p] # rawPage
  BY RawFair DEF Live
<1>2. GoodPage(pages[p])
  BY <1>1 DEF HeapInv, Fair
<1>3. QED BY <1>2 DEF GoodPage, Live, EndOf
-------------------------------------------------------------------------------
(* The log *)

\* A record that carries what its type asks for.
GoodRecord(rec) ==
  rec \in LogRecord /\ (rec.type \in {"INSERT", "DELETE"} => rec.data \in Tuple)

GoodLog(recs) == recs \in Seq(LogRecord) /\ \A i \in 1 .. Len(recs) : GoodRecord(recs[i])

\* The log invariant, record by record.
LEMMA RecordwiseLog == log \in Seq(LogRecord) /\ RecordsCarry <=> GoodLog(log)
BY DEF GoodLog, GoodRecord, RecordsCarry

LEMMA RecordwiseNext == (log \in Seq(LogRecord) /\ RecordsCarry <=> GoodLog(log))'
BY RecordwiseLog, PTL

\* The RID of a record that concerns no tuple.
LEMMA NoRIDIsRID == NoRID \in RID
BY PageAssumption DEF NoRID, RID, PageNum, Slot

\* A good record behind a good log.
LEMMA AppendKeepsLog ==
  ASSUME GoodLog(log), NEW type, NEW x, NEW rid, NEW t, append(type, x, rid, t),
         session \in 1 .. MaxSessions, type \in LogRecordType, x \in TxnId \cup {NoTxn},
         rid \in RID, t \in Tuple \cup {NoTuple},
         type \in {"INSERT", "DELETE"} => t \in Tuple
  PROVE  GoodLog(log') /\ Len(log') = Len(log) + 1 /\ Len(log') <= MaxLog
<1> DEFINE rec == [type |-> type, txnId |-> x, rid |-> rid, data |-> t, session |-> session]
<1>1. Len(log) < MaxLog /\ log' = Append(log, rec)
  BY DEF append
<1>2. rec \in LogRecord /\ rec.type = type /\ rec.data = t
  BY DEF LogRecord
<1>3. GoodRecord(rec)
  BY <1>2 DEF GoodRecord
<1> HIDE DEF rec
<1>4. log \in Seq(LogRecord) /\ \A i \in 1 .. Len(log) : GoodRecord(log[i])
  BY DEF GoodLog
<1>5. /\ log' \in Seq(LogRecord) /\ Len(log') = Len(log) + 1
      /\ \A i \in 1 .. Len(log) : log'[i] = log[i]
      /\ log'[Len(log) + 1] = rec
  BY <1>1, <1>2, <1>4, AppendProperties
<1>6. ASSUME NEW i \in 1 .. Len(log') PROVE GoodRecord(log'[i])
  <2>1. i \in 1 .. Len(log) \/ i = Len(log) + 1
    BY <1>4, <1>5
  <2>2. QED BY <1>3, <1>4, <1>5, <2>1
<1>7. Len(log') <= MaxLog
  BY <1>1, <1>4, <1>5, RecoveryAssumption
<1>8. QED BY <1>5, <1>6, <1>7 DEF GoodLog

\* The part of the log that a crash leaves.
LEMMA PrefixKeepsLog ==
  ASSUME GoodLog(log), NEW n \in 0 .. Len(log), log' = SubSeq(log, 1, n)
  PROVE  GoodLog(log') /\ Len(log') = n
<1>1. log \in Seq(LogRecord) /\ \A i \in 1 .. Len(log) : GoodRecord(log[i])
  BY DEF GoodLog
<1>2. /\ SubSeq(log, 1, n) \in Seq(LogRecord) /\ Len(SubSeq(log, 1, n)) = n
      /\ \A i \in 1 .. n : SubSeq(log, 1, n)[i] = log[i]
  BY <1>1
<1>3. QED BY <1>1, <1>2 DEF GoodLog

-------------------------------------------------------------------------------
(* The invariant *)

\* RInv without the names of its parts.
Parts ==
  /\ HeapInv
  /\ diskPages \in [PageNum -> Page] /\ \A p \in PageNum : Fair(diskPages[p])
  /\ GoodLog(log) /\ Len(log) <= MaxLog
  /\ flushed \in 0 .. Len(log)
  /\ mode \in Mode
  /\ pos \in 0 .. Len(log) + 1
  /\ session \in 1 .. MaxSessions
  /\ active \subseteq TxnId /\ nextTxnId \in 1 .. MaxTxn + 1
  /\ fresh \in BOOLEAN
  /\ LoopsInBounds

LEMMA RInvParts == RInv <=> Parts
BY RecordwiseLog DEF RInv, Parts, RecoveryTypeOK, TypeOK, HeapInv

LEMMA RInvPartsNext == (RInv <=> Parts)'
BY RInvParts, PTL

\* The first process starts in the invariant.
LEMMA RecoveryStart == RecoveryInit => Parts
<1> SUFFICES ASSUME RecoveryInit PROVE Parts
  OBVIOUS
<1>1. HeapInv
  BY FreshFair, PageAssumption DEF RecoveryInit, Init, HeapInv, Fair, FreshBeyondEnd
<1>2. diskPages \in [PageNum -> Page] /\ \A p \in PageNum : Fair(diskPages[p])
  BY RawFair DEF RecoveryInit, Fair
<1>3. GoodLog(log) /\ Len(log) = 0
  BY DEF RecoveryInit, GoodLog
<1>4. /\ flushed \in 0 .. Len(log) /\ Len(log) <= MaxLog /\ pos \in 0 .. Len(log) + 1
      /\ session \in 1 .. MaxSessions /\ nextTxnId \in 1 .. MaxTxn + 1
  BY <1>3, RecoveryAssumption DEF RecoveryInit
<1>5. mode \in Mode /\ LoopsInBounds /\ active \subseteq TxnId /\ fresh \in BOOLEAN
  BY DEF RecoveryInit, Mode, LoopsInBounds
<1>6. QED BY <1>1, <1>2, <1>3, <1>4, <1>5 DEF Parts

\* An operation of a transaction, or a checkpoint, that only logs.
LEMMA LoggingKeeps ==
  ASSUME Parts, mode = "up",
         NEW type \in {"BEGIN_TXN", "COMMIT_TXN", "ABORT_TXN", "CHECKPOINT"},
         NEW x \in TxnId \cup {NoTxn}, append(type, x, NoRID, NoTuple),
         flushed' \in {flushed, Len(log) + 1},
         active' \subseteq TxnId, nextTxnId' \in 1 .. MaxTxn + 1,
         UNCHANGED <<heapVars, diskPages, mode, pos, session, fresh>>
  PROVE  Parts'
<1>1. HeapInv'
  BY HeapUntouched DEF Parts
<1>2. GoodLog(log') /\ Len(log') = Len(log) + 1 /\ Len(log') <= MaxLog
  <2>1. type \in LogRecordType /\ type \notin {"INSERT", "DELETE"}
    BY DEF LogRecordType
  <2>2. QED BY <2>1, NoRIDIsRID, AppendKeepsLog DEF Parts
<1>3. Len(log) \in Nat
  BY DEF Parts, GoodLog
<1>4. flushed' \in 0 .. Len(log') /\ pos' \in 0 .. Len(log') + 1
  BY <1>2, <1>3 DEF Parts
<1>5. LoopsInBounds'
  BY DEF LoopsInBounds
<1>6. QED BY <1>1, <1>2, <1>4, <1>5 DEF Parts

\* The operations of transactions.
LEMMA TransactionsKeep ==
  ASSUME Parts
  PROVE  /\ begin => Parts'
         /\ checkpoint => Parts'
         /\ \A x \in TxnId : commit(x) \/ abort(x) => Parts'
         /\ \A x \in TxnId, t \in Tuple : insert(x, t) => Parts'
         /\ \A x \in TxnId, rid \in RID : delete(x, rid) => Parts'
<1>1. /\ active \subseteq TxnId /\ nextTxnId \in 1 .. MaxTxn + 1
      /\ HeapInv /\ GoodLog(log) /\ Len(log) \in Nat
      /\ session \in 1 .. MaxSessions
  BY DEF Parts, GoodLog
<1>2. ASSUME begin PROVE Parts'
  <2>1. nextTxnId \in TxnId /\ nextTxnId' \in 1 .. MaxTxn + 1 /\ active' \subseteq TxnId
    BY <1>1, <1>2, RecoveryAssumption DEF begin, TxnId
  <2>2. QED BY <1>2, <2>1, LoggingKeeps DEF begin
<1>3. ASSUME checkpoint PROVE Parts'
  BY <1>1, <1>3, LoggingKeeps DEF checkpoint, txnVars
<1>4. ASSUME NEW x \in TxnId, commit(x) PROVE Parts'
  BY <1>1, <1>4, LoggingKeeps DEF commit
<1>5. ASSUME NEW x \in TxnId, abort(x) PROVE Parts'
  BY <1>1, <1>5, LoggingKeeps DEF abort
<1>6. ASSUME NEW x \in TxnId, NEW t \in Tuple, insert(x, t) PROVE Parts'
  <2>1. /\ mode = "up" /\ insertOrSpoil(t)
        /\ UNCHANGED <<diskPages, flushed, pos, session, txnVars, fresh>>
    BY <1>6 DEF insert
  <2>2. HeapInv' /\ mode' \in {"up", "spoilt"}
    BY <1>1, <2>1, InsertOrSpoilKeepsHeap
  <2>3. GoodLog(log') /\ Len(log') \in Nat /\ Len(log') >= Len(log) /\ Len(log') <= MaxLog
    <3>1. CASE UNCHANGED log
      BY <1>1, <3>1 DEF Parts
    <3>2. CASE \E rid \in RID : append("INSERT", x, rid, t)
      <4>1. PICK rid \in RID : append("INSERT", x, rid, t)
        BY <3>2
      <4>2. GoodLog(log') /\ Len(log') = Len(log) + 1 /\ Len(log') <= MaxLog
        BY <1>1, <4>1, AppendKeepsLog DEF LogRecordType
      <4>3. QED BY <1>1, <4>2
    <3>3. QED BY <1>6, <3>1, <3>2 DEF insert
  <2>4. flushed' \in 0 .. Len(log') /\ pos' \in 0 .. Len(log') + 1
    BY <1>1, <2>1, <2>3 DEF Parts
  <2>5. LoopsInBounds' /\ mode' \in Mode
    BY <2>2 DEF LoopsInBounds, Mode
  <2>6. QED BY <2>1, <2>2, <2>3, <2>4, <2>5 DEF Parts, txnVars
<1>7. ASSUME NEW x \in TxnId, NEW rid \in RID, delete(x, rid) PROVE Parts'
  <2>1. /\ mode = "up" /\ tuples[rid] # NoTuple
        /\ append("DELETE", x, rid, tuples[rid])
        /\ deleteTuple(rid[1], rid[2])
        /\ UNCHANGED <<diskPages, flushed, mode, pos, session, txnVars, fresh>>
    BY <1>7 DEF delete
  <2>2. HeapInv'
    <3>1. rid[1] \in PageNum /\ rid[2] \in Slot
      BY DEF RID
    <3>2. QED BY <1>1, <2>1, <3>1, DeleteKeepsHeap
  <2>3. GoodLog(log') /\ Len(log') = Len(log) + 1 /\ Len(log') <= MaxLog
    <3>1. tuples[rid] \in Tuple
      BY <1>1, <2>1, TupleAtRid
    <3> DEFINE t == tuples[rid]
    <3> HIDE DEF t
    <3>2. t \in Tuple /\ append("DELETE", x, rid, t)
      BY <2>1, <3>1 DEF t
    <3>3. QED BY <1>1, <3>2, AppendKeepsLog DEF LogRecordType
  <2>4. flushed' \in 0 .. Len(log') /\ pos' \in 0 .. Len(log') + 1
    BY <1>1, <2>1, <2>3 DEF Parts
  <2>5. LoopsInBounds'
    BY <2>1 DEF LoopsInBounds
  <2>6. QED BY <2>1, <2>2, <2>3, <2>4, <2>5 DEF Parts, txnVars
<1>8. QED BY <1>2, <1>3, <1>4, <1>5, <1>6, <1>7

\* What recover does with one record leaves a heap that is as good.
LEMMA ApplyKeeps ==
  ASSUME Parts, NEW rec, GoodRecord(rec), rec.type \in {"INSERT", "DELETE"},
         \/ insertOrSpoil(rec.data)
         \/ deleteTuple(rec.rid[1], rec.rid[2]) /\ UNCHANGED mode
  PROVE  HeapInv' /\ mode' \in {mode, "spoilt"}
<1>1. /\ HeapInv /\ rec.data \in Tuple
      /\ rec.rid[1] \in PageNum /\ rec.rid[2] \in Slot
  BY DEF Parts, GoodRecord, LogRecord, RID
<1>2. CASE insertOrSpoil(rec.data)
  BY <1>1, <1>2, InsertOrSpoilKeepsHeap
<1>3. CASE deleteTuple(rec.rid[1], rec.rid[2]) /\ UNCHANGED mode
  BY <1>1, <1>3, DeleteKeepsHeap
<1>4. QED BY <1>2, <1>3

\* The phases of recover.
LEMMA RecoverKeeps == ASSUME Parts, recover PROVE Parts'
<1>1. Len(log) \in Nat /\ HeapInv /\ pos \in 0 .. Len(log) + 1
      /\ \A i \in 1 .. Len(log) : GoodRecord(log[i])
  BY DEF Parts, GoodLog
<1>2. CASE redoPhase
  <2>1. /\ mode = "redo" /\ pos <= Len(log) /\ pos' = pos + 1
        /\ UNCHANGED <<diskPages, logVars, session, txnVars, fresh>>
    BY <1>2 DEF redoPhase
  <2>2. pos \in 1 .. Len(log)
    BY <1>1, <2>1 DEF Parts, LoopsInBounds
  <2>3. HeapInv' /\ mode' \in {"redo", "spoilt"}
    <3>1. CASE UNCHANGED <<heapVars, mode>>
      BY <1>1, <2>1, <3>1, HeapUntouched
    <3>2. CASE ~UNCHANGED <<heapVars, mode>>
      <4> DEFINE rec == log[pos]
      <4>1. /\ rec.type \in {"INSERT", "DELETE"}
            /\ \/ insertOrSpoil(rec.data)
               \/ deleteTuple(rec.rid[1], rec.rid[2]) /\ UNCHANGED mode
        BY <1>2, <3>2 DEF redoPhase
      <4>2. GoodRecord(rec)
        BY <1>1, <2>2
      <4> HIDE DEF rec
      <4>3. QED BY <2>1, <4>1, <4>2, ApplyKeeps
    <3>3. QED BY <3>1, <3>2
  <2>4. pos' \in 0 .. Len(log) + 1 /\ pos' >= 1
    BY <2>1, <2>2
  <2>5. LoopsInBounds' /\ mode' \in Mode
    BY <2>3, <2>4 DEF LoopsInBounds, Mode
  <2>6. QED BY <2>1, <2>3, <2>4, <2>5 DEF Parts, logVars, txnVars
<1>3. CASE redoDone
  <2>1. /\ mode' = "undo" /\ pos' = Len(log)
        /\ UNCHANGED <<heapVars, diskPages, logVars, session, txnVars, fresh>>
    BY <1>3 DEF redoDone
  <2>2. HeapInv'
    BY <1>1, <2>1, HeapUntouched
  <2>3. pos' \in 0 .. Len(log) + 1 /\ LoopsInBounds' /\ mode' \in Mode
    BY <1>1, <2>1 DEF LoopsInBounds, Mode, logVars
  <2>4. QED BY <2>1, <2>2, <2>3 DEF Parts, logVars, txnVars
<1>4. CASE undoPhase
  <2>1. /\ mode = "undo" /\ pos > 0 /\ pos' = pos - 1
        /\ UNCHANGED <<diskPages, logVars, session, txnVars, fresh>>
    BY <1>4 DEF undoPhase
  <2>2. pos \in 1 .. Len(log)
    BY <1>1, <2>1 DEF Parts, LoopsInBounds
  <2>3. HeapInv' /\ mode' \in {"undo", "spoilt"}
    <3>1. CASE UNCHANGED <<heapVars, mode>>
      BY <1>1, <2>1, <3>1, HeapUntouched
    <3>2. CASE ~UNCHANGED <<heapVars, mode>>
      <4> DEFINE rec == log[pos]
      <4>1. /\ rec.type \in {"INSERT", "DELETE"}
            /\ \/ insertOrSpoil(rec.data)
               \/ deleteTuple(rec.rid[1], rec.rid[2]) /\ UNCHANGED mode
        BY <1>4, <3>2 DEF undoPhase
      <4>2. GoodRecord(rec)
        BY <1>1, <2>2
      <4> HIDE DEF rec
      <4>3. QED BY <2>1, <4>1, <4>2, ApplyKeeps
    <3>3. QED BY <3>1, <3>2
  <2>4. pos' \in 0 .. Len(log) + 1 /\ pos' <= Len(log)
    BY <1>1, <2>1, <2>2
  <2>5. LoopsInBounds' /\ mode' \in Mode
    BY <2>1, <2>3, <2>4 DEF LoopsInBounds, Mode, logVars
  <2>6. QED BY <2>1, <2>3, <2>4, <2>5 DEF Parts, logVars, txnVars
<1>5. CASE undoDone
  <2>1. /\ mode' = "up"
        /\ UNCHANGED <<heapVars, diskPages, logVars, pos, session, txnVars, fresh>>
    BY <1>5 DEF undoDone
  <2>2. HeapInv'
    BY <1>1, <2>1, HeapUntouched
  <2>3. LoopsInBounds' /\ mode' \in Mode
    BY <2>1 DEF LoopsInBounds, Mode
  <2>4. QED BY <2>1, <2>2, <2>3 DEF Parts, logVars, txnVars
<1>6. QED BY <1>2, <1>3, <1>4, <1>5 DEF recover

\* The disk, the end of a process and the start of the next.
LEMMA CrashKeeps ==
  ASSUME Parts
  PROVE  /\ \A p \in PageNum : writeBack(p) => Parts'
         /\ crash => Parts'
         /\ restart => Parts'
<1>1. /\ Len(log) \in Nat /\ HeapInv /\ pos \in 0 .. Len(log) + 1 /\ GoodLog(log)
      /\ diskPages \in [PageNum -> Page] /\ \A p \in PageNum : Fair(diskPages[p])
      /\ pages \in [PageNum -> Page] /\ \A p \in PageNum : Fair(pages[p])
      /\ session \in 1 .. MaxSessions /\ flushed \in 0 .. Len(log)
  BY DEF Parts, GoodLog, HeapInv
<1>2. ASSUME NEW p \in PageNum, writeBack(p) PROVE Parts'
  <2>1. /\ diskPages' = [diskPages EXCEPT ![p] = pages[p]]
        /\ UNCHANGED <<heapVars, logVars, mode, pos, session, txnVars, fresh>>
    BY <1>2 DEF writeBack
  <2>2. diskPages' \in [PageNum -> Page] /\ \A q \in PageNum : Fair(diskPages'[q])
    BY <1>1, <2>1
  <2>3. HeapInv'
    BY <1>1, <2>1, HeapUntouched
  <2>4. LoopsInBounds'
    BY <2>1 DEF Parts, LoopsInBounds, logVars
  <2>5. QED BY <2>1, <2>2, <2>3, <2>4 DEF Parts, logVars, txnVars
<1>3. ASSUME crash PROVE Parts'
  <2>1. /\ session < MaxSessions /\ mode' = "down" /\ pos' = 0
        /\ active' = {} /\ nextTxnId' = 1
        /\ pages' = [p \in PageNum |-> IF p < pageCount THEN diskPages[p] ELSE initPage]
        /\ UNCHANGED <<pageCount, diskPages, session, fresh>>
    BY <1>3 DEF crash
  <2>2. PICK n \in flushed .. Len(log) : log' = SubSeq(log, 1, n) /\ flushed' = n
    BY <1>3 DEF crash
  <2>3. n \in 0 .. Len(log) /\ GoodLog(log') /\ Len(log') = n
    <3>1. n \in 0 .. Len(log)
      BY <1>1, <2>2
    <3>2. QED BY <1>1, <2>2, <3>1, PrefixKeepsLog
  <2>4. HeapInv'
    <3>1. pageCount' \in 0 .. MaxPages
      BY <1>1, <2>1 DEF HeapInv
    <3>2. pages' \in [PageNum -> Page] /\ \A p \in PageNum : Fair(pages'[p])
      BY <1>1, <2>1, FreshFair DEF Fair
    <3>3. FreshBeyondEnd'
      BY <2>1, <3>1 DEF FreshBeyondEnd, PageNum
    <3>4. QED BY <3>1, <3>2, <3>3 DEF HeapInv
  <2>5. LoopsInBounds' /\ mode' \in Mode
    BY <2>1 DEF LoopsInBounds, Mode
  <2>6. /\ flushed' \in 0 .. Len(log') /\ pos' \in 0 .. Len(log') + 1
        /\ Len(log') <= MaxLog /\ nextTxnId' \in 1 .. MaxTxn + 1
    BY <1>1, <2>1, <2>2, <2>3, RecoveryAssumption DEF Parts
  <2>7. QED BY <1>1, <2>1, <2>3, <2>4, <2>5, <2>6 DEF Parts
<1>4. ASSUME restart PROVE Parts'
  <2>1. /\ mode = "down" /\ session' = session + 1 /\ fresh' \in BOOLEAN
        /\ mode' \in {"up", "redo"} /\ pos' \in {0, 1} /\ (mode' = "redo" => pos' = 1)
        /\ UNCHANGED <<heapVars, diskPages, logVars, txnVars>>
    BY <1>4 DEF restart
  <2>2. HeapInv'
    BY <1>1, <2>1, HeapUntouched
  <2>3. session' \in 1 .. MaxSessions
    BY <1>1, <2>1, RecoveryAssumption DEF Parts, LoopsInBounds
  <2>4. pos' \in 0 .. Len(log) + 1 /\ LoopsInBounds' /\ mode' \in Mode
    BY <1>1, <2>1 DEF LoopsInBounds, Mode
  <2>5. QED BY <2>1, <2>2, <2>3, <2>4 DEF Parts, logVars, txnVars
<1>5. QED BY <1>2, <1>3, <1>4

\* Every step keeps the invariant.
LEMMA RecoveryStep == RInv /\ [RecoveryNext]_recoveryVars => RInv'
<1> SUFFICES ASSUME Parts, [RecoveryNext]_recoveryVars PROVE Parts'
  BY RInvParts, RInvPartsNext
<1>1. CASE UNCHANGED recoveryVars
  <2>1. /\ UNCHANGED <<diskPages, log, flushed, mode, pos, session, active, nextTxnId, fresh>>
        /\ UNCHANGED heapVars
    BY <1>1 DEF recoveryVars, logVars, txnVars
  <2>2. HeapInv'
    BY <2>1, HeapUntouched DEF Parts
  <2>3. LoopsInBounds'
    BY <2>1 DEF Parts, LoopsInBounds
  <2>4. QED BY <2>1, <2>2, <2>3 DEF Parts
<1>2. CASE RecoveryNext
  BY <1>2, TransactionsKeep, RecoverKeeps, CrashKeeps DEF RecoveryNext
<1>3. QED BY <1>1, <1>2

-------------------------------------------------------------------------------
(* The theorems *)

\* The invariant holds in every process, during recover and after it.
THEOREM RecoveryInvariant == RecoverySpec => []RInv
<1>1. RecoveryInit => RInv
  BY RecoveryStart, RInvParts
<1>2. QED BY <1>1, RecoveryStep, PTL DEF RecoverySpec

\* Type correctness of recovery: the loops of redoPhase and undoPhase stay inside
\* the log, and every page and record keeps its form over crashes.
THEOREM RecoveryTypes == RecoverySpec => []RecoveryTypeOK
<1>1. RInv => RecoveryTypeOK
  BY DEF RInv
<1>2. QED BY <1>1, RecoveryInvariant, PTL

\* Whatever the crashes left of the pages, the insertions and deletions that
\* recover applies to them never let two tuples of a page overlap.
THEOREM RecoveryHeapSound == RecoverySpec => []HeapSound
<1>1. RInv => HeapSound
  BY HeapInvDisjoint DEF RInv, HeapSound
<1>2. QED BY <1>1, RecoveryInvariant, PTL

-------------------------------------------------------------------------------
(* Heaps as values *)

\* The heap of a new table; heapVars is the heap as it is now.
Start == <<1, [p \in PageNum |-> initPage]>>

\* IndInv, of the heap h.
SoundHeap(h) ==
  /\ h \in (0 .. MaxPages) \X [PageNum -> Page]
  /\ \A p \in PageNum : GoodPage(h[2][p])
  /\ \A p \in PageNum : p >= h[1] => h[2][p] = initPage

\* What readTuple finds in the heap h.
Content(h) == [rid \in RID |-> ReadIn(h[2][rid[1]], rid[2])]

\* findFreePage, in the heap h.
FreeIn(h, n, p) ==
  \/ /\ p < h[1] /\ PAGE_SIZE - h[2][p].freeSpacePtr >= n
     /\ \A q \in 0 .. p - 1 : ~(PAGE_SIZE - h[2][q].freeSpacePtr >= n)
  \/ /\ p = h[1]
     /\ \A q \in 0 .. h[1] - 1 : ~(PAGE_SIZE - h[2][q].freeSpacePtr >= n)

\* The two cases of insertTuple, from the heap h to the heap g.
Grown(h, t, g) ==
  \E p \in PageNum :
    /\ FreeIn(h, Len(t), p)
    /\ \/ \E s \in Slot :
            /\ pickSlot(h[2][p], s)
            /\ g = <<IF p = h[1] THEN h[1] + 1 ELSE h[1],
                     [h[2] EXCEPT ![p] = place(h[2][p], s, t)]>>
       \/ /\ pickSlot(h[2][p], MAX_SLOTS_PER_PAGE)
          /\ g = <<h[1] + 1, [h[2] EXCEPT ![h[1]] = place(initPage, 0, t)]>>

\* deleteTuple, in the heap h.
Cut(h, rid) ==
  <<h[1], IF rid[2] < h[2][rid[1]].numSlots
          THEN [h[2] EXCEPT ![rid[1]].slotDirectory[rid[2]] = 0, ![rid[1]].slotLengths[rid[2]] = 0]
          ELSE h[2]>>

\* The heap as it is now.
LEMMA HereSound == SoundHeap(heapVars) <=> IndInv
BY PagewiseInvariant DEF SoundHeap, heapVars, FreshBeyondEnd

LEMMA HereSoundNext == (SoundHeap(heapVars) <=> IndInv)'
BY HereSound, PTL

LEMMA HereContent == Content(heapVars) = tuples /\ Content(heapVars') = tuples'
BY TuplesByPage DEF Content, heapVars

LEMMA InsertGrows ==
  ASSUME NEW t, insertTuple(t)
  PROVE  Grown(heapVars, t, heapVars')
<1> DEFINE h == heapVars
<1>1. h[1] = pageCount /\ h[2] = pages /\ heapVars' = <<pageCount', pages'>>
  BY DEF heapVars
<1> HIDE DEF h
<1>2. \A p : findFreePage(p, Len(t)) => FreeIn(h, Len(t), p)
  BY <1>1 DEF findFreePage, FreeIn, hasRoom
<1>3. CASE insertHere(t)
  BY <1>1, <1>2, <1>3 DEF insertHere, Grown, h
<1>4. CASE insertNewPage(t)
  BY <1>1, <1>2, <1>4 DEF insertNewPage, Grown, h
<1>5. QED BY <1>3, <1>4 DEF insertTuple

LEMMA DeleteCuts ==
  ASSUME NEW rid, deleteTuple(rid[1], rid[2])
  PROVE  heapVars' = Cut(heapVars, rid)
BY DEF deleteTuple, Cut, heapVars

\* The tuple that is not there is deleted in vain.
LEMMA CutNothing ==
  ASSUME NEW h, SoundHeap(h), NEW rid \in RID, Content(h)[rid] = NoTuple
  PROVE  Cut(h, rid) = h
<1> DEFINE p == rid[1]
           s == rid[2]
           pg == h[2][p]
<1>1. h = <<h[1], h[2]>> /\ h[2] \in [PageNum -> Page] /\ p \in PageNum /\ s \in Slot
      /\ GoodPage(pg) /\ pg \in Page /\ ReadIn(pg, s) = NoTuple
  BY DEF SoundHeap, RID, Content
<1>2. ASSUME s < pg.numSlots
      PROVE  pg.slotDirectory[s] = 0 /\ pg.slotLengths[s] = 0
  <2>1. pg.slotLengths[s] \in Nat /\ pg.numSlots \in Nat /\ s \in Nat
    <3>1. ASSUME NEW x \in Page, NEW i \in Slot
          PROVE  x.slotLengths[i] \in Nat /\ x.numSlots \in Nat /\ i \in Nat
      BY PageAssumption DEF Page, Slot
    <3>2. QED BY <1>1, <3>1
  <2>2. pg.slotLengths[s] = 0
    <3>1. SUFFICES ASSUME pg.slotLengths[s] > 0 PROVE FALSE
      BY <2>1
    <3>2. [i \in 1 .. pg.slotLengths[s] |-> pg.bytes[pg.slotDirectory[s] + i - 1]] = NoTuple
      <4>1. ~(s >= pg.numSlots) /\ pg.slotLengths[s] # 0 /\ ReadIn(pg, s) = NoTuple
        BY <1>1, <1>2, <2>1, <3>1
      <4> HIDE DEF pg, s
      <4>2. QED BY ONLY <4>1 DEF ReadIn
    <3>3. 1 \in 1 .. pg.slotLengths[s] /\ DOMAIN NoTuple = {}
      BY <2>1, <3>1 DEF NoTuple
    <3>4. QED BY <3>2, <3>3
  <2>3. QED BY <1>1, <2>2 DEF GoodPage, isEmpty
<1>3. ASSUME s < pg.numSlots
      PROVE  [h[2] EXCEPT ![p].slotDirectory[s] = 0, ![p].slotLengths[s] = 0] = h[2]
  <2>1. [pg.slotDirectory EXCEPT ![s] = 0] = pg.slotDirectory
        /\ [pg.slotLengths EXCEPT ![s] = 0] = pg.slotLengths
    BY <1>1, <1>2, <1>3 DEF Page
  <2>2. [h[2] EXCEPT ![p].slotDirectory[s] = 0, ![p].slotLengths[s] = 0] =
        [h[2] EXCEPT ![p] = [[pg EXCEPT !.slotDirectory = [pg.slotDirectory EXCEPT ![s] = 0]]
                               EXCEPT !.slotLengths = [pg.slotLengths EXCEPT ![s] = 0]]]
    BY <1>1 DEF Page
  <2>3. [[pg EXCEPT !.slotDirectory = pg.slotDirectory] EXCEPT !.slotLengths = pg.slotLengths] = pg
    BY <1>1 DEF Page
  <2>4. QED BY <1>1, <2>1, <2>2, <2>3, ZenonT(30)
<1>4. QED BY <1>1, <1>3 DEF Cut

\* insertTuple has no choice.
LEMMA FreeOnce ==
  ASSUME NEW h, h[1] \in Nat, NEW n, NEW p \in Nat, NEW q \in Nat,
         FreeIn(h, n, p), FreeIn(h, n, q)
  PROVE  p = q
<1>1. ASSUME NEW x \in Nat, NEW y \in Nat, FreeIn(h, n, x), FreeIn(h, n, y), x < y
      PROVE  FALSE
  <2>1. x \in 0 .. y - 1 /\ y <= h[1] /\ x < h[1]
    BY <1>1 DEF FreeIn
  <2>2. QED BY <1>1, <2>1 DEF FreeIn
<1>2. QED BY <1>1

LEMMA PickOnce ==
  ASSUME NEW pg, pg.numSlots \in Nat, NEW s \in Nat, NEW i \in Nat,
         pickSlot(pg, s), pickSlot(pg, i)
  PROVE  s = i
BY DEF pickSlot

LEMMA GrownOnce ==
  ASSUME NEW h, SoundHeap(h), NEW t, NEW a, NEW b, Grown(h, t, a), Grown(h, t, b)
  PROVE  a = b
<1>1. h[1] \in Nat /\ \A p \in PageNum : p \in Nat /\ h[2][p].numSlots \in Nat
  BY PageAssumption DEF SoundHeap, Page, PageNum
<1>2. MAX_SLOTS_PER_PAGE \in Nat /\ MAX_SLOTS_PER_PAGE \notin Slot /\ Slot \subseteq Nat
  BY PageAssumption DEF Slot
<1>3. PICK p \in PageNum :
        /\ FreeIn(h, Len(t), p)
        /\ \/ \E s \in Slot :
                /\ pickSlot(h[2][p], s)
                /\ a = <<IF p = h[1] THEN h[1] + 1 ELSE h[1],
                         [h[2] EXCEPT ![p] = place(h[2][p], s, t)]>>
           \/ /\ pickSlot(h[2][p], MAX_SLOTS_PER_PAGE)
              /\ a = <<h[1] + 1, [h[2] EXCEPT ![h[1]] = place(initPage, 0, t)]>>
  BY DEF Grown
<1>4. PICK q \in PageNum :
        /\ FreeIn(h, Len(t), q)
        /\ \/ \E s \in Slot :
                /\ pickSlot(h[2][q], s)
                /\ b = <<IF q = h[1] THEN h[1] + 1 ELSE h[1],
                         [h[2] EXCEPT ![q] = place(h[2][q], s, t)]>>
           \/ /\ pickSlot(h[2][q], MAX_SLOTS_PER_PAGE)
              /\ b = <<h[1] + 1, [h[2] EXCEPT ![h[1]] = place(initPage, 0, t)]>>
  BY DEF Grown
<1>5. p = q
  BY <1>1, <1>3, <1>4, FreeOnce
<1>6. \A s, i \in Slot \cup {MAX_SLOTS_PER_PAGE} :
        pickSlot(h[2][p], s) /\ pickSlot(h[2][p], i) => s = i
  BY <1>1, <1>2, PickOnce
<1>7. QED BY <1>2, <1>3, <1>4, <1>5, <1>6

-------------------------------------------------------------------------------
(* The history of the first process *)

\* What record rec says happened to the heap.
Logged(a, rec, b) ==
  /\ SoundHeap(a) /\ SoundHeap(b)
  /\ rec.type = "INSERT" =>
       /\ Grown(a, rec.data, b) /\ Content(a)[rec.rid] = NoTuple
       /\ Content(b) = [Content(a) EXCEPT ![rec.rid] = rec.data]
  /\ rec.type = "DELETE" =>
       /\ b = Cut(a, rec.rid) /\ Content(a)[rec.rid] = rec.data
       /\ Content(b) = [Content(a) EXCEPT ![rec.rid] = NoTuple]
  /\ rec.type \notin {"INSERT", "DELETE"} => b = a

\* H[i] is the heap when the first process had written record i.
History(H, recs) ==
  /\ H[0] = Start
  /\ \A i \in 1 .. Len(recs) : recs[i].session = 1 => Logged(H[i - 1], recs[i], H[i])

\* The records of the log are those of one process.
OneProcess == \A i \in 1 .. Len(log) : log[i].session = 1

\* The records up to u are those of the transactions that committed.
Border(u) == \A i \in 1 .. Len(log) : DataRecord(i) => (Committed(i) <=> i <= u)

\* The heap is where the history has it: in the first process at its end; later,
\* in a process that began with an empty heap, where redo is, but not beyond what
\* committed.
Replayed(H) ==
  /\ session = 1 /\ mode = "up" => SoundHeap(heapVars) /\ heapVars = H[Len(log)]
  /\ session > 1 /\ fresh /\ OneProcess /\ UncommittedLast =>
       \A u \in 0 .. Len(log) : Border(u) =>
         /\ mode = "redo" => heapVars = H[IF pos - 1 <= u THEN pos - 1 ELSE u]
         /\ mode \in {"undo", "up"} => heapVars = H[u]

\* A page behind the first never looks like one that was initialised and is empty:
\* in the pool it has had a tuple, in the file it has had one or is raw.
PagesTell ==
  /\ pageCount >= 1
  /\ \A p \in PageNum : p >= 1 =>
       diskPages[p] # initPage /\ (p < pageCount => pages[p] # initPage)

\* The ids of the first process: BEGIN is the first record of its transaction.
BeginsFirst ==
  /\ \A i \in 1 .. Len(log) : log[i].session <= session
  /\ \A i, j \in 1 .. Len(log) :
       j < i /\ log[i].type = "BEGIN_TXN" /\ log[i].session = 1 /\ log[j].session = 1
         => log[j].txnId # log[i].txnId
  /\ session = 1 /\ mode = "up" =>
       /\ \A i \in 1 .. Len(log) : log[i].txnId < nextTxnId
       /\ \A x \in active : x < nextTxnId

\* A later process has transactions only once one of its records is in the log.
NoneYet ==
  /\ session = 1 => mode \in {"up", "down", "spoilt"}
  /\ mode = "down" => active = {}
  /\ session > 1 /\ OneProcess => active = {}

ExactInv ==
  /\ Parts
  /\ PagesTell
  /\ BeginsFirst
  /\ NoneYet
  /\ \E H : History(H, log) /\ Replayed(H)

\* The first heap.
LEMMA StartSound ==
  /\ SoundHeap(Start) /\ \A rid \in RID : Content(Start)[rid] = NoTuple
<1>1. initPage \in Page /\ GoodPage(initPage) /\ initPage.numSlots = 0
  BY FreshPage DEF GoodPage, initPage
<1>2. Start[1] = 1 /\ Start[2] = [p \in PageNum |-> initPage] /\ 1 \in 0 .. MaxPages
      /\ Start \in (0 .. MaxPages) \X [PageNum -> Page]
  BY <1>1, PageAssumption DEF Start
<1>3. \A s \in Slot : ReadIn(initPage, s) = NoTuple
  BY <1>1 DEF ReadIn, Slot
<1>4. QED BY <1>1, <1>2, <1>3 DEF SoundHeap, Content, RID

\* The heaps of the history are sound, when all the records are of the first process.
LEMMA HistorySound ==
  ASSUME NEW H, Len(log) \in Nat, History(H, log), OneProcess
  PROVE  \A k \in 0 .. Len(log) : SoundHeap(H[k])
<1>1. ASSUME NEW k \in 0 .. Len(log), k # 0 PROVE SoundHeap(H[k])
  <2>1. k \in 1 .. Len(log)
    BY <1>1
  <2>2. Logged(H[k - 1], log[k], H[k])
    BY <2>1 DEF History, OneProcess
  <2>3. QED BY <2>2 DEF Logged
<1>2. QED BY <1>1, StartSound DEF History

\* What insert and delete of a transaction of the first process log.
LEMMA InsertLogged ==
  ASSUME SoundHeap(heapVars), NEW t \in Tuple, insertTuple(t), NEW rid \in RID, Placed(rid),
         NEW rec, rec.type = "INSERT", rec.rid = rid, rec.data = t
  PROVE  Logged(heapVars, rec, heapVars')
<1>1. IndInv /\ IndInv'
  BY HereSound, InsertKeeps
<1>2. SoundHeap(heapVars')
  BY <1>1, HereSoundNext
<1>3. PICK r \in RID : tuples[r] = NoTuple /\ tuples' = [tuples EXCEPT ![r] = t]
  BY <1>1, HeapInsert DEF Abs!Insert
<1>4. r = rid
  BY <1>3 DEF Placed, tuples
<1>5. Grown(heapVars, t, heapVars')
  BY InsertGrows
<1>6. QED BY <1>2, <1>3, <1>4, <1>5, HereContent DEF Logged

LEMMA DeleteLogged ==
  ASSUME SoundHeap(heapVars), NEW rid \in RID, deleteTuple(rid[1], rid[2]),
         NEW rec, rec.type = "DELETE", rec.rid = rid, rec.data = tuples[rid]
  PROVE  Logged(heapVars, rec, heapVars')
<1>1. rid[1] \in PageNum /\ rid[2] \in Slot
  BY DEF RID
<1>2. IndInv /\ IndInv'
  BY <1>1, HereSound, DeleteKeeps
<1>3. SoundHeap(heapVars')
  BY <1>2, HereSoundNext
<1>4. tuples' = [tuples EXCEPT ![rid] = NoTuple]
  BY <1>2, HeapDelete DEF Abs!Delete
<1>5. heapVars' = Cut(heapVars, rid)
  BY DeleteCuts
<1>6. QED BY <1>3, <1>4, <1>5, HereContent DEF Logged

\* One more record of the first process.
LEMMA HistoryGrows ==
  ASSUME NEW H, NEW n \in Nat, Len(log) = n, Len(log') = n + 1,
         \A i \in 1 .. n : log'[i] = log[i], History(H, log), H[n] = heapVars,
         Logged(heapVars, log'[n + 1], heapVars')
  PROVE  \E G : History(G, log') /\ G[n + 1] = heapVars'
<1> DEFINE G == [i \in 0 .. n + 1 |-> IF i = n + 1 THEN heapVars' ELSE H[i]]
<1>1. G[n + 1] = heapVars' /\ \A i \in 0 .. n : G[i] = H[i]
  OBVIOUS
<1> HIDE DEF G
<1>2. G[0] = Start
  BY <1>1 DEF History
<1>3. ASSUME NEW i \in 1 .. n + 1, log'[i].session = 1 PROVE Logged(G[i - 1], log'[i], G[i])
  <2>1. CASE i = n + 1
    <3>1. i - 1 = n /\ n \in 0 .. n
      BY <2>1
    <3>2. QED BY <1>1, <2>1, <3>1
  <2>2. CASE i # n + 1
    <3>1. i \in 1 .. n /\ i - 1 \in 0 .. n /\ i \in 0 .. n
      BY <2>2
    <3>2. QED BY <1>1, <1>3, <3>1 DEF History
  <2>3. QED BY <2>1, <2>2
<1>4. QED BY <1>1, <1>2, <1>3 DEF History

\* A record of a later process does not belong to the history.
LEMMA HistoryStays ==
  ASSUME NEW H, NEW n \in Nat, Len(log) = n, Len(log') = n + 1,
         \A i \in 1 .. n : log'[i] = log[i], History(H, log), log'[n + 1].session # 1
  PROVE  History(H, log')
<1>1. \A i \in 1 .. n + 1 : i \in 1 .. n \/ i = n + 1
  OBVIOUS
<1>2. QED BY <1>1 DEF History

\* Nor do records that a crash loses.
LEMMA HistoryCut ==
  ASSUME NEW H, NEW n \in Nat, Len(log') = n, Len(log) \in Nat, n <= Len(log),
         \A i \in 1 .. n : log'[i] = log[i], History(H, log)
  PROVE  History(H, log')
BY DEF History

-------------------------------------------------------------------------------
(* Its steps *)

\* Pages with a slot do not look new.
LEMMA InsertTells ==
  ASSUME HeapInv, PagesTell, NEW t, insertTuple(t), UNCHANGED diskPages
  PROVE  PagesTell'
<1>1. pageCount \in Nat /\ pages \in [PageNum -> Page] /\ PageNum \subseteq Nat
  BY PageAssumption DEF HeapInv, PageNum
<1>2. initPage.numSlots = 0
  BY DEF initPage
<1>3. ASSUME NEW pg, pg.numSlots \in Nat, NEW s \in Nat PROVE place(pg, s, t) # initPage
  <2>1. place(pg, s, t).numSlots > 0
    BY <1>3 DEF place
  <2>2. QED BY <1>2, <2>1
<1>4. \E p \in PageNum : \E new :
        /\ new # initPage /\ pages' = [pages EXCEPT ![p] = new]
        /\ pageCount' \in Nat /\ pageCount' >= pageCount
        /\ \A q \in PageNum : q < pageCount' => q < pageCount \/ q = p
  <2>1. CASE insertHere(t)
    <3>1. PICK p \in PageNum, s \in Slot :
            /\ findFreePage(p, Len(t))
            /\ pages' = [pages EXCEPT ![p] = place(pages[p], s, t)]
            /\ pageCount' = IF p = pageCount THEN pageCount + 1 ELSE pageCount
      BY <2>1 DEF insertHere
    <3>2. pages[p].numSlots \in Nat /\ s \in Nat
      BY <1>1 DEF Page, Slot
    <3>3. place(pages[p], s, t) # initPage
      BY <1>3, <3>2
    <3> DEFINE new == place(pages[p], s, t)
    <3>4. new # initPage /\ pages' = [pages EXCEPT ![p] = new]
      BY <3>1, <3>3
    <3> HIDE DEF new
    <3>5. /\ pageCount' \in Nat /\ pageCount' >= pageCount
          /\ \A q \in PageNum : q < pageCount' => q < pageCount \/ q = p
      BY <1>1, <3>1
    <3>6. QED BY <3>4, <3>5
  <2>2. CASE insertNewPage(t)
    <3>1. /\ pageCount < MaxPages
          /\ pages' = [pages EXCEPT ![pageCount] = place(initPage, 0, t)]
          /\ pageCount' = pageCount + 1
      BY <2>2 DEF insertNewPage
    <3>2. pageCount \in PageNum
      BY <1>1, <3>1, PageAssumption DEF PageNum
    <3>3. place(initPage, 0, t) # initPage
      BY <1>2, <1>3
    <3> DEFINE new == place(initPage, 0, t)
    <3>4. new # initPage /\ pages' = [pages EXCEPT ![pageCount] = new]
      BY <3>1, <3>3
    <3> HIDE DEF new
    <3>5. /\ pageCount' \in Nat /\ pageCount' >= pageCount
          /\ \A q \in PageNum : q < pageCount' => q < pageCount \/ q = pageCount
      BY <1>1, <3>1
    <3>6. QED BY <3>2, <3>4, <3>5
  <2>3. QED BY <2>1, <2>2 DEF insertTuple
<1>5. QED BY <1>1, <1>4 DEF PagesTell

LEMMA DeleteTells ==
  ASSUME HeapInv, PagesTell, NEW p \in PageNum, NEW s \in Slot, deleteTuple(p, s),
         UNCHANGED diskPages
  PROVE  PagesTell'
<1>1. pages \in [PageNum -> Page]
  BY DEF HeapInv
<1>2. initPage.numSlots = 0
  BY DEF initPage
<1> DEFINE new == [pages[p] EXCEPT !.slotDirectory[s] = 0, !.slotLengths[s] = 0]
<1>3. pageCount' = pageCount
      /\ pages' = IF s < pages[p].numSlots THEN [pages EXCEPT ![p] = new] ELSE pages
  BY <1>1 DEF deleteTuple, Page
<1>4. s < pages[p].numSlots => new # initPage
  <2>1. new.numSlots = pages[p].numSlots /\ pages[p].numSlots \in Nat /\ s \in Nat
    BY <1>1 DEF Page, Slot
  <2> HIDE DEF new
  <2>2. QED BY <1>2, <2>1
<1> HIDE DEF new
<1>5. \A q \in PageNum : q >= 1 /\ q < pageCount => pages'[q] # initPage
  BY <1>1, <1>3, <1>4 DEF PagesTell
<1>6. QED BY <1>3, <1>5 DEF PagesTell

LEMMA UntouchedTells ==
  ASSUME PagesTell, UNCHANGED heapVars, UNCHANGED diskPages
  PROVE  PagesTell'
BY DEF PagesTell, heapVars

LEMMA InsertOrSpoilTells ==
  ASSUME HeapInv, PagesTell, NEW t, insertOrSpoil(t), UNCHANGED diskPages
  PROVE  PagesTell'
BY InsertTells, UntouchedTells DEF insertOrSpoil

\* The record that append writes.
LEMMA AppendedRecord ==
  ASSUME GoodLog(log), NEW type, NEW x, NEW rid, NEW t, append(type, x, rid, t),
         NEW n, n = Len(log), NEW rec, rec = log'[n + 1]
  PROVE  /\ n \in Nat /\ Len(log') = n + 1 /\ \A i \in 1 .. n : log'[i] = log[i]
         /\ rec.type = type /\ rec.txnId = x /\ rec.rid = rid /\ rec.data = t
         /\ rec.session = session
<1> DEFINE r == [type |-> type, txnId |-> x, rid |-> rid, data |-> t, session |-> session]
<1>1. log' = Append(log, r) /\ log \in Seq(LogRecord)
  BY DEF append, GoodLog
<1>2. r.type = type /\ r.txnId = x /\ r.rid = rid /\ r.data = t /\ r.session = session
  OBVIOUS
<1> HIDE DEF r
<1>3. n \in Nat /\ Len(log') = n + 1 /\ (\A i \in 1 .. n : log'[i] = log[i]) /\ log'[n + 1] = r
  BY <1>1
<1>4. QED BY <1>2, <1>3

\* An operation that leaves a record.
LEMMA AppendExact ==
  ASSUME ExactInv, Parts', PagesTell', mode = "up", mode' = "up", session' = session,
         NEW type, NEW x, NEW rid, NEW t, append(type, x, rid, t),
         NEW n, n = Len(log), NEW rec, rec = log'[n + 1],
         x \in Nat, nextTxnId' \in Nat, nextTxnId' >= nextTxnId,
         session = 1 => x < nextTxnId' /\ \A y \in active' : y < nextTxnId',
         type = "BEGIN_TXN" => x = nextTxnId,
         session = 1 /\ SoundHeap(heapVars) => Logged(heapVars, rec, heapVars')
  PROVE  ExactInv'
<1>1. /\ GoodLog(log) /\ session \in Nat /\ session >= 1 /\ nextTxnId \in Nat
      /\ \A i \in 1 .. Len(log) : log[i].txnId \in Nat /\ log[i].session \in Nat
  <2>1. GoodLog(log) /\ session \in Nat /\ session >= 1 /\ nextTxnId \in Nat
    BY RecoveryAssumption DEF ExactInv, Parts
  <2>2. \A i \in 1 .. Len(log) : log[i] \in LogRecord
    BY <2>1 DEF GoodLog, GoodRecord
  <2>3. QED BY <2>1, <2>2, RecoveryAssumption DEF LogRecord, TxnId, NoTxn
<1>2. /\ n \in Nat /\ Len(log') = n + 1 /\ \A i \in 1 .. n : log'[i] = log[i]
      /\ rec.type = type /\ rec.txnId = x /\ rec.rid = rid /\ rec.data = t
      /\ rec.session = session
  <2>1. GoodLog(log) /\ append(type, x, rid, t) /\ n = Len(log) /\ rec = log'[n + 1]
    BY <1>1
  <2>2. QED BY ONLY <2>1, AppendedRecord
<1>3. \A i \in 1 .. n + 1 : i \in 1 .. n \/ (i = n + 1 /\ log'[i] = rec)
  BY <1>2
<1>4. n + 1 \in 1 .. n + 1
  BY <1>2
<1>5. BeginsFirst'
  <2>1. \A i \in 1 .. n + 1 : log'[i].session <= session
    BY <1>1, <1>2, <1>3 DEF ExactInv, BeginsFirst
  <2>2. ASSUME NEW i \in 1 .. n + 1, NEW j \in 1 .. n + 1, j < i,
               log'[i].type = "BEGIN_TXN", log'[i].session = 1, log'[j].session = 1
        PROVE  log'[j].txnId # log'[i].txnId
    <3>1. j \in 1 .. n
      BY <1>2, <2>2
    <3>2. CASE i \in 1 .. n
      BY <1>2, <2>2, <3>1, <3>2 DEF ExactInv, BeginsFirst
    <3>3. CASE i = n + 1
      <4>1. session = 1 /\ x = nextTxnId /\ log'[i].txnId = x
        BY <1>2, <1>3, <2>2, <3>3
      <4>2. log[j].txnId < nextTxnId /\ log[j].txnId \in Nat /\ log'[j] = log[j]
        BY <1>1, <1>2, <3>1, <4>1 DEF ExactInv, BeginsFirst
      <4>3. QED BY <1>1, <4>1, <4>2
    <3>4. QED BY <1>3, <3>2, <3>3
  <2>3. ASSUME session = 1 PROVE \A i \in 1 .. n + 1 : log'[i].txnId < nextTxnId'
    <3>1. \A i \in 1 .. n : log'[i].txnId \in Nat /\ log'[i].txnId < nextTxnId
      BY <1>1, <1>2, <2>3 DEF ExactInv, BeginsFirst
    <3>2. QED BY <1>1, <1>2, <1>3, <2>3, <3>1
  <2>4. QED BY <1>2, <2>1, <2>2, <2>3 DEF BeginsFirst
<1>6. session > 1 => ~OneProcess'
  BY <1>2, <1>4 DEF OneProcess
<1>7. NoneYet'
  BY <1>6 DEF NoneYet
<1>8. PICK H : History(H, log) /\ Replayed(H)
  BY DEF ExactInv
<1>9. \E G : History(G, log') /\ Replayed(G)'
  <2>1. CASE session = 1
    <3>1. SoundHeap(heapVars) /\ heapVars = H[n]
      BY <1>8, <2>1 DEF Replayed
    <3>2. Logged(heapVars, rec, heapVars')
      BY <2>1, <3>1
    <3>3. PICK G : History(G, log') /\ G[n + 1] = heapVars'
      BY <1>2, <1>8, <3>1, <3>2, HistoryGrows
    <3>4. SoundHeap(heapVars')
      BY <3>2 DEF Logged
    <3>5. ~(session' > 1)
      BY <2>1
    <3>6. Replayed(G)'
      BY <1>2, <3>3, <3>4, <3>5 DEF Replayed
    <3>7. QED BY <3>3, <3>6
  <2>2. CASE session # 1
    <3>1. History(H, log')
      BY <1>2, <1>8, <2>2, HistoryStays
    <3>2. ~OneProcess' /\ session' # 1
      BY <1>1, <1>6, <2>2
    <3>3. Replayed(H)'
      BY <3>2 DEF Replayed
    <3>4. QED BY <3>1, <3>3
  <2>3. QED BY <2>1, <2>2
<1>10. QED BY <1>5, <1>7, <1>9 DEF ExactInv

\* The operations of transactions.
LEMMA TransactionsExact ==
  ASSUME ExactInv
  PROVE  /\ begin => ExactInv'
         /\ checkpoint => ExactInv'
         /\ \A x \in TxnId : commit(x) \/ abort(x) => ExactInv'
         /\ \A x \in TxnId, t \in Tuple : insert(x, t) => ExactInv'
         /\ \A x \in TxnId, rid \in RID : delete(x, rid) => ExactInv'
<1>1. /\ Parts /\ PagesTell /\ HeapInv /\ GoodLog(log) /\ nextTxnId \in Nat
      /\ nextTxnId >= 1 /\ TxnId \subseteq Nat /\ NoTxn = 0 /\ session \in Nat
  BY RecoveryAssumption DEF ExactInv, Parts, TxnId, NoTxn
<1>2. session = 1 /\ mode = "up" => \A y \in active : y < nextTxnId
  BY DEF ExactInv, BeginsFirst
<1> DEFINE n == Len(log)
           rec == log'[n + 1]
<1>3. n = Len(log) /\ rec = log'[n + 1]
  OBVIOUS
<1> HIDE DEF n, rec
<1>4. ASSUME NEW type \in {"BEGIN_TXN", "COMMIT_TXN", "ABORT_TXN", "CHECKPOINT"}, NEW x,
             append(type, x, NoRID, NoTuple), UNCHANGED heapVars, SoundHeap(heapVars)
      PROVE  Logged(heapVars, rec, heapVars')
  <2>1. /\ n \in Nat /\ Len(log') = n + 1 /\ \A i \in 1 .. n : log'[i] = log[i]
        /\ rec.type = type /\ rec.txnId = x /\ rec.rid = NoRID /\ rec.data = NoTuple
        /\ rec.session = session
    <3>1. append(type, x, NoRID, NoTuple) /\ GoodLog(log)
      BY <1>1, <1>4
    <3>2. QED BY ONLY <1>3, <3>1, AppendedRecord
  <2>2. rec.type \notin {"INSERT", "DELETE"}
    BY <2>1
  <2>3. QED BY <1>4, <2>2 DEF Logged
<1>5. ASSUME begin PROVE ExactInv'
  <2>1. /\ mode = "up" /\ active' = active \cup {nextTxnId} /\ nextTxnId' = nextTxnId + 1
        /\ append("BEGIN_TXN", nextTxnId, NoRID, NoTuple)
        /\ UNCHANGED <<heapVars, diskPages, flushed, mode, pos, session, fresh>>
    BY <1>5 DEF begin
  <2>2. Parts' /\ PagesTell'
    BY <1>1, <1>5, <2>1, TransactionsKeep, UntouchedTells
  <2>3. /\ nextTxnId' \in Nat /\ nextTxnId' >= nextTxnId /\ nextTxnId < nextTxnId'
        /\ session = 1 => \A y \in active' : y < nextTxnId'
    <3>1. \A y \in active : y \in Nat
      BY <1>1 DEF Parts
    <3>2. QED BY <1>1, <1>2, <2>1, <3>1
  <2>4. SoundHeap(heapVars) => Logged(heapVars, rec, heapVars')
    BY <1>4, <2>1
  <2>5. QED BY <1>1, <1>3, <2>1, <2>2, <2>3, <2>4, AppendExact
<1>6. ASSUME checkpoint PROVE ExactInv'
  <2>1. /\ mode = "up" /\ append("CHECKPOINT", NoTxn, NoRID, NoTuple)
        /\ UNCHANGED <<heapVars, diskPages, mode, pos, session, txnVars, fresh>>
    BY <1>6 DEF checkpoint
  <2>2. Parts' /\ PagesTell'
    BY <1>1, <1>6, <2>1, TransactionsKeep, UntouchedTells
  <2>3. /\ nextTxnId' \in Nat /\ nextTxnId' >= nextTxnId /\ NoTxn < nextTxnId' /\ NoTxn \in Nat
        /\ session = 1 => \A y \in active' : y < nextTxnId'
    BY <1>1, <1>2, <2>1 DEF txnVars
  <2>4. SoundHeap(heapVars) => Logged(heapVars, rec, heapVars')
    BY <1>4, <2>1
  <2>5. "CHECKPOINT" # "BEGIN_TXN"
    OBVIOUS
  <2>6. QED BY <1>1, <1>3, <2>1, <2>2, <2>3, <2>4, <2>5, AppendExact
<1>7. ASSUME NEW x \in TxnId, commit(x) \/ abort(x) PROVE ExactInv'
  <2>1. PICK type \in {"COMMIT_TXN", "ABORT_TXN"} :
        /\ mode = "up" /\ x \in active /\ append(type, x, NoRID, NoTuple)
        /\ active' = active \ {x}
        /\ UNCHANGED <<heapVars, diskPages, mode, pos, session, nextTxnId, fresh>>
    BY <1>7 DEF commit, abort
  <2>2. Parts' /\ PagesTell'
    BY <1>1, <1>7, <2>1, TransactionsKeep, UntouchedTells
  <2>3. /\ nextTxnId' \in Nat /\ nextTxnId' >= nextTxnId /\ x \in Nat
        /\ session = 1 => x < nextTxnId' /\ \A y \in active' : y < nextTxnId'
    BY <1>1, <1>2, <2>1
  <2>4. SoundHeap(heapVars) => Logged(heapVars, rec, heapVars')
    BY <1>4, <2>1
  <2>5. type # "BEGIN_TXN"
    OBVIOUS
  <2>6. QED BY <1>1, <1>3, <2>1, <2>2, <2>3, <2>4, <2>5, AppendExact
<1>8. ASSUME NEW x \in TxnId, NEW t \in Tuple, insert(x, t) PROVE ExactInv'
  <2>1. /\ mode = "up" /\ x \in active /\ insertOrSpoil(t)
        /\ UNCHANGED <<diskPages, flushed, pos, session, txnVars, fresh>>
    BY <1>8 DEF insert
  <2>2. Parts' /\ PagesTell'
    BY <1>1, <1>8, <2>1, TransactionsKeep, InsertOrSpoilTells
  <2>3. CASE mode' = "spoilt" /\ UNCHANGED log
    <3>1. BeginsFirst'
      BY <2>1, <2>3 DEF ExactInv, BeginsFirst
    <3>2. NoneYet'
      BY <2>1, <2>3 DEF ExactInv, NoneYet, OneProcess, txnVars
    <3>3. PICK H : History(H, log)
      BY DEF ExactInv
    <3>4. History(H, log') /\ Replayed(H)'
      BY <2>3, <3>3 DEF Replayed
    <3>5. QED BY <2>2, <3>1, <3>2, <3>4 DEF ExactInv
  <2>4. CASE \E rid \in RID : Placed(rid) /\ append("INSERT", x, rid, t) /\ mode' # "spoilt"
    <3>1. PICK rid \in RID : Placed(rid) /\ append("INSERT", x, rid, t)
      BY <2>4
    <3>2. insertTuple(t) /\ mode' = "up"
      BY <2>1, <2>4 DEF insertOrSpoil
    <3>3. /\ n \in Nat /\ Len(log') = n + 1 /\ \A i \in 1 .. n : log'[i] = log[i]
          /\ rec.type = "INSERT" /\ rec.txnId = x /\ rec.rid = rid /\ rec.data = t
          /\ rec.session = session
      <4>1. append("INSERT", x, rid, t) /\ GoodLog(log)
        BY <1>1, <3>1
      <4>2. QED BY ONLY <1>3, <4>1, AppendedRecord
    <3>4. SoundHeap(heapVars) => Logged(heapVars, rec, heapVars')
      BY <3>1, <3>2, <3>3, InsertLogged
    <3>5. /\ nextTxnId' \in Nat /\ nextTxnId' >= nextTxnId /\ x \in Nat
          /\ session = 1 => x < nextTxnId' /\ \A y \in active' : y < nextTxnId'
      BY <1>1, <1>2, <2>1 DEF txnVars
    <3>6. "INSERT" # "BEGIN_TXN"
      OBVIOUS
    <3>7. QED BY <1>1, <1>3, <2>1, <2>2, <3>1, <3>2, <3>4, <3>5, <3>6, AppendExact
  <2>5. CASE mode' = "spoilt" /\ \E rid \in RID : Placed(rid)
    <3>1. UNCHANGED heapVars
      BY <2>1, <2>5 DEF insertOrSpoil
    <3>2. tuples' = tuples
      BY <3>1, TuplesByPage DEF heapVars
    <3>3. QED BY <2>5, <3>2 DEF Placed
  <2>6. QED BY <1>8, <2>3, <2>4, <2>5 DEF insert
<1>9. ASSUME NEW x \in TxnId, NEW rid \in RID, delete(x, rid) PROVE ExactInv'
  <2> DEFINE t == tuples[rid]
  <2>1. /\ mode = "up" /\ x \in active /\ append("DELETE", x, rid, t)
        /\ deleteTuple(rid[1], rid[2])
        /\ UNCHANGED <<diskPages, flushed, mode, pos, session, txnVars, fresh>>
    BY <1>9 DEF delete
  <2>2. Parts' /\ PagesTell'
    <3>1. rid[1] \in PageNum /\ rid[2] \in Slot
      BY DEF RID
    <3>2. QED BY <1>1, <1>9, <2>1, <3>1, TransactionsKeep, DeleteTells
  <2>3. t = tuples[rid]
    OBVIOUS
  <2> HIDE DEF t
  <2>4. /\ n \in Nat /\ Len(log') = n + 1 /\ \A i \in 1 .. n : log'[i] = log[i]
        /\ rec.type = "DELETE" /\ rec.txnId = x /\ rec.rid = rid /\ rec.data = t
        /\ rec.session = session
    <3>1. append("DELETE", x, rid, t) /\ GoodLog(log)
      BY <1>1, <2>1
    <3>2. QED BY ONLY <1>3, <3>1, AppendedRecord, SMTT(30)
  <2>5. SoundHeap(heapVars) => Logged(heapVars, rec, heapVars')
    BY <2>1, <2>3, <2>4, DeleteLogged
  <2>6. /\ nextTxnId' \in Nat /\ nextTxnId' >= nextTxnId /\ x \in Nat
        /\ session = 1 => x < nextTxnId' /\ \A y \in active' : y < nextTxnId'
    BY <1>1, <1>2, <2>1 DEF txnVars
  <2>7. "DELETE" # "BEGIN_TXN"
    OBVIOUS
  <2>8. QED BY <1>1, <1>3, <2>1, <2>2, <2>5, <2>6, <2>7, AppendExact
<1>10. QED BY <1>5, <1>6, <1>7, <1>8, <1>9

\* The disk, the end of a process and the start of the next.
LEMMA CrashExact ==
  ASSUME ExactInv
  PROVE  /\ \A p \in PageNum : writeBack(p) => ExactInv'
         /\ crash => ExactInv'
         /\ restart => ExactInv'
<1>1. /\ Parts /\ PagesTell /\ HeapInv /\ GoodLog(log) /\ Len(log) \in Nat
      /\ session \in Nat /\ session >= 1 /\ pageCount \in Nat /\ PageNum \subseteq Nat
      /\ pages \in [PageNum -> Page] /\ diskPages \in [PageNum -> Page]
      /\ flushed \in 0 .. Len(log)
  BY PageAssumption, RecoveryAssumption DEF ExactInv, Parts, HeapInv, GoodLog, PageNum
<1>2. PICK H : History(H, log) /\ Replayed(H)
  BY DEF ExactInv
<1>3. ASSUME NEW p \in PageNum, writeBack(p) PROVE ExactInv'
  <2>1. /\ p < pageCount /\ diskPages' = [diskPages EXCEPT ![p] = pages[p]]
        /\ UNCHANGED <<heapVars, logVars, mode, pos, session, txnVars, fresh>>
    BY <1>3 DEF writeBack
  <2>2. UNCHANGED <<log, flushed, active, nextTxnId, pageCount, pages>>
    BY <2>1 DEF logVars, txnVars, heapVars
  <2>3. Parts'
    BY <1>1, <1>3, CrashKeeps
  <2>4. PagesTell'
    BY <1>1, <2>1, <2>2 DEF PagesTell
  <2>5. BeginsFirst' /\ NoneYet' /\ History(H, log')
    BY <1>2, <2>1, <2>2 DEF ExactInv, BeginsFirst, NoneYet, OneProcess
  <2>6. Replayed(H)'
    BY <1>2, <2>1, <2>2 DEF Replayed, OneProcess, UncommittedLast, Border, DataRecord, Committed
  <2>7. QED BY <2>3, <2>4, <2>5, <2>6 DEF ExactInv
<1>4. ASSUME crash PROVE ExactInv'
  <2>1. /\ mode' = "down" /\ pos' = 0 /\ active' = {} /\ nextTxnId' = 1
        /\ pages' = [p \in PageNum |-> IF p < pageCount THEN diskPages[p] ELSE initPage]
        /\ UNCHANGED <<pageCount, diskPages, session, fresh>>
    BY <1>4 DEF crash
  <2>2. PICK n \in flushed .. Len(log) : log' = SubSeq(log, 1, n)
    BY <1>4 DEF crash
  <2>3. n \in Nat /\ n <= Len(log) /\ Len(log') = n /\ \A i \in 1 .. n : log'[i] = log[i]
    <3>1. n \in 0 .. Len(log)
      BY <1>1, <2>2
    <3>2. Len(log') = n
      BY <1>1, <2>2, <3>1, PrefixKeepsLog
    <3>3. QED BY <1>1, <2>2, <3>1, <3>2 DEF GoodLog
  <2>4. Parts'
    BY <1>1, <1>4, CrashKeeps
  <2>5. PagesTell'
    BY <1>1, <2>1 DEF PagesTell
  <2>6. BeginsFirst'
    <3>1. \A i \in 1 .. n : i \in 1 .. Len(log)
      BY <1>1, <2>3
    <3>2. QED BY <2>1, <2>3, <3>1 DEF ExactInv, BeginsFirst
  <2>7. NoneYet'
    BY <2>1 DEF NoneYet
  <2>8. History(H, log')
    BY <1>1, <1>2, <2>3, HistoryCut
  <2>9. Replayed(H)'
    BY <2>1 DEF Replayed
  <2>10. QED BY <2>4, <2>5, <2>6, <2>7, <2>8, <2>9 DEF ExactInv
<1>5. ASSUME restart PROVE ExactInv'
  <2>1. /\ mode = "down" /\ session' = session + 1
        /\ fresh' = \A p \in PageNum : p < pageCount => pages[p] = initPage
        /\ mode' = IF log = <<>> THEN "up" ELSE "redo"
        /\ pos' = IF log = <<>> THEN 0 ELSE 1
        /\ UNCHANGED <<heapVars, diskPages, logVars, txnVars>>
    BY <1>5 DEF restart
  <2>2. UNCHANGED <<log, flushed, active, nextTxnId, pageCount, pages>>
    BY <2>1 DEF logVars, txnVars, heapVars
  <2>3. Parts'
    BY <1>1, <1>5, CrashKeeps
  <2>4. PagesTell'
    BY <1>1, <2>1, UntouchedTells
  <2>5. BeginsFirst'
    <3>1. \A i \in 1 .. Len(log) : log[i].session <= session + 1
      <4>1. \A i \in 1 .. Len(log) : log[i].session \in Nat
        BY <1>1, RecoveryAssumption DEF GoodLog, GoodRecord, LogRecord
      <4>2. QED BY <1>1, <4>1 DEF ExactInv, BeginsFirst
    <3>2. session' # 1
      BY <1>1, <2>1
    <3>3. QED BY <2>1, <2>2, <3>1, <3>2 DEF ExactInv, BeginsFirst
  <2>6. NoneYet'
    <3>1. session' # 1 /\ mode' # "down"
      BY <1>1, <2>1
    <3>2. active' = {}
      BY <2>1, <2>2 DEF ExactInv, NoneYet
    <3>3. QED BY <3>1, <3>2 DEF NoneYet
  <2>7. ASSUME fresh' PROVE heapVars' = Start
    <3>1. \A p \in PageNum : p < pageCount => pages[p] = initPage
      BY <2>1, <2>7
    <3>2. pageCount = 1
      <4>1. SUFFICES ASSUME pageCount > 1 PROVE FALSE
        BY <1>1 DEF PagesTell
      <4>2. 1 \in PageNum
        BY <1>1, <4>1, PageAssumption DEF HeapInv, PageNum
      <4>3. QED BY <1>1, <3>1, <4>1, <4>2 DEF PagesTell
    <3>3. \A p \in PageNum : pages[p] = initPage
      BY <1>1, <3>1 DEF HeapInv, FreshBeyondEnd
    <3>4. pages = [p \in PageNum |-> initPage]
      BY <1>1, <3>3
    <3>5. QED BY <2>1, <3>2, <3>4 DEF Start, heapVars
  <2>8. Replayed(H)'
    <3>1. session' # 1 /\ H[0] = Start /\ mode' \in {"up", "redo"}
      BY <1>1, <1>2, <2>1 DEF History
    <3>2. ASSUME fresh', NEW u \in 0 .. Len(log')
          PROVE  /\ mode' = "redo" => heapVars' = H[IF pos' - 1 <= u THEN pos' - 1 ELSE u]
                 /\ mode' \in {"undo", "up"} => heapVars' = H[u]
      <4>1. CASE log = <<>>
        <5>1. mode' = "up" /\ Len(log') = 0
          BY <2>1, <2>2, <4>1
        <5>2. u = 0
          BY <3>2, <5>1
        <5>3. QED BY <2>7, <3>1, <3>2, <5>1, <5>2
      <4>2. CASE log # <<>>
        <5>1. mode' = "redo" /\ pos' = 1
          BY <2>1, <4>2
        <5>2. u \in Nat /\ 0 <= u
          BY <1>1, <2>2, <3>2
        <5>3. pos' - 1 = 0
          BY <5>1
        <5>4. QED BY <2>7, <3>1, <3>2, <5>1, <5>2, <5>3
      <4>3. QED BY <4>1, <4>2
    <3>3. QED BY <3>1, <3>2 DEF Replayed
  <2>9. QED BY <1>2, <2>2, <2>3, <2>4, <2>5, <2>6, <2>8 DEF ExactInv
<1>6. QED BY <1>3, <1>4, <1>5

-------------------------------------------------------------------------------
(* recover goes through the same heaps *)

\* In the log of one process a transaction is committed or it is not.
LEMMA CommittedHere ==
  ASSUME GoodLog(log), OneProcess, NEW i \in 1 .. Len(log)
  PROVE  log[i].txnId \in committedTxns(log) <=> Committed(i)
<1>1. DOMAIN log = 1 .. Len(log)
  BY DEF GoodLog
<1>2. ToSet(log) = {log[j] : j \in 1 .. Len(log)}
  BY <1>1 DEF ToSet
<1>3. QED BY <1>2 DEF OneProcess, Committed, committedTxns

\* A transaction that undo takes back has not committed.
LEMMA ActiveNotCommitted ==
  ASSUME Len(log) \in Nat, BeginsFirst, OneProcess, NEW i \in 1 .. Len(log),
         log[i].txnId \in activeTxns(log)
  PROVE  ~Committed(i)
<1>1. PICK b \in 1 .. Len(log) :
        /\ log[b].type = "BEGIN_TXN" /\ log[b].txnId = log[i].txnId
        /\ \A j \in b + 1 .. Len(log) :
             log[j].txnId = log[i].txnId => log[j].type \notin {"COMMIT_TXN", "ABORT_TXN"}
  BY DEF activeTxns
<1>2. SUFFICES ASSUME NEW j \in 1 .. Len(log), log[j].type = "COMMIT_TXN",
                      log[j].txnId = log[i].txnId
               PROVE  FALSE
  BY DEF Committed
<1>3. j # b /\ ~(j < b)
  BY <1>1, <1>2 DEF BeginsFirst, OneProcess
<1>4. j \in b + 1 .. Len(log)
  BY <1>3
<1>5. QED BY <1>1, <1>2, <1>4

\* Where a transaction that did not commit inserted, nothing had been.
LEMMA NothingThere ==
  ASSUME NEW H, GoodLog(log), Len(log) \in Nat, History(H, log), OneProcess, UncommittedLast,
         NEW u \in 0 .. Len(log), Border(u),
         NEW i \in 1 .. Len(log), DataRecord(i), ~Committed(i)
  PROVE  Content(H[u])[log[i].rid] = NoTuple
<1>1. log[i].type = "INSERT" /\ u < i
  BY DEF UncommittedLast, Border
<1>2. ASSUME NEW k \in 1 .. Len(log) PROVE Logged(H[k - 1], log[k], H[k])
  BY DEF History, OneProcess
<1>3. Content(H[i - 1])[log[i].rid] = NoTuple
  BY <1>1, <1>2 DEF Logged
<1>4. SUFFICES ASSUME Content(H[u])[log[i].rid] # NoTuple PROVE FALSE
  OBVIOUS
<1> DEFINE S == {k \in Nat : u + k <= i - 1 => Content(H[u + k])[log[i].rid] # NoTuple}
<1>5. 0 \in S
  BY <1>4
<1>6. ASSUME NEW k \in Nat, k \in S PROVE k + 1 \in S
  <2>1. SUFFICES ASSUME u + (k + 1) <= i - 1
                 PROVE  Content(H[u + (k + 1)])[log[i].rid] # NoTuple
    OBVIOUS
  <2> DEFINE j == u + (k + 1)
             a == H[u + k]
             b == H[j]
             rec == log[j]
  <2>2. j \in 1 .. Len(log) /\ j - 1 = u + k /\ ~(j <= u) /\ u + k <= i - 1
    BY <1>1, <2>1
  <2>3. Content(a)[log[i].rid] # NoTuple
    BY <1>6, <2>2
  <2>4. Logged(a, rec, b)
    BY <1>2, <2>2
  <2>5. DataRecord(j) => rec.type = "INSERT"
    BY <2>2 DEF Border, UncommittedLast
  <2>6. rec.type # "DELETE"
    BY <2>5 DEF DataRecord
  <2>7. log[i].rid \in RID
    BY DEF GoodLog, GoodRecord, LogRecord
  <2> DEFINE r == log[i].rid
  <2>8. /\ r \in RID /\ Content(a)[r] # NoTuple
    BY <2>3, <2>7
  <2> HIDE DEF j, a, b, rec, r
  <2>9. Content(b)[r] # NoTuple
    <3>1. CASE rec.type = "INSERT"
      <4>1. Content(a)[rec.rid] = NoTuple /\ Content(b) = [Content(a) EXCEPT ![rec.rid] = rec.data]
        BY <2>4, <3>1 DEF Logged
      <4>2. rec.rid # r /\ DOMAIN Content(a) = RID
        BY <2>8, <4>1 DEF Content
      <4>3. Content(b)[r] = Content(a)[r]
        BY <2>8, <4>1, <4>2
      <4>4. QED BY <2>8, <4>3
    <3>2. CASE rec.type # "INSERT"
      BY <2>4, <2>6, <2>8, <3>2 DEF Logged
    <3>3. QED BY <3>1, <3>2
  <2>10. QED BY <2>9 DEF j, b, r
<1>7. Nat \subseteq S
  <2> HIDE DEF S
  <2>1. QED BY <1>5, <1>6, SetInduction
<1>8. PICK d \in Nat : u + d = i - 1
  <2>1. (i - 1) - u \in Nat /\ u + ((i - 1) - u) = i - 1
    BY <1>1
  <2>2. QED BY <2>1
<1>9. Content(H[u + d])[log[i].rid] # NoTuple
  <2>1. u + d <= i - 1 /\ d \in S
    BY <1>7, <1>8
  <2>2. QED BY <2>1
<1>10. QED BY <1>3, <1>8, <1>9

\* One turn of redoPhase.
LEMMA RedoReplays ==
  ASSUME NEW H, GoodLog(log), Len(log) \in Nat, History(H, log), OneProcess,
         NEW u \in 0 .. Len(log), Border(u), pos \in 1 .. Len(log),
         redoPhase, mode' # "spoilt",
         heapVars = H[IF pos - 1 <= u THEN pos - 1 ELSE u]
  PROVE  heapVars' = H[IF pos <= u THEN pos ELSE u]
<1> DEFINE rec == log[pos]
           C == rec.txnId \in committedTxns(log)
<1>1. Logged(H[pos - 1], rec, H[pos])
  BY DEF History, OneProcess
<1>2. C <=> Committed(pos)
  BY CommittedHere
<1>3. rec.type \in {"INSERT", "DELETE"} => (C <=> pos <= u)
  BY <1>2 DEF Border, DataRecord
<1>4. \/ C /\ rec.type = "INSERT" /\ insertOrSpoil(rec.data)
      \/ C /\ rec.type = "DELETE" /\ deleteTuple(rec.rid[1], rec.rid[2])
      \/ (~C \/ rec.type \notin {"INSERT", "DELETE"}) /\ UNCHANGED heapVars
  BY DEF redoPhase
<1> HIDE DEF rec, C
<1>5. CASE pos <= u
  <2>1. heapVars = H[pos - 1]
    BY <1>5
  <2>2. CASE rec.type = "INSERT"
    <3>1. insertTuple(rec.data)
      BY <1>3, <1>4, <1>5, <2>2 DEF insertOrSpoil
    <3>2. Grown(heapVars, rec.data, heapVars')
      BY <3>1, InsertGrows
    <3>3. SoundHeap(H[pos - 1]) /\ Grown(H[pos - 1], rec.data, H[pos])
      BY <1>1, <2>2 DEF Logged
    <3>4. heapVars' = H[pos]
      BY <2>1, <3>2, <3>3, GrownOnce
    <3>5. QED BY <1>5, <3>4
  <2>3. CASE rec.type = "DELETE"
    <3>1. deleteTuple(rec.rid[1], rec.rid[2])
      BY <1>3, <1>4, <1>5, <2>3
    <3>2. heapVars' = Cut(heapVars, rec.rid)
      BY <3>1, DeleteCuts
    <3>3. H[pos] = Cut(H[pos - 1], rec.rid)
      BY <1>1, <2>3 DEF Logged
    <3>4. QED BY <1>5, <2>1, <3>2, <3>3
  <2>4. CASE rec.type \notin {"INSERT", "DELETE"}
    <3>1. UNCHANGED heapVars
      BY <1>4, <2>4
    <3>2. H[pos] = H[pos - 1]
      BY <1>1, <2>4 DEF Logged
    <3>3. QED BY <1>5, <2>1, <3>1, <3>2
  <2>5. QED BY <2>2, <2>3, <2>4
<1>6. CASE ~(pos <= u)
  <2>1. heapVars = H[u]
    <3>1. (IF pos - 1 <= u THEN pos - 1 ELSE u) = u
      BY <1>6
    <3>2. QED BY <3>1
  <2>2. UNCHANGED heapVars
    BY <1>3, <1>4, <1>6
  <2>3. QED BY <1>6, <2>1, <2>2
<1>7. QED BY <1>5, <1>6

\* One turn of undoPhase: what it deletes is not there.
LEMMA UndoReplays ==
  ASSUME NEW H, GoodLog(log), Len(log) \in Nat, History(H, log), OneProcess, UncommittedLast,
         BeginsFirst, NEW u \in 0 .. Len(log), Border(u), pos \in 1 .. Len(log),
         undoPhase, heapVars = H[u]
  PROVE  heapVars' = H[u]
<1> DEFINE rec == log[pos]
<1>1. CASE rec.txnId \in activeTxns(log) /\ rec.type \in {"INSERT", "DELETE"}
  <2>1. DataRecord(pos) /\ ~Committed(pos)
    BY <1>1, ActiveNotCommitted DEF DataRecord
  <2>2. rec.type = "INSERT"
    BY <2>1 DEF UncommittedLast
  <2>3. Content(H[u])[rec.rid] = NoTuple
    BY <2>1, NothingThere
  <2>4. deleteTuple(rec.rid[1], rec.rid[2])
    BY <1>1, <2>2 DEF undoPhase
  <2>5. rec.rid \in RID
    BY DEF GoodLog, GoodRecord, LogRecord
  <2>6. SoundHeap(H[u])
    BY HistorySound
  <2> HIDE DEF rec
  <2>7. heapVars' = Cut(H[u], rec.rid)
    BY <2>4, DeleteCuts
  <2>8. QED BY <2>3, <2>5, <2>6, <2>7, CutNothing
<1>2. CASE ~(rec.txnId \in activeTxns(log) /\ rec.type \in {"INSERT", "DELETE"})
  BY <1>2 DEF undoPhase
<1>3. QED BY <1>1, <1>2

\* A step of recover.
LEMMA RecoverExactStep == ASSUME ExactInv, recover PROVE ExactInv'
<1>1. /\ Parts /\ PagesTell /\ HeapInv /\ GoodLog(log) /\ Len(log) \in Nat
      /\ pos \in 0 .. Len(log) + 1 /\ LoopsInBounds
      /\ \A i \in 1 .. Len(log) : GoodRecord(log[i])
  BY DEF ExactInv, Parts, GoodLog
<1>2. Parts'
  BY <1>1, RecoverKeeps
<1>3. /\ mode \in {"redo", "undo"} /\ mode' \in {"redo", "undo", "up", "spoilt"}
      /\ UNCHANGED <<diskPages, log, session, active, nextTxnId, fresh>>
  BY DEF recover, redoPhase, redoDone, undoPhase, undoDone, logVars, txnVars, insertOrSpoil
<1>4. session # 1
  BY <1>3 DEF ExactInv, NoneYet
<1>5. PagesTell'
  <2>1. CASE UNCHANGED heapVars
    BY <1>1, <1>3, <2>1, UntouchedTells
  <2>2. CASE ~UNCHANGED heapVars
    <3> DEFINE rec == log[pos]
    <3>1. /\ pos \in 1 .. Len(log) /\ rec.type \in {"INSERT", "DELETE"}
          /\ insertOrSpoil(rec.data) \/ deleteTuple(rec.rid[1], rec.rid[2])
      <4>1. CASE redoPhase
        BY <1>1, <2>2, <4>1 DEF redoPhase, LoopsInBounds
      <4>2. CASE undoPhase
        BY <1>1, <2>2, <4>2 DEF undoPhase, LoopsInBounds
      <4>3. QED BY <2>2, <4>1, <4>2 DEF recover, redoDone, undoDone
    <3>2. rec.rid[1] \in PageNum /\ rec.rid[2] \in Slot
      BY <1>1, <3>1 DEF GoodRecord, LogRecord, RID
    <3> HIDE DEF rec
    <3>3. QED BY <1>1, <1>3, <3>1, <3>2, InsertOrSpoilTells, DeleteTells
  <2>3. QED BY <2>1, <2>2
<1>6. BeginsFirst' /\ NoneYet'
  BY <1>3, <1>4 DEF ExactInv, BeginsFirst, NoneYet, OneProcess
<1>7. PICK H : History(H, log) /\ Replayed(H)
  BY DEF ExactInv
<1>8. /\ OneProcess' <=> OneProcess
      /\ UncommittedLast' <=> UncommittedLast
      /\ \A u : Border(u)' <=> Border(u)
  BY <1>3 DEF OneProcess, UncommittedLast, Border, DataRecord, Committed
<1>9. ASSUME session > 1, fresh, OneProcess, UncommittedLast, NEW u \in 0 .. Len(log), Border(u)
      PROVE  /\ mode' = "redo" => heapVars' = H[IF pos' - 1 <= u THEN pos' - 1 ELSE u]
             /\ mode' \in {"undo", "up"} => heapVars' = H[u]
  <2>1. /\ mode = "redo" => heapVars = H[IF pos - 1 <= u THEN pos - 1 ELSE u]
        /\ mode \in {"undo", "up"} => heapVars = H[u]
    BY <1>7, <1>9 DEF Replayed
  <2>2. CASE redoPhase
    <3>1. /\ mode = "redo" /\ pos \in 1 .. Len(log) /\ pos' = pos + 1
          /\ mode' \in {"redo", "spoilt"} /\ pos' - 1 = pos
      BY <1>1, <2>2 DEF redoPhase, LoopsInBounds, insertOrSpoil
    <3>2. mode' # "spoilt" => heapVars' = H[IF pos <= u THEN pos ELSE u]
      BY <1>1, <1>7, <1>9, <2>1, <2>2, <3>1, RedoReplays
    <3>3. QED BY <3>1, <3>2
  <2>3. CASE redoDone
    <3>1. /\ mode = "redo" /\ pos = Len(log) + 1 /\ mode' = "undo" /\ UNCHANGED heapVars
      BY <2>3 DEF redoDone
    <3>2. (IF pos - 1 <= u THEN pos - 1 ELSE u) = u
      BY <1>1, <3>1
    <3>3. heapVars = H[u]
      BY <2>1, <3>1, <3>2
    <3>4. QED BY <3>1, <3>3
  <2>4. CASE undoPhase
    <3>1. /\ mode = "undo" /\ pos \in 1 .. Len(log) /\ mode' \in {"undo", "spoilt"}
      BY <1>1, <2>4 DEF undoPhase, LoopsInBounds, insertOrSpoil
    <3>2. BeginsFirst
      BY DEF ExactInv
    <3>3. heapVars' = H[u]
      BY <1>1, <1>7, <1>9, <2>1, <2>4, <3>1, <3>2, UndoReplays
    <3>4. QED BY <3>1, <3>3
  <2>5. CASE undoDone
    <3>1. mode = "undo" /\ mode' = "up" /\ UNCHANGED heapVars
      BY <2>5 DEF undoDone
    <3>2. QED BY <2>1, <3>1
  <2>6. QED BY <2>2, <2>3, <2>4, <2>5 DEF recover
<1>10. Replayed(H)'
  BY <1>3, <1>4, <1>8, <1>9 DEF Replayed
<1>11. QED BY <1>2, <1>3, <1>5, <1>6, <1>7, <1>10 DEF ExactInv

\* Every step keeps the invariant.
LEMMA ExactStep == ExactInv /\ [RecoveryNext]_recoveryVars => ExactInv'
<1> SUFFICES ASSUME ExactInv, [RecoveryNext]_recoveryVars PROVE ExactInv'
  OBVIOUS
<1>1. CASE UNCHANGED recoveryVars
  <2>1. /\ UNCHANGED <<diskPages, log, flushed, mode, pos, session, active, nextTxnId, fresh>>
        /\ UNCHANGED heapVars
    BY <1>1 DEF recoveryVars, logVars, txnVars
  <2>2. Parts'
    BY <1>1, RecoveryStep, RInvParts, RInvPartsNext DEF ExactInv
  <2>3. PagesTell'
    BY <2>1, UntouchedTells DEF ExactInv
  <2>4. BeginsFirst' /\ NoneYet'
    BY <2>1 DEF ExactInv, BeginsFirst, NoneYet, OneProcess
  <2>5. \A H : Replayed(H) => Replayed(H)'
    BY <2>1 DEF Replayed, OneProcess, UncommittedLast, Border, DataRecord, Committed
  <2>6. QED BY <2>1, <2>2, <2>3, <2>4, <2>5 DEF ExactInv
<1>2. CASE RecoveryNext
  BY <1>2, TransactionsExact, RecoverExactStep, CrashExact DEF RecoveryNext
<1>3. QED BY <1>1, <1>2

LEMMA ExactStart == RecoveryInit => ExactInv
<1> SUFFICES ASSUME RecoveryInit PROVE ExactInv
  OBVIOUS
<1>1. /\ pageCount = 1 /\ pages = [p \in PageNum |-> initPage]
      /\ diskPages = [p \in PageNum |-> rawPage] /\ log = <<>>
      /\ mode = "up" /\ session = 1 /\ active = {}
  BY DEF RecoveryInit, Init
<1>2. Len(log) = 0 /\ \A i : i \notin 1 .. Len(log)
  BY <1>1
<1>3. PagesTell
  <2>1. rawPage # initPage
    <3>1. initPage.freeSpacePtr = HEADER_SIZE /\ rawPage.freeSpacePtr = 0
      BY RawFair DEF initPage
    <3>2. QED BY <3>1, PageAssumption
  <2>2. \A p \in PageNum : p >= 1 => ~(p < 1)
    BY DEF PageNum
  <2>3. QED BY <1>1, <2>1, <2>2 DEF PagesTell
<1>4. BeginsFirst /\ NoneYet
  BY <1>1, <1>2 DEF BeginsFirst, NoneYet
<1>5. \E H : History(H, log) /\ Replayed(H)
  <2> DEFINE H == [i \in {0} |-> Start]
  <2>1. H[0] = Start
    OBVIOUS
  <2> HIDE DEF H
  <2>2. heapVars = Start
    BY <1>1 DEF heapVars, Start
  <2>3. History(H, log)
    BY <1>2, <2>1 DEF History
  <2>4. Replayed(H)
    <3>1. ~(session > 1)
      BY <1>1
    <3>2. QED BY <1>2, <2>1, <2>2, <3>1, StartSound DEF Replayed
  <2>5. QED BY <2>3, <2>4
<1>6. QED BY <1>3, <1>4, <1>5, RecoveryStart DEF ExactInv

-------------------------------------------------------------------------------
(* Counting *)

\* The records up to k of a type that carry the tuple t, and the RIDs of t.
RecordsOf(type, t, k) == {i \in 1 .. k : log[i].type = type /\ log[i].data = t}
PlacesOf(t, h) == {rid \in RID : Content(h)[rid] = t}

\* One more record.
LEMMA OneRecord ==
  ASSUME NEW type, NEW t, NEW k \in Nat, IsFiniteSet(RecordsOf(type, t, k))
  PROVE  /\ IsFiniteSet(RecordsOf(type, t, k + 1))
         /\ Cardinality(RecordsOf(type, t, k)) \in Nat
         /\ Cardinality(RecordsOf(type, t, k + 1)) = Cardinality(RecordsOf(type, t, k)) +
              IF log[k + 1].type = type /\ log[k + 1].data = t THEN 1 ELSE 0
<1> DEFINE A == RecordsOf(type, t, k)
           B == RecordsOf(type, t, k + 1)
<1>1. k + 1 \notin A /\ \A i : i \in 1 .. k + 1 <=> i \in 1 .. k \/ i = k + 1
  BY DEF RecordsOf
<1>2. B = IF log[k + 1].type = type /\ log[k + 1].data = t THEN A \cup {k + 1} ELSE A
  BY <1>1 DEF RecordsOf
<1> HIDE DEF A, B
<1>3. IsFiniteSet(A)
  BY DEF A
<1>4. Cardinality(A) \in Nat /\ IsFiniteSet(A \cup {k + 1})
      /\ Cardinality(A \cup {k + 1}) = Cardinality(A) + 1
  BY <1>1, <1>3, FS_AddElement, FS_CardinalityType
<1>5. IsFiniteSet(B) /\ Cardinality(A) \in Nat
      /\ Cardinality(B) = Cardinality(A) +
              IF log[k + 1].type = type /\ log[k + 1].data = t THEN 1 ELSE 0
  BY <1>2, <1>3, <1>4
<1>6. QED BY <1>5 DEF A, B

\* What the record does to the RIDs of t.
LEMMA OnePlace ==
  ASSUME NEW a, NEW b, NEW rec, Logged(a, rec, b), GoodRecord(rec), NEW t \in Tuple,
         IsFiniteSet(PlacesOf(t, a))
  PROVE  /\ IsFiniteSet(PlacesOf(t, b))
         /\ Cardinality(PlacesOf(t, a)) \in Nat /\ Cardinality(PlacesOf(t, b)) \in Nat
         /\ Cardinality(PlacesOf(t, b)) + (IF rec.type = "DELETE" /\ rec.data = t THEN 1 ELSE 0)
            = Cardinality(PlacesOf(t, a)) + (IF rec.type = "INSERT" /\ rec.data = t THEN 1 ELSE 0)
<1> DEFINE A == PlacesOf(t, a)
           B == PlacesOf(t, b)
           r == rec.rid
<1>1. r \in RID /\ t # NoTuple /\ DOMAIN Content(a) = RID
  <2>1. Len(t) >= 1
    BY PageAssumption
  <2>2. t # NoTuple
    BY <2>1 DEF NoTuple
  <2>3. QED BY <2>2 DEF GoodRecord, LogRecord, Content
<1>2. CASE rec.type = "INSERT" /\ rec.data = t
  <2>1. Content(a)[r] = NoTuple /\ Content(b) = [Content(a) EXCEPT ![r] = t]
    BY <1>2 DEF Logged
  <2>2. B = A \cup {r} /\ r \notin A
    BY <1>1, <2>1 DEF PlacesOf
  <2>3. IsFiniteSet(A)
    OBVIOUS
  <2> HIDE DEF A, B, r
  <2>4. IsFiniteSet(B) /\ Cardinality(A) \in Nat /\ Cardinality(B) = Cardinality(A) + 1
    BY <2>2, <2>3, FS_AddElement, FS_CardinalityType
  <2>5. QED BY <1>2, <2>4 DEF A, B
<1>3. CASE rec.type = "DELETE" /\ rec.data = t
  <2>1. Content(a)[r] = t /\ Content(b) = [Content(a) EXCEPT ![r] = NoTuple]
    BY <1>3 DEF Logged
  <2>2. B = A \ {r} /\ r \in A
    BY <1>1, <2>1 DEF PlacesOf
  <2>3. IsFiniteSet(A)
    OBVIOUS
  <2> HIDE DEF A, B, r
  <2>4. /\ IsFiniteSet(B) /\ Cardinality(A) \in Nat /\ Cardinality(B) \in Nat
        /\ Cardinality(B) = Cardinality(A) - 1
    BY <2>2, <2>3, FS_RemoveElement, FS_CardinalityType
  <2>5. QED BY <1>3, <2>4 DEF A, B
<1>4. CASE rec.type \notin {"INSERT", "DELETE"} \/ rec.data # t
  <2>1. A = B
    <3>1. CASE rec.type = "INSERT"
      BY <1>1, <1>4, <3>1 DEF Logged, PlacesOf
    <3>2. CASE rec.type = "DELETE"
      BY <1>1, <1>4, <3>2 DEF Logged, PlacesOf
    <3>3. CASE rec.type \notin {"INSERT", "DELETE"}
      BY <3>3 DEF Logged
    <3>4. QED BY <3>1, <3>2, <3>3
  <2>2. ~(rec.type = "DELETE" /\ rec.data = t) /\ ~(rec.type = "INSERT" /\ rec.data = t)
    BY <1>4
  <2>3. IsFiniteSet(A) /\ Cardinality(A) \in Nat
    BY FS_CardinalityType
  <2> HIDE DEF A, B
  <2>4. QED BY <2>1, <2>2, <2>3 DEF A, B
<1>5. QED BY <1>2, <1>3, <1>4

\* In every heap of the history a tuple is as often as the records have it.
LEMMA HistoryCounts ==
  ASSUME NEW H, GoodLog(log), Len(log) \in Nat, History(H, log), OneProcess,
         NEW t \in Tuple, NEW u \in 0 .. Len(log)
  PROVE  /\ Cardinality(PlacesOf(t, H[u])) \in Nat
         /\ Cardinality(RecordsOf("INSERT", t, u)) \in Nat
         /\ Cardinality(RecordsOf("DELETE", t, u)) \in Nat
         /\ Cardinality(PlacesOf(t, H[u])) + Cardinality(RecordsOf("DELETE", t, u))
            = Cardinality(RecordsOf("INSERT", t, u))
<1> DEFINE Agree(k) ==
             /\ IsFiniteSet(PlacesOf(t, H[k])) /\ IsFiniteSet(RecordsOf("INSERT", t, k))
             /\ IsFiniteSet(RecordsOf("DELETE", t, k))
             /\ Cardinality(PlacesOf(t, H[k])) + Cardinality(RecordsOf("DELETE", t, k))
                = Cardinality(RecordsOf("INSERT", t, k))
           S == {k \in Nat : k <= Len(log) => Agree(k)}
<1>1. 0 \in S
  <2>1. t # NoTuple
    <3>1. Len(t) >= 1
      BY PageAssumption
    <3>2. QED BY <3>1 DEF NoTuple
  <2>2. PlacesOf(t, H[0]) = {} /\ RecordsOf("INSERT", t, 0) = {} /\ RecordsOf("DELETE", t, 0) = {}
    BY <2>1, StartSound DEF PlacesOf, RecordsOf, History
  <2>3. IsFiniteSet({}) /\ Cardinality({}) = 0
    BY FS_EmptySet
  <2>4. /\ IsFiniteSet(PlacesOf(t, H[0])) /\ Cardinality(PlacesOf(t, H[0])) = 0
        /\ IsFiniteSet(RecordsOf("INSERT", t, 0)) /\ Cardinality(RecordsOf("INSERT", t, 0)) = 0
        /\ IsFiniteSet(RecordsOf("DELETE", t, 0)) /\ Cardinality(RecordsOf("DELETE", t, 0)) = 0
    BY ONLY <2>2, <2>3
  <2>5. Agree(0)
    BY <2>4
  <2>6. QED BY <2>5
<1>2. ASSUME NEW k \in Nat, k \in S PROVE k + 1 \in S
  <2>1. SUFFICES ASSUME k + 1 <= Len(log) PROVE Agree(k + 1)
    OBVIOUS
  <2>2. k + 1 \in 1 .. Len(log) /\ (k + 1) - 1 = k /\ k <= Len(log)
    BY <2>1
  <2>3. Agree(k)
    BY <1>2, <2>2
  <2> DEFINE rec == log[k + 1]
  <2>4. Logged(H[k], rec, H[k + 1]) /\ GoodRecord(rec)
    BY <2>2 DEF History, OneProcess, GoodLog
  <2> DEFINE PA == PlacesOf(t, H[k])
             PB == PlacesOf(t, H[k + 1])
             IA == RecordsOf("INSERT", t, k)
             IB == RecordsOf("INSERT", t, k + 1)
             DA == RecordsOf("DELETE", t, k)
             DB == RecordsOf("DELETE", t, k + 1)
  <2>5. /\ IsFiniteSet(PB)
        /\ Cardinality(PA) \in Nat /\ Cardinality(PB) \in Nat
        /\ Cardinality(PB) + (IF rec.type = "DELETE" /\ rec.data = t THEN 1 ELSE 0)
           = Cardinality(PA) + (IF rec.type = "INSERT" /\ rec.data = t THEN 1 ELSE 0)
    <3> HIDE DEF rec
    <3>1. QED BY <2>3, <2>4, OnePlace
  <2>6. /\ IsFiniteSet(IB) /\ Cardinality(IA) \in Nat
        /\ Cardinality(IB) = Cardinality(IA) +
             IF rec.type = "INSERT" /\ rec.data = t THEN 1 ELSE 0
    BY <2>3, OneRecord
  <2>7. /\ IsFiniteSet(DB) /\ Cardinality(DA) \in Nat
        /\ Cardinality(DB) = Cardinality(DA) +
             IF rec.type = "DELETE" /\ rec.data = t THEN 1 ELSE 0
    BY <2>3, OneRecord
  <2>8. Cardinality(PA) + Cardinality(DA) = Cardinality(IA)
    BY <2>3
  <2> HIDE DEF rec, PA, PB, IA, IB, DA, DB
  <2>9. Cardinality(PB) + Cardinality(DB) = Cardinality(IB)
    BY <2>5, <2>6, <2>7, <2>8
  <2>10. QED BY <2>5, <2>6, <2>7, <2>9 DEF PB, IB, DB
<1>3. Nat \subseteq S
  <2> HIDE DEF S
  <2>1. QED BY <1>1, <1>2, SetInduction
<1>4. Agree(u)
  BY <1>3
<1>5. QED BY <1>4, FS_CardinalityType

\* What committed comes first: there is a border.
LEMMA BorderExists ==
  ASSUME Len(log) \in Nat, UncommittedLast
  PROVE  \E u \in 0 .. Len(log) : Border(u)
<1> DEFINE T == {i \in 1 .. Len(log) : DataRecord(i) /\ ~Committed(i)}
<1>1. CASE T = {}
  <2>1. Len(log) \in 0 .. Len(log) /\ \A i \in 1 .. Len(log) : DataRecord(i) => Committed(i) /\ i <= Len(log)
    BY <1>1
  <2>2. Border(Len(log))
    BY <2>1 DEF Border
  <2>3. QED BY <2>1, <2>2
<1>2. CASE T # {}
  <2> DEFINE m == Min(T)
  <2>1. m \in T /\ \A y \in T : m <= y
    <3>1. T \subseteq Nat
      OBVIOUS
    <3> HIDE DEF T
    <3>2. QED BY <1>2, <3>1, MinExists
  <2> HIDE DEF m
  <2>2. m - 1 \in 0 .. Len(log)
    BY <2>1
  <2>3. ASSUME NEW i \in 1 .. Len(log), DataRecord(i) PROVE Committed(i) <=> i <= m - 1
    <3>1. CASE i <= m - 1
      BY <2>1, <2>3, <3>1
    <3>2. CASE ~(i <= m - 1)
      <4>1. i = m \/ i \in m + 1 .. Len(log)
        BY <2>1, <3>2
      <4>2. QED BY <2>1, <2>3, <3>2, <4>1 DEF UncommittedLast
    <3>3. QED BY <3>1, <3>2
  <2>4. QED BY <2>2, <2>3 DEF Border
<1>3. QED BY <1>1, <1>2

\* The invariant gives the counts.
LEMMA ExactCounts == ExactInv => RecoverExact
<1> SUFFICES ASSUME ExactInv, Recovered, fresh, UncommittedLast,
                    \A rec \in ToSet(log) : rec.session = 1, NEW t \in Tuple
             PROVE  Found(t) = Wanted(t)
  BY DEF RecoverExact
<1>1. GoodLog(log) /\ Len(log) \in Nat /\ mode = "up" /\ session > 1
  BY DEF ExactInv, Parts, GoodLog, Recovered
<1>2. OneProcess
  <2>1. \A i \in 1 .. Len(log) : log[i] \in ToSet(log)
    BY <1>1 DEF GoodLog, ToSet
  <2>2. QED BY <2>1 DEF OneProcess
<1>3. PICK H : History(H, log) /\ Replayed(H)
  BY DEF ExactInv
<1>4. PICK u \in 0 .. Len(log) : Border(u)
  BY <1>1, BorderExists
<1>5. heapVars = H[u]
  BY <1>1, <1>2, <1>3, <1>4 DEF Replayed
<1>6. Found(t) = Cardinality(PlacesOf(t, H[u]))
  BY <1>5, HereContent DEF Found, PlacesOf
<1>7. ASSUME NEW type \in {"INSERT", "DELETE"}
      PROVE  {i \in 1 .. Len(log) : log[i].type = type /\ log[i].data = t /\ Committed(i)}
             = RecordsOf(type, t, u)
  <2>1. \A i \in 1 .. Len(log) : log[i].type = type => (Committed(i) <=> i <= u)
    BY <1>4 DEF Border, DataRecord
  <2>2. \A i : i \in 1 .. u <=> i \in 1 .. Len(log) /\ i <= u
    BY <1>1
  <2>3. QED BY <2>1, <2>2 DEF RecordsOf
<1>8. Wanted(t) = Cardinality(RecordsOf("INSERT", t, u)) - Cardinality(RecordsOf("DELETE", t, u))
  BY <1>7 DEF Wanted
<1>9. /\ Cardinality(PlacesOf(t, H[u])) \in Nat
      /\ Cardinality(RecordsOf("INSERT", t, u)) \in Nat
      /\ Cardinality(RecordsOf("DELETE", t, u)) \in Nat
      /\ Cardinality(PlacesOf(t, H[u])) + Cardinality(RecordsOf("DELETE", t, u))
         = Cardinality(RecordsOf("INSERT", t, u))
  BY <1>1, <1>2, <1>3, HistoryCounts
<1>10. QED BY <1>6, <1>8, <1>9

\* When a process that died left the log of one process, no tuple in the file, and
\* what did not commit at the end, recover brings the table to what committed:
\* every tuple is there as often as it was inserted and not deleted, with any
\* number of transactions, pages and later crashes.
THEOREM RecoverExactCounts == RecoverySpec => []RecoverExact
BY ExactStart, ExactStep, ExactCounts, PTL DEF RecoverySpec

===============================================================================
