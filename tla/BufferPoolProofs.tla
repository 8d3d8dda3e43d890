--------------------------- MODULE BufferPoolProofs ---------------------------
(***************************************************************************)
(* For every number of frames, files, pages and clients: the buffer pool   *)
(* keeps its inductive invariant, and it implements PageStore.             *)
(***************************************************************************)
EXTENDS BufferPool, ListLemmas, FiniteSetTheorems

\* The two "null" values of the model are neither frames nor pages, and a page
\* is a pair of a file and a page number.
LEMMA Nulls ==
  /\ NoFrame \notin Frame
  /\ NoPage \notin PageKey
  /\ \A k \in PageKey : k[1] \in File /\ k[2] \in 0 .. MaxPages - 1 /\ k = <<k[1], k[2]>>
<1>1. NoFrame \notin Frame
  BY PoolAssumption DEF Frame, NoFrame
<1>2. \A k \in PageKey : k[1] \in File /\ k[2] \in 0 .. MaxPages - 1 /\ k = <<k[1], k[2]>>
  BY DEF PageKey, PageNum
<1>3. QED BY <1>1, <1>2, PoolAssumption

-------------------------------------------------------------------------------
(* The users of a frame *)

\* The clients whose pointer leads into frame f.
Users(p, f) == {c \in Client : p[c] = f}

\* fetchPage adds its caller to the users of one frame only.
LEMMA PinAdds ==
  ASSUME NEW p \in [Client -> Frame \cup {NoFrame}], NEW c \in Client,
         NEW f \in Frame, p[c] = NoFrame
  PROVE  \A g \in Frame :
           Cardinality(Users([p EXCEPT ![c] = f], g)) =
             IF g = f THEN Cardinality(Users(p, g)) + 1 ELSE Cardinality(Users(p, g))
<1> DEFINE q == [p EXCEPT ![c] = f]
<1>1. TAKE g \in Frame
<1>2. CASE g = f
  <2>1. Users(q, g) = Users(p, g) \cup {c} /\ c \notin Users(p, g)
    BY <1>2, Nulls DEF Users
  <2>2. IsFiniteSet(Users(p, g))
    BY PoolAssumption, FS_Subset DEF Users
  <2>3. QED BY <1>2, <2>1, <2>2, FS_AddElement
<1>3. CASE g # f
  <2>1. Users(q, g) = Users(p, g)
    BY <1>3, Nulls DEF Users
  <2>2. QED BY <1>3, <2>1
<1>4. QED BY <1>2, <1>3

\* unpinPage removes its caller from the users of one frame only.
LEMMA UnpinRemoves ==
  ASSUME NEW p \in [Client -> Frame \cup {NoFrame}], NEW c \in Client, p[c] \in Frame
  PROVE  /\ Cardinality(Users(p, p[c])) > 0
         /\ \A g \in Frame :
              Cardinality(Users([p EXCEPT ![c] = NoFrame], g)) =
                IF g = p[c] THEN Cardinality(Users(p, g)) - 1
                            ELSE Cardinality(Users(p, g))
<1> DEFINE q == [p EXCEPT ![c] = NoFrame]
<1>1. ASSUME NEW g \in Frame
      PROVE  IsFiniteSet(Users(p, g)) /\ Cardinality(Users(p, g)) \in Nat
  BY PoolAssumption, FS_Subset, FS_CardinalityType DEF Users
<1>2. Cardinality(Users(p, p[c])) > 0
  <2>1. c \in Users(p, p[c])
    BY DEF Users
  <2>2. Cardinality(Users(p, p[c])) # 0
    BY <1>1, <2>1, FS_EmptySet
  <2>3. QED BY <1>1, <2>2
<1>3. ASSUME NEW g \in Frame
      PROVE  Cardinality(Users(q, g)) =
                IF g = p[c] THEN Cardinality(Users(p, g)) - 1
                            ELSE Cardinality(Users(p, g))
  <2>1. CASE g = p[c]
    <3>1. Users(q, g) = Users(p, g) \ {c} /\ c \in Users(p, g)
      BY <2>1, Nulls DEF Users
    <3>2. QED BY <1>1, <2>1, <3>1, FS_RemoveElement
  <2>2. CASE g # p[c]
    <3>1. Users(q, g) = Users(p, g)
      BY <2>2, Nulls DEF Users
    <3>2. QED BY <2>2, <3>1
  <2>3. QED BY <2>1, <2>2
<1>4. QED BY <1>2, <1>3

\* PinCountsExact in terms of Users; a frame nobody points into has pin count 0.
LEMMA PinsAreUsers ==
  ASSUME PinCountsExact
  PROVE  /\ \A f \in Frame : pinCount[f] = Cardinality(Users(ptr, f))
         /\ \A f \in Frame, c \in Client : ptr[c] = f => pinCount[f] # 0
<1>1. \A f \in Frame : pinCount[f] = Cardinality(Users(ptr, f))
  BY DEF PinCountsExact, Users
<1>2. ASSUME NEW f \in Frame, NEW c \in Client, ptr[c] = f PROVE pinCount[f] # 0
  <2>1. IsFiniteSet(Users(ptr, f)) /\ c \in Users(ptr, f)
    BY <1>2, PoolAssumption, FS_Subset DEF Users
  <2>2. QED BY <1>1, <2>1, FS_EmptySet
<1>3. QED BY <1>1, <1>2

-------------------------------------------------------------------------------
(* One lemma per operation *)

\* The constructor establishes the invariant.
LEMMA InitEstablishes == Init => IndInv
<1> SUFFICES ASSUME Init PROVE IndInv
  OBVIOUS
<1> USE DEF Init, DiskInit
<1>1. TypeOK
  <2>1. freeList \in Seq(Frame)
    <3>1. \A i \in 1 .. PoolSize : i - 1 \in Frame
      BY PoolAssumption DEF Frame
    <3>2. QED BY <3>1, PoolAssumption
  <2>2. QED BY <2>1, DiskAssumption DEF TypeOK, DiskTypeOK, File, PageKey, Use, Fault
<1>2. IsInjective(freeList)
  BY PoolAssumption DEF IsInjective
<1>3. FreeFrames
  <2>1. \A f \in ToSet(freeList) : f \in Frame
    <3>1. \A i \in DOMAIN freeList : freeList[i] \in Frame
      BY PoolAssumption DEF Frame
    <3>2. QED BY <3>1, Zenon DEF ToSet
  <2>2. QED BY <1>2, <2>1 DEF FreeFrames
<1>4. ToSet(lruList) = {} /\ IsInjective(lruList)
  BY DEF ToSet, IsInjective
<1>5. TableExact /\ LruExact /\ CleanMatchesDisk /\ BeyondEndZero
  BY <1>4, Nulls DEF TableExact, LruExact, CleanMatchesDisk, BeyondEndZero, Resident
<1>6. ClientsConsistent /\ PointersValid
  BY DEF ClientsConsistent, PointersValid
<1>7. PinCountsExact
  <2>1. \A f \in Frame : {c \in Client : ptr[c] = f} = {}
    BY Nulls
  <2>2. QED BY <2>1, FS_EmptySet DEF PinCountsExact
<1>8. QED BY <1>1, <1>3, <1>5, <1>6, <1>7 DEF IndInv

\* fetchPage of a resident page keeps the invariant.
LEMMA FetchHitKeeps ==
  ASSUME IndInv, NEW c \in Client, NEW k \in PageKey, NEW w \in BOOLEAN,
         fetchHit(c, k, w)
  PROVE  IndInv'
<1> DEFINE f == pageTable[k]
<1>0. TypeOK /\ TableExact /\ LruExact /\ FreeFrames /\ ClientsConsistent
      /\ PointersValid /\ PinCountsExact /\ CleanMatchesDisk /\ BeyondEndZero
  BY DEF IndInv
<1>1. f \in Frame /\ frameKey[f] = k /\ ptr[c] = NoFrame /\ held[c] = NoPage
  BY <1>0, Nulls DEF fetchHit, TypeOK, Resident, TableExact, ClientsConsistent
<1>2. /\ lruList' \in Seq(Frame) /\ IsInjective(lruList')
      /\ ToSet(lruList') = ToSet(lruList) \ {f}
  BY <1>0, RemoveFirstInjective DEF TypeOK, LruExact, fetchHit, lruErase
<1>3. TypeOK'
  BY <1>0, <1>1, <1>2 DEF TypeOK, DiskTypeOK, diskVars, fetchHit, Pinned, Use, Fault
<1>4. InFlight' = InFlight
  BY <1>0, <1>1, Nulls DEF InFlight, fetchHit, Pinned, TypeOK
<1>5. TableExact' /\ BeyondEndZero'
  BY <1>0 DEF TableExact, BeyondEndZero, Resident, InFile, fetchHit, diskVars
<1>6. LruExact'
  BY <1>0, <1>1, <1>2 DEF LruExact, fetchHit, TypeOK
<1>7. FreeFrames'
  BY <1>0, <1>1, Nulls DEF FreeFrames, fetchHit, TypeOK, ToSet
<1>8. ClientsConsistent' /\ PointersValid'
  BY <1>0, <1>1, Nulls DEF ClientsConsistent, PointersValid, fetchHit, Pinned,
     TypeOK, Resident
<1>9. PinCountsExact'
  <2>1. ptr' = [ptr EXCEPT ![c] = f]
        /\ \A g \in Frame : pinCount'[g] = IF g = f THEN pinCount[g] + 1 ELSE pinCount[g]
    BY <1>0, <1>1 DEF fetchHit, Pinned, TypeOK
  <2>2. ptr \in [Client -> Frame \cup {NoFrame}]
    BY <1>0 DEF TypeOK
  <2>3. \A g \in Frame : Cardinality(Users(ptr', g)) =
             IF g = f THEN Cardinality(Users(ptr, g)) + 1 ELSE Cardinality(Users(ptr, g))
    <3>1. f \in Frame /\ ptr[c] = NoFrame
      BY <1>1
    <3> HIDE DEF f
    <3>2. \A g \in Frame : Cardinality(Users([ptr EXCEPT ![c] = f], g)) =
               IF g = f THEN Cardinality(Users(ptr, g)) + 1 ELSE Cardinality(Users(ptr, g))
      BY <2>2, <3>1, PinAdds, Zenon
    <3>3. QED BY <2>1, <3>2, Zenon
  <2>4. \A g \in Frame : pinCount'[g] = Cardinality(Users(ptr', g))
    BY <1>0, <2>1, <2>3, PinsAreUsers
  <2>5. QED BY <2>4 DEF PinCountsExact, Users
<1>10. CleanMatchesDisk'
  BY <1>0, <1>1, <1>4 DEF CleanMatchesDisk, fetchHit, Resident, TypeOK, diskVars
<1>11. QED BY <1>3, <1>5, <1>6, <1>7, <1>8, <1>9, <1>10 DEF IndInv

\* unpinPage keeps the invariant.
LEMMA UnpinKeeps ==
  ASSUME IndInv, NEW c \in Client, NEW dirty \in BOOLEAN, unpinPage(c, dirty)
  PROVE  IndInv'
<1> DEFINE k == held[c]
           f == pageTable[k]
<1>0. TypeOK /\ TableExact /\ LruExact /\ FreeFrames /\ ClientsConsistent
      /\ PointersValid /\ PinCountsExact /\ CleanMatchesDisk /\ BeyondEndZero
  BY DEF IndInv
<1>1. k \in PageKey /\ f \in Frame /\ frameKey[f] = k /\ ptr[c] = f
  BY <1>0, Nulls DEF unpinPage, TypeOK, Resident, PointersValid
<1>2. pinCount[f] \in Nat /\ pinCount[f] > 0
  BY <1>0, <1>1, PinsAreUsers DEF TypeOK
<1>3. /\ pinCount' = [pinCount EXCEPT ![f] = @ - 1]
      /\ isDirty' = unpinDirty(f, dirty)
      /\ lruList' = lruPush(f)
  BY <1>1, <1>2, Nulls DEF unpinPage
<1>4. /\ lruList' \in Seq(Frame) /\ IsInjective(lruList')
      /\ ToSet(lruList') = IF pinCount[f] = 1 THEN ToSet(lruList) \cup {f} ELSE ToSet(lruList)
  <2>1. f \notin ToSet(lruList)
    BY <1>0, <1>2 DEF LruExact
  <2>2. /\ Cons(f, lruList) \in Seq(Frame) /\ IsInjective(Cons(f, lruList))
        /\ ToSet(Cons(f, lruList)) = ToSet(lruList) \cup {f}
    <3>1. lruList \in Seq(Frame) /\ IsInjective(lruList)
      BY <1>0 DEF TypeOK, LruExact
    <3>2. QED BY <1>1, <2>1, <3>1, ConsFresh
  <2>3. QED BY <1>0, <1>3, <2>2 DEF TypeOK, LruExact, lruPush
<1>5. TypeOK'
  BY <1>0, <1>1, <1>2, <1>3, <1>4
  DEF TypeOK, DiskTypeOK, diskVars, unpinPage, unpinDirty, Use, Fault
<1>6. InFlight \ {k} \subseteq InFlight' /\ (use[c] = "wrote" => dirty)
  BY <1>0, <1>1 DEF InFlight, unpinPage, TypeOK, DirtyArg
<1>7. TableExact' /\ BeyondEndZero'
  BY <1>0 DEF TableExact, BeyondEndZero, Resident, InFile, unpinPage, diskVars
<1>8. LruExact'
  BY <1>0, <1>1, <1>2, <1>3, <1>4 DEF LruExact, unpinPage, TypeOK
<1>9. FreeFrames'
  BY <1>0, <1>1, <1>3, Nulls DEF FreeFrames, unpinPage, TypeOK, ToSet
<1>10. ClientsConsistent' /\ PointersValid'
  BY <1>0, <1>1, Nulls DEF ClientsConsistent, PointersValid, unpinPage, TypeOK, Resident
<1>11. PinCountsExact'
  <2>1. ptr' = [ptr EXCEPT ![c] = NoFrame]
        /\ \A g \in Frame : pinCount'[g] = IF g = f THEN pinCount[g] - 1 ELSE pinCount[g]
    BY <1>0, <1>1, <1>3 DEF unpinPage, TypeOK
  <2>2. ptr \in [Client -> Frame \cup {NoFrame}] /\ ptr[c] \in Frame
    BY <1>0, <1>1 DEF TypeOK
  <2>3. \A g \in Frame : Cardinality(Users(ptr', g)) =
             IF g = ptr[c] THEN Cardinality(Users(ptr, g)) - 1
                           ELSE Cardinality(Users(ptr, g))
    <3>1. \A g \in Frame : Cardinality(Users([ptr EXCEPT ![c] = NoFrame], g)) =
               IF g = ptr[c] THEN Cardinality(Users(ptr, g)) - 1
                             ELSE Cardinality(Users(ptr, g))
      BY <2>2, UnpinRemoves, Zenon
    <3>2. QED BY <2>1, <3>1, Zenon
  <2>4. \A g \in Frame : pinCount'[g] = Cardinality(Users(ptr', g))
    BY <1>0, <1>1, <2>1, <2>3, PinsAreUsers
  <2>5. QED BY <2>4 DEF PinCountsExact, Users
<1>12. CleanMatchesDisk'
  <2>1. SUFFICES ASSUME NEW x \in PageKey, Resident(x), ~isDirty'[pageTable[x]],
                        x \notin InFlight'
                 PROVE  disk[x] = data[pageTable[x]]
    BY DEF CleanMatchesDisk, Resident, unpinPage, diskVars
  <2>2. ~isDirty[pageTable[x]] /\ (x = k => ~dirty)
    BY <1>0, <1>1, <1>3, <2>1 DEF unpinDirty, TypeOK, Resident
  <2>3. x \notin InFlight
    <3>1. CASE x # k
      BY <1>6, <2>1, <3>1
    <3>2. CASE x = k
      BY <1>0, <1>6, <2>1, <2>2, <3>2 DEF InFlight, unpinPage, TypeOK
    <3>3. QED BY <3>1, <3>2
  <2>4. QED BY <1>0, <2>1, <2>2, <2>3 DEF CleanMatchesDisk
<1>13. QED BY <1>5, <1>7, <1>8, <1>9, <1>10, <1>11, <1>12 DEF IndInv

\* A write through the pointer keeps the invariant.
LEMMA WriteKeeps ==
  ASSUME IndInv, NEW c \in Client, NEW d \in Data, clientWrite(c, d)
  PROVE  IndInv'
<1> DEFINE k == held[c]
           f == ptr[c]
<1>0. TypeOK /\ TableExact /\ LruExact /\ FreeFrames /\ ClientsConsistent
      /\ PointersValid /\ PinCountsExact /\ CleanMatchesDisk /\ BeyondEndZero
  BY DEF IndInv
<1>1. k \in PageKey /\ f \in Frame /\ frameKey[f] = k /\ pageTable[k] = f
  BY <1>0, Nulls DEF clientWrite, TypeOK, Resident, PointersValid, ClientsConsistent
<1>2. TypeOK'
  BY <1>0, <1>1 DEF TypeOK, DiskTypeOK, diskVars, clientWrite, Use, Fault
<1>3. TableExact' /\ LruExact' /\ FreeFrames' /\ PinCountsExact'
  BY <1>0 DEF TableExact, LruExact, FreeFrames, PinCountsExact, Resident, clientWrite
<1>4. ClientsConsistent' /\ PointersValid'
  BY <1>0, <1>1 DEF ClientsConsistent, PointersValid, Resident, clientWrite, TypeOK
<1>5. \A x \in PageKey : Resident(x) /\ pageTable[x] = f => x = k
  BY <1>0, <1>1 DEF TableExact
<1>6. InFlight' = InFlight \cup {k}
  BY <1>0, <1>1 DEF InFlight, clientWrite, TypeOK
<1>7. CleanMatchesDisk'
  BY <1>0, <1>1, <1>5, <1>6 DEF CleanMatchesDisk, clientWrite, Resident, TypeOK, diskVars
<1>8. BeyondEndZero'
  BY <1>0, <1>1, <1>5 DEF BeyondEndZero, clientWrite, Resident, TypeOK, diskVars, InFile
<1>9. QED BY <1>2, <1>3, <1>4, <1>7, <1>8 DEF IndInv

-------------------------------------------------------------------------------
(* Operations that write pages *)

\* writePage changes exactly the pages it is given, and brings them inside
\* their file.
LEMMA WritePages ==
  ASSUME DiskTypeOK, NEW S \in SUBSET PageKey, NEW content \in [S -> Data],
         writePages(S, content)
  PROVE  /\ DiskTypeOK'
         /\ \A x \in PageKey : disk'[x] = IF x \in S THEN content[x] ELSE disk[x]
         /\ \A x \in PageKey : ~InFile(x)' => ~InFile(x) /\ x \notin S
         /\ UNCHANGED <<files, nextFileId>>
<1>1. DiskTypeOK'
  BY DEF DiskTypeOK, writePages
<1>2. \A x \in PageKey : disk'[x] = IF x \in S THEN content[x] ELSE disk[x]
  BY DEF writePages
<1>3. ASSUME NEW x \in PageKey, ~InFile(x)' PROVE ~InFile(x) /\ x \notin S
  <2>1. x[1] \in File /\ x[2] \in Int
    BY Nulls, DiskAssumption
  <2>2. pageCount[x[1]] \in Int /\ pageCount'[x[1]] \in Int
    BY <1>1, <2>1 DEF DiskTypeOK
  <2>3. /\ pageCount[x[1]] <= pageCount'[x[1]]
        /\ x \in S => x[2] + 1 <= pageCount'[x[1]]
    BY <2>1 DEF writePages, countAfter
  <2>4. QED BY <1>3, <2>1, <2>2, <2>3 DEF InFile
<1>4. QED BY <1>1, <1>2, <1>3 DEF writePages

\* Flushing dirty pages keeps the invariant, and changes no page's value.
LEMMA FlushedKeeps ==
  ASSUME IndInv, NEW S \in SUBSET DirtyPages, flushed(S), fault' \in Fault
  PROVE  IndInv' /\ UNCHANGED <<store, files, held>>
<1>0. TypeOK /\ TableExact /\ LruExact /\ FreeFrames /\ ClientsConsistent
      /\ PointersValid /\ PinCountsExact /\ CleanMatchesDisk /\ BeyondEndZero
  BY DEF IndInv
<1>1. PICK copy \in Copies(S) : writePages(S, copy)
  BY DEF flushed
<1>2. S \in SUBSET PageKey /\ copy \in [S -> Data]
  BY DEF DirtyPages, Copies
<1>3. /\ DiskTypeOK'
      /\ \A x \in PageKey : disk'[x] = IF x \in S THEN copy[x] ELSE disk[x]
      /\ \A x \in PageKey : ~InFile(x)' => ~InFile(x) /\ x \notin S
      /\ UNCHANGED <<files, nextFileId>>
  BY <1>0, <1>1, <1>2, WritePages DEF TypeOK
<1>4. TypeOK'
  BY <1>0, <1>3 DEF TypeOK, flushed, clientVars
<1>5. TableExact' /\ LruExact' /\ FreeFrames' /\ PinCountsExact'
  BY <1>0 DEF TableExact, LruExact, FreeFrames, PinCountsExact, Resident, flushed, clientVars
<1>6. ClientsConsistent' /\ PointersValid'
  BY <1>0 DEF ClientsConsistent, PointersValid, Resident, flushed, clientVars
<1>7. CleanMatchesDisk'
  <2>1. SUFFICES ASSUME NEW x \in PageKey, Resident(x), ~isDirty'[pageTable[x]],
                        x \notin InFlight
                 PROVE  disk'[x] = data[pageTable[x]]
    BY DEF CleanMatchesDisk, Resident, InFlight, flushed, clientVars
  <2>2. CASE x \in S
    BY <1>2, <1>3, <2>1, <2>2 DEF Copies
  <2>3. CASE x \notin S
    <3>1. \A y \in S : pageTable[y] # pageTable[x]
      BY <1>0, <1>2, <2>1, <2>3 DEF TableExact, DirtyPages, Resident
    <3>2. ~isDirty[pageTable[x]]
      BY <1>0, <2>1, <3>1, Nulls DEF flushed, TypeOK, Resident
    <3>3. QED BY <1>0, <1>3, <2>1, <2>3, <3>2 DEF CleanMatchesDisk
  <2>4. QED BY <2>2, <2>3
<1>8. BeyondEndZero'
  BY <1>0, <1>3 DEF BeyondEndZero, Resident, flushed
<1>9. UNCHANGED <<store, files, held>>
  <2>1. \A x \in PageKey : ~Resident(x) => disk'[x] = disk[x]
    BY <1>3 DEF DirtyPages
  <2>2. QED BY <1>3, <2>1 DEF store, Resident, flushed, clientVars
<1>10. QED BY <1>4, <1>5, <1>6, <1>7, <1>8, <1>9 DEF IndInv

\* findVictimFrame returns a frame nobody uses, and takes it off its list.
LEMMA Victim ==
  ASSUME IndInv, CanEvict, findVictimFrame
  PROVE  /\ victim \in Frame /\ pinCount[victim] = 0
         /\ \A c \in Client : ptr[c] # victim
         /\ \A x \in PageKey : (pageTable[x] = victim) <=> (Resident(x) /\ x = frameKey[victim])
         /\ frameKey[victim] \in PageKey => Resident(frameKey[victim])
         /\ lruList' \in Seq(Frame) /\ IsInjective(lruList')
         /\ ToSet(lruList') = ToSet(lruList) \ {victim}
         /\ freeList' \in Seq(Frame) /\ IsInjective(freeList')
         /\ ToSet(freeList') = ToSet(freeList) \ {victim}
<1>0. TypeOK /\ TableExact /\ LruExact /\ FreeFrames /\ PinCountsExact
  BY DEF IndInv
<1>1. /\ lruList \in Seq(Frame) /\ IsInjective(lruList)
      /\ freeList \in Seq(Frame) /\ IsInjective(freeList)
  BY <1>0 DEF TypeOK, LruExact, FreeFrames
<1>2. \A f \in ToSet(lruList) : pinCount[f] = 0 /\ f \in Frame /\ frameKey[f] \in PageKey
                                /\ pageTable[frameKey[f]] = f
  BY <1>0, Nulls DEF LruExact, TableExact, Resident
<1>3. \A f \in ToSet(freeList) : f \in Frame /\ frameKey[f] = NoPage /\ pinCount[f] = 0
  BY <1>0, <1>1 DEF FreeFrames, ToSet
<1>4. /\ victim \in ToSet(lruList) \cup ToSet(freeList)
      /\ lruList' \in Seq(Frame) /\ IsInjective(lruList')
      /\ ToSet(lruList') = ToSet(lruList) \ {victim}
      /\ freeList' \in Seq(Frame) /\ IsInjective(freeList')
      /\ ToSet(freeList') = ToSet(freeList) \ {victim}
  <2>1. CASE freeList # <<>>
    <3>1. /\ Head(freeList) \in ToSet(freeList)
          /\ Tail(freeList) \in Seq(Frame)
          /\ IsInjective(Tail(freeList))
          /\ ToSet(Tail(freeList)) = ToSet(freeList) \ {Head(freeList)}
      BY <1>1, <2>1, HeadTail
    <3>2. victim = Head(freeList) /\ freeList' = Tail(freeList) /\ lruList' = lruList
      BY <2>1 DEF victim, findVictimFrame
    <3>3. victim \notin ToSet(lruList)
      BY <1>2, <1>3, <3>1, <3>2, Nulls
    <3>4. QED BY <1>1, <3>1, <3>2, <3>3
  <2>2. CASE freeList = <<>>
    <3>1. lruList # <<>>
      BY <2>2 DEF CanEvict
    <3>2. /\ Last(lruList) \in ToSet(lruList)
          /\ Front(lruList) \in Seq(Frame)
          /\ IsInjective(Front(lruList))
          /\ ToSet(Front(lruList)) = ToSet(lruList) \ {Last(lruList)}
      BY <1>1, <3>1, FrontLast
    <3>3. victim = Last(lruList) /\ lruList' = Front(lruList) /\ freeList' = freeList
      BY <2>2 DEF victim, findVictimFrame
    <3>4. victim \notin ToSet(freeList)
      BY <1>2, <1>3, <3>2, <3>3, Nulls
    <3>5. QED BY <1>1, <3>2, <3>3, <3>4
  <2>3. QED BY <2>1, <2>2
<1>5. victim \in Frame /\ pinCount[victim] = 0
  BY <1>2, <1>3, <1>4
<1>6. \A c \in Client : ptr[c] # victim
  BY <1>0, <1>5, PinsAreUsers
<1>7. frameKey[victim] \in PageKey => pageTable[frameKey[victim]] = victim
  BY <1>2, <1>3, <1>4, Nulls
<1>8. \A x \in PageKey : (pageTable[x] = victim) <=> (Resident(x) /\ x = frameKey[victim])
  BY <1>0, <1>5, <1>7, Nulls DEF TableExact, Resident
<1>9. QED BY <1>4, <1>5, <1>6, <1>7, <1>8, Nulls DEF Resident

\* fetchPage of a page that is not resident keeps the invariant, and changes no
\* page's value.
LEMMA FetchLoadKeeps ==
  ASSUME IndInv, NEW c \in Client, NEW k \in PageKey, NEW w \in BOOLEAN,
         fetchLoad(c, k, w)
  PROVE  IndInv' /\ store' = store /\ files' = files
<1> DEFINE f == victim
           old == frameKey[f]
           W == WriteBack(f)
<1>0. TypeOK /\ TableExact /\ LruExact /\ FreeFrames /\ ClientsConsistent
      /\ PointersValid /\ PinCountsExact /\ CleanMatchesDisk /\ BeyondEndZero
  BY DEF IndInv
<1>1. /\ f \in Frame /\ pinCount[f] = 0
      /\ \A x \in Client : ptr[x] # f
      /\ \A x \in PageKey : (pageTable[x] = f) <=> (Resident(x) /\ x = old)
      /\ old \in PageKey => Resident(old)
      /\ lruList' \in Seq(Frame) /\ IsInjective(lruList')
      /\ ToSet(lruList') = ToSet(lruList) \ {f}
      /\ freeList' \in Seq(Frame) /\ IsInjective(freeList')
      /\ ToSet(freeList') = ToSet(freeList) \ {f}
  BY Victim DEF fetchLoad
<1> HIDE DEF f
<1>2. /\ writePages(W, [x \in W |-> data[f]])
      /\ data' = [data EXCEPT ![f] = disk[k]]
      /\ frameKey' = [frameKey EXCEPT ![f] = k]
      /\ isDirty' = [isDirty EXCEPT ![f] = w]
      /\ pinCount' = [pinCount EXCEPT ![f] = 1]
      /\ held' = [held EXCEPT ![c] = k]
      /\ ptr' = [ptr EXCEPT ![c] = f]
      /\ use' = [use EXCEPT ![c] = IF w THEN "write" ELSE "read"]
      /\ fault' = "none" /\ held[c] = NoPage /\ ~Resident(k)
  BY DEF fetchLoad, readPage, Pinned, f
<1>3. /\ pageTable' \in [PageKey -> Frame \cup {NoFrame}]
      /\ \A x \in PageKey : pageTable'[x] = IF x = k THEN f ELSE
                               IF x = old THEN NoFrame ELSE pageTable[x]
  BY <1>0, <1>1 DEF fetchLoad, evictEntry, f, TypeOK
<1>4. W \in SUBSET PageKey /\ W \subseteq {old} /\ k # old /\ k \notin W
      /\ [x \in W |-> data[f]] \in [W -> Data]
  BY <1>0, <1>1, <1>2 DEF WriteBack, TypeOK
<1> HIDE DEF W
<1>5. /\ DiskTypeOK'
      /\ \A x \in PageKey : disk'[x] = IF x \in W THEN data[f] ELSE disk[x]
      /\ \A x \in PageKey : ~InFile(x)' => ~InFile(x) /\ x \notin W
      /\ UNCHANGED <<files, nextFileId>>
  <2> DEFINE content == [x \in W |-> data[f]]
  <2>1. DiskTypeOK /\ writePages(W, content) /\ content \in [W -> Data]
    BY <1>0, <1>2, <1>4 DEF TypeOK
  <2>2. \A x \in W : content[x] = data[f]
    OBVIOUS
  <2> HIDE DEF content
  <2>3. QED BY <1>4, <2>1, <2>2, WritePages
<1>6. TypeOK'
  BY <1>0, <1>1, <1>2, <1>3, <1>5 DEF TypeOK, Use, Fault, DiskTypeOK
<1>7. TableExact'
  BY <1>0, <1>1, <1>2, <1>3 DEF TableExact, Resident, TypeOK
<1>8. LruExact'
  <2>1. ASSUME NEW g \in Frame, g # f
        PROVE  (\E x \in PageKey : pageTable'[x] = g) <=> (\E x \in PageKey : pageTable[x] = g)
    BY <1>1, <1>2, <1>3, <2>1, Nulls DEF Resident
  <2>2. \A g \in Frame : pinCount'[g] = IF g = f THEN 1 ELSE pinCount[g]
    BY <1>0, <1>1, <1>2 DEF TypeOK
  <2>3. ASSUME NEW g
        PROVE  g \in ToSet(lruList') <=>
                 g \in Frame /\ pinCount'[g] = 0 /\ \E x \in PageKey : pageTable'[x] = g
    BY <1>0, <1>1, <2>1, <2>2, <2>3 DEF LruExact
  <2>4. QED BY <1>1, <2>3 DEF LruExact
<1>9. FreeFrames'
  <2>1. \A g \in ToSet(freeList') : g \in Frame /\ g # f /\ g \in ToSet(freeList)
    BY <1>1 DEF ToSet
  <2>2. QED BY <1>0, <1>1, <1>2, <2>1 DEF FreeFrames, TypeOK
<1>10. ptr[c] = NoFrame /\ \A x \in Client : held[x] # k /\ (held[x] # NoPage => held[x] # old)
  <2>1. ptr[c] = NoFrame
    BY <1>0, <1>2 DEF ClientsConsistent
  <2>2. ASSUME NEW x \in Client, held[x] # NoPage PROVE held[x] # k /\ held[x] # old
    <3>1. held[x] \in PageKey /\ Resident(held[x]) /\ pageTable[held[x]] # f
      BY <1>0, <1>1, <2>2 DEF PointersValid, TypeOK
    <3>2. QED BY <1>1, <1>2, <3>1
  <2>3. QED BY <2>1, <2>2, Nulls
<1>11. ClientsConsistent'
  BY <1>0, <1>1, <1>2, <1>10, Nulls DEF ClientsConsistent, TypeOK
<1>12. PointersValid'
  <2>1. SUFFICES ASSUME NEW x \in Client, held'[x] # NoPage
                 PROVE  pageTable'[held'[x]] # NoFrame /\ ptr'[x] = pageTable'[held'[x]]
                        /\ frameKey'[ptr'[x]] = held'[x]
    BY DEF PointersValid, Resident
  <2>2. CASE x = c
    BY <1>0, <1>1, <1>2, <1>3, <2>2, Nulls DEF TypeOK
  <2>3. CASE x # c
    <3>1. held'[x] = held[x] /\ ptr'[x] = ptr[x] /\ held[x] \in PageKey
      BY <1>0, <1>2, <2>1, <2>3 DEF TypeOK
    <3>2. pageTable'[held[x]] = pageTable[held[x]] /\ ptr[x] \in Frame
      BY <1>0, <1>3, <1>10, <2>1, <3>1 DEF PointersValid, TypeOK, Resident
    <3>3. QED BY <1>0, <1>1, <1>2, <2>1, <3>1, <3>2 DEF PointersValid, TypeOK, Resident
  <2>4. QED BY <2>2, <2>3
<1>13. PinCountsExact'
  <2>1. ptr \in [Client -> Frame \cup {NoFrame}]
    BY <1>0 DEF TypeOK
  <2>2. \A g \in Frame : Cardinality(Users(ptr', g)) =
             IF g = f THEN Cardinality(Users(ptr, g)) + 1 ELSE Cardinality(Users(ptr, g))
    <3>1. f \in Frame /\ ptr' = [ptr EXCEPT ![c] = f] /\ ptr[c] = NoFrame
      BY <1>1, <1>2, <1>10
    <3> HIDE DEF f
    <3>2. \A g \in Frame : Cardinality(Users([ptr EXCEPT ![c] = f], g)) =
               IF g = f THEN Cardinality(Users(ptr, g)) + 1 ELSE Cardinality(Users(ptr, g))
      BY <2>1, <3>1, PinAdds, Zenon
    <3>3. QED BY <3>1, <3>2, Zenon
  <2>3. \A g \in Frame : pinCount'[g] = IF g = f THEN pinCount[g] + 1 ELSE pinCount[g]
    BY <1>0, <1>1, <1>2 DEF TypeOK
  <2>4. \A g \in Frame : pinCount'[g] = Cardinality(Users(ptr', g))
    BY <1>0, <2>2, <2>3, PinsAreUsers
  <2>5. QED BY <2>4 DEF PinCountsExact, Users
<1>14. InFlight' = InFlight
  BY <1>0, <1>2, Nulls DEF InFlight, TypeOK
<1>15. \A x \in PageKey \ {k, old} : Resident(x) =>
          pageTable'[x] = pageTable[x] /\ data'[pageTable[x]] = data[pageTable[x]]
          /\ isDirty'[pageTable[x]] = isDirty[pageTable[x]]
  BY <1>0, <1>1, <1>2, <1>3, Nulls DEF Resident, TypeOK
<1>16. data'[f] = disk[k] /\ disk'[k] = disk[k]
  BY <1>0, <1>1, <1>2, <1>4, <1>5 DEF TypeOK
<1>17. CleanMatchesDisk'
  <2>1. SUFFICES ASSUME NEW x \in PageKey, pageTable'[x] # NoFrame, ~isDirty'[pageTable'[x]],
                        x \notin InFlight
                 PROVE  disk'[x] = data'[pageTable'[x]]
    BY <1>14 DEF CleanMatchesDisk, Resident
  <2>2. CASE x = k
    BY <1>3, <1>16, <2>2
  <2>3. CASE x # k
    <3>1. x # old /\ Resident(x)
      BY <1>3, <2>1, <2>3 DEF Resident
    <3>2. QED BY <1>0, <1>4, <1>5, <1>15, <2>1, <2>3, <3>1 DEF CleanMatchesDisk
  <2>4. QED BY <2>2, <2>3
<1>18. BeyondEndZero'
  <2>1. SUFFICES ASSUME NEW x \in PageKey, ~InFile(x)'
                 PROVE  disk'[x] = Zero /\ (pageTable'[x] # NoFrame => data'[pageTable'[x]] = Zero)
    BY DEF BeyondEndZero, Resident
  <2>2. ~InFile(x) /\ disk'[x] = disk[x]
    BY <1>5, <2>1
  <2>3. disk'[x] = Zero
    BY <1>0, <2>2 DEF BeyondEndZero
  <2>4. CASE x = k
    BY <1>3, <1>16, <2>3, <2>4
  <2>5. CASE x # k
    <3>1. pageTable'[x] # NoFrame => x # old /\ Resident(x)
      BY <1>3, <2>5 DEF Resident
    <3>2. QED BY <1>0, <1>15, <2>2, <2>3, <2>5, <3>1 DEF BeyondEndZero
  <2>6. QED BY <2>3, <2>4, <2>5
<1>19. store' = store
  <2>1. SUFFICES ASSUME NEW x \in PageKey
                 PROVE (IF pageTable'[x] # NoFrame THEN data'[pageTable'[x]] ELSE disk'[x])
                       = IF pageTable[x] # NoFrame THEN data[pageTable[x]] ELSE disk[x]
    BY DEF store, Resident
  <2>2. CASE x = k
    BY <1>1, <1>2, <1>3, <1>16, <2>2, Nulls DEF Resident
  <2>3. CASE x # k /\ x # old
    BY <1>3, <1>4, <1>5, <1>15, <2>3 DEF Resident
  <2>4. CASE x # k /\ x = old
    <3>1. pageTable[x] = f /\ pageTable'[x] = NoFrame
      BY <1>1, <1>3, <2>4
    <3>2. CASE isDirty[f]
      <4>1. W = {x}
        BY <2>4, <3>2, Nulls DEF W, WriteBack
      <4>2. QED BY <1>1, <1>5, <3>1, <4>1, Nulls
    <3>3. CASE ~isDirty[f]
      <4>1. W = {}
        BY <3>3 DEF W, WriteBack
      <4>2. x \notin InFlight
        BY <1>0, <1>10, <2>4, Nulls DEF InFlight
      <4>3. disk[x] = data[f]
        BY <1>0, <1>1, <3>1, <3>3, <4>2, Nulls DEF CleanMatchesDisk, Resident
      <4>4. QED BY <1>1, <1>5, <3>1, <4>1, <4>3, Nulls
    <3>4. QED BY <3>2, <3>3
  <2>5. QED BY <2>2, <2>3, <2>4
<1>20. QED BY <1>5, <1>6, <1>7, <1>8, <1>9, <1>11, <1>12, <1>13, <1>17, <1>18, <1>19 DEF IndInv

\* A fetchPage that throws on a file that is not open keeps the invariant; the
\* only value it can lose is that of a page of such a file.
LEMMA FetchThrowsKeeps ==
  ASSUME IndInv, NEW c \in Client, NEW k \in PageKey, fetchThrows(c, k)
  PROVE  /\ IndInv'
         /\ UNCHANGED <<files, held>>
         /\ \/ store' = store
            \/ \E x \in PageKey, d \in Data :
                 /\ FileOf(x) \notin files
                 /\ \A b \in Client : held[b] # x
                 /\ store' = [store EXCEPT ![x] = d]
<1> DEFINE f == victim
           old == frameKey[f]
           V == {x \in WriteBack(f) : IsOpen(x)}
<1>0. TypeOK /\ TableExact /\ LruExact /\ FreeFrames /\ ClientsConsistent
      /\ PointersValid /\ PinCountsExact /\ CleanMatchesDisk /\ BeyondEndZero
  BY DEF IndInv
<1>1. /\ f \in Frame /\ pinCount[f] = 0
      /\ \A x \in Client : ptr[x] # f
      /\ \A x \in PageKey : (pageTable[x] = f) <=> (Resident(x) /\ x = old)
      /\ old \in PageKey => Resident(old)
      /\ lruList' \in Seq(Frame) /\ IsInjective(lruList')
      /\ ToSet(lruList') = ToSet(lruList) \ {f}
      /\ freeList' \in Seq(Frame) /\ IsInjective(freeList')
      /\ ToSet(freeList') = ToSet(freeList) \ {f}
  BY Victim DEF fetchThrows
<1> HIDE DEF f
<1>2. /\ fault' = "badFile"
      /\ UNCHANGED <<frameKey, data, isDirty, pinCount, held, ptr, use>>
  BY DEF fetchThrows, clientVars
<1>3. /\ pageTable' \in [PageKey -> Frame \cup {NoFrame}]
      /\ \A x \in PageKey : pageTable'[x] = IF x = old THEN NoFrame ELSE pageTable[x]
  BY <1>0 DEF fetchThrows, evictEntry, f, TypeOK
<1>4. V \in SUBSET PageKey /\ V \subseteq {old}
  BY <1>0, <1>1 DEF WriteBack, TypeOK
<1>5. /\ DiskTypeOK'
      /\ \A x \in PageKey : disk'[x] = IF x \in V THEN data[f] ELSE disk[x]
      /\ \A x \in PageKey : ~InFile(x)' => ~InFile(x) /\ x \notin V
      /\ UNCHANGED <<files, nextFileId>>
  <2> DEFINE content == [x \in V |-> data[f]]
             full == [x \in WriteBack(f) |-> data[f]]
  <2>1. \A x \in V : content[x] = data[f] /\ full[x] = data[f]
    OBVIOUS
  <2>2. DiskTypeOK /\ writePages(V, full) /\ content \in [V -> Data]
    BY <1>0, <1>1 DEF TypeOK, fetchThrows, f
  <2> HIDE DEF V, content, full
  <2>3. writePages(V, content)
    BY <2>1, <2>2 DEF writePages
  <2>4. QED BY <1>4, <2>1, <2>2, <2>3, WritePages
<1>6. TypeOK'
  BY <1>0, <1>1, <1>2, <1>3, <1>5 DEF TypeOK, Use, Fault, DiskTypeOK
<1>7. TableExact'
  BY <1>0, <1>1, <1>2, <1>3 DEF TableExact, Resident, TypeOK
<1>8. LruExact'
  <2>1. ASSUME NEW g \in Frame
        PROVE  (\E x \in PageKey : pageTable'[x] = g)
                 <=> (g # f /\ \E x \in PageKey : pageTable[x] = g)
    BY <1>1, <1>2, <1>3, <2>1, Nulls DEF Resident
  <2>2. ASSUME NEW g
        PROVE  g \in ToSet(lruList') <=>
                 g \in Frame /\ pinCount'[g] = 0 /\ \E x \in PageKey : pageTable'[x] = g
    BY <1>0, <1>1, <1>2, <2>1, <2>2 DEF LruExact
  <2>3. QED BY <1>1, <2>2 DEF LruExact
<1>9. FreeFrames' /\ PinCountsExact'
  BY <1>0, <1>1, <1>2 DEF FreeFrames, PinCountsExact
<1>10. \A x \in Client : held[x] # NoPage => held[x] # old
  BY <1>0, <1>1 DEF PointersValid, TypeOK
<1>11. ClientsConsistent' /\ PointersValid'
  <2>1. ClientsConsistent'
    BY <1>0, <1>2 DEF ClientsConsistent
  <2>2. \A x \in Client : held[x] # NoPage => pageTable'[held[x]] = pageTable[held[x]]
    BY <1>0, <1>3, <1>10 DEF TypeOK
  <2>3. PointersValid'
    BY <1>0, <1>2, <2>2 DEF PointersValid, Resident
  <2>4. QED BY <2>1, <2>3
<1>12. InFlight' = InFlight
  BY <1>2 DEF InFlight
<1>13. CleanMatchesDisk'
  BY <1>0, <1>2, <1>3, <1>4, <1>5, <1>12 DEF CleanMatchesDisk, Resident
<1>14. BeyondEndZero'
  BY <1>0, <1>2, <1>3, <1>5 DEF BeyondEndZero, Resident
<1>15. \A x \in PageKey : x # old => store'[x] = store[x]
  BY <1>2, <1>3, <1>4, <1>5 DEF store, Resident
<1>16. store' = store \/ (old \in PageKey /\ store' = [store EXCEPT ![old] = disk[old]]
                            /\ FileOf(old) \notin files)
  <2>1. CASE old \notin PageKey
    BY <1>15, <2>1 DEF store
  <2>2. CASE old \in PageKey
    <3>1. store[old] = data[f] /\ store'[old] = disk'[old]
      BY <1>1, <1>2, <1>3, <2>2, Nulls DEF store, Resident
    <3>2. CASE ~isDirty[f]
      <4>1. old \notin InFlight
        BY <1>10, <2>2, Nulls DEF InFlight
      <4>2. disk[old] = data[f]
        BY <1>0, <1>1, <2>2, <3>2, <4>1, Nulls DEF CleanMatchesDisk, Resident
      <4>3. disk'[old] = data[f]
        BY <1>5, <2>2, <4>2
      <4>4. QED BY <1>15, <3>1, <4>3 DEF store
    <3>3. CASE isDirty[f] /\ IsOpen(old)
      <4>1. old \in V
        BY <2>2, <3>3, Nulls DEF WriteBack
      <4>2. QED BY <1>5, <1>15, <2>2, <3>1, <4>1 DEF store
    <3>4. CASE ~IsOpen(old)
      <4>1. old \notin V
        BY <3>4
      <4>2. disk'[old] = disk[old]
        BY <1>5, <2>2, <4>1
      <4>3. store' = [store EXCEPT ![old] = disk[old]]
        BY <1>15, <2>2, <3>1, <4>2 DEF store
      <4>4. QED BY <2>2, <3>4, <4>3 DEF IsOpen, FileOf
    <3>5. QED BY <3>2, <3>3, <3>4
  <2>3. QED BY <2>1, <2>2
<1>17. old \in PageKey => disk[old] \in Data /\ \A b \in Client : held[b] # old
  BY <1>0, <1>10, Nulls DEF TypeOK, DiskTypeOK
<1>18. UNCHANGED <<files, held>>
  BY <1>2, <1>5
<1>19. IndInv'
  BY <1>6, <1>7, <1>8, <1>9, <1>11, <1>13, <1>14 DEF IndInv
<1>20. QED BY <1>16, <1>17, <1>18, <1>19

\* createFile, closeFile and allocateNewPage keep the invariant, and change no
\* page's value.
LEMMA DiskCallKeeps ==
  ASSUME IndInv, diskCall
  PROVE  /\ IndInv' /\ store' = store /\ held' = held
         /\ \/ files' = files
            \/ \E f \in File : files' = files \cup {f} \/ files' = files \ {f}
<1>0. TypeOK /\ TableExact /\ LruExact /\ FreeFrames /\ ClientsConsistent
      /\ PointersValid /\ PinCountsExact /\ CleanMatchesDisk /\ BeyondEndZero
  BY DEF IndInv
<1>1. UNCHANGED <<frameKey, data, isDirty, pinCount, pageTable, lruList, freeList,
                  held, ptr, use, fault>>
  BY DEF diskCall, poolVars, clientVars
<1>2. /\ DiskTypeOK'
      /\ \A x \in PageKey : disk'[x] = disk[x] \/ (~InFile(x) /\ disk'[x] = Zero)
      /\ \A x \in PageKey : ~InFile(x)' => ~InFile(x)
      /\ \/ files' = files
         \/ \E f \in File : files' = files \cup {f} \/ files' = files \ {f}
  <2>0. DiskTypeOK
    BY <1>0 DEF TypeOK
  <2>1. CASE createFile
    BY <2>0, <2>1, DiskAssumption DEF createFile, DiskTypeOK, InFile, File
  <2>2. CASE \E f \in File : closeFile(f)
    BY <2>0, <2>2 DEF closeFile, DiskTypeOK, InFile
  <2>3. ASSUME NEW f \in File, allocateNewPage(f)
        PROVE  /\ DiskTypeOK'
               /\ \A x \in PageKey : disk'[x] = disk[x] \/ (~InFile(x) /\ disk'[x] = Zero)
               /\ \A x \in PageKey : ~InFile(x)' => ~InFile(x)
               /\ files' = files
    <3> DEFINE n == pageCount[f]
    <3>1. n \in 0 .. MaxPages - 1 /\ <<f, n>> \in PageKey
      BY <2>0, <2>3, DiskAssumption DEF allocateNewPage, DiskTypeOK, PageKey, PageNum
    <3>2. DiskTypeOK'
      BY <2>0, <2>3, <3>1, DiskAssumption DEF allocateNewPage, DiskTypeOK
    <3>3. ASSUME NEW x \in PageKey, disk'[x] # disk[x] PROVE ~InFile(x) /\ disk'[x] = Zero
      <4>1. x = <<f, n>> /\ disk'[x] = Zero
        BY <2>0, <2>3, <3>1, <3>3 DEF allocateNewPage, DiskTypeOK
      <4>2. QED BY <3>1, <4>1 DEF InFile
    <3>4. ASSUME NEW x \in PageKey, ~InFile(x)' PROVE ~InFile(x)
      <4>1. x[1] \in File /\ x[2] \in Int
        BY Nulls, DiskAssumption
      <4>2. pageCount[x[1]] \in Int /\ pageCount'[x[1]] \in Int
            /\ pageCount[x[1]] <= pageCount'[x[1]]
        BY <2>0, <2>3, <4>1, DiskAssumption DEF allocateNewPage, DiskTypeOK
      <4>3. QED BY <3>4, <4>1, <4>2 DEF InFile
    <3>5. QED BY <2>3, <3>2, <3>3, <3>4 DEF allocateNewPage
  <2>4. QED BY <2>1, <2>2, <2>3 DEF diskCall
<1>3. \A x \in PageKey : disk'[x] = disk[x]
  BY <1>0, <1>2 DEF BeyondEndZero
<1>4. TypeOK'
  BY <1>0, <1>1, <1>2 DEF TypeOK
<1>5. TableExact' /\ LruExact' /\ FreeFrames' /\ PinCountsExact'
  BY <1>0, <1>1 DEF TableExact, LruExact, FreeFrames, PinCountsExact, Resident
<1>6. ClientsConsistent' /\ PointersValid'
  BY <1>0, <1>1 DEF ClientsConsistent, PointersValid, Resident
<1>7. CleanMatchesDisk'
  BY <1>0, <1>1, <1>3 DEF CleanMatchesDisk, Resident, InFlight
<1>8. BeyondEndZero'
  BY <1>0, <1>1, <1>2, <1>3 DEF BeyondEndZero, Resident
<1>9. store' = store
  BY <1>1, <1>3 DEF store, Resident
<1>10. QED BY <1>1, <1>2, <1>4, <1>5, <1>6, <1>7, <1>8, <1>9 DEF IndInv

-------------------------------------------------------------------------------
(* The theorems *)

\* Every step of the pool keeps the invariant and is a step of PageStore, or
\* leaves its variables alone.
LEMMA StepKeeps ==
  ASSUME IndInv, [Next]_vars
  PROVE  IndInv' /\ [Abs!Next]_(Abs!vars)
<1>1. ASSUME NEW c \in Client, NEW k \in PageKey, NEW w \in BOOLEAN, fetchHit(c, k, w)
      PROVE  IndInv' /\ [Abs!Next]_(Abs!vars)
  <2>1. IndInv'
    BY <1>1, FetchHitKeeps
  <2>2. Abs!Pin(c, k)
    BY <1>1 DEF Abs!Pin, fetchHit, Pinned, store, Resident, diskVars
  <2>3. QED BY <2>1, <2>2 DEF Abs!Next
<1>2. ASSUME NEW c \in Client, NEW k \in PageKey, NEW w \in BOOLEAN, fetchLoad(c, k, w)
      PROVE  IndInv' /\ [Abs!Next]_(Abs!vars)
  <2>1. IndInv' /\ store' = store /\ files' = files
    BY <1>2, FetchLoadKeeps
  <2>2. Abs!Pin(c, k)
    BY <1>2, <2>1 DEF Abs!Pin, fetchLoad, Pinned
  <2>3. QED BY <2>1, <2>2 DEF Abs!Next
<1>3. ASSUME NEW c \in Client, NEW k \in PageKey, fetchThrows(c, k)
      PROVE  IndInv' /\ [Abs!Next]_(Abs!vars)
  <2>1. IndInv' /\ UNCHANGED <<files, held>>
    BY <1>3, FetchThrowsKeeps
  <2>2. CASE store' = store
    BY <2>1, <2>2 DEF Abs!vars
  <2>3. CASE \E x \in PageKey, d \in Data :
               /\ FileOf(x) \notin files
               /\ \A b \in Client : held[b] # x
               /\ store' = [store EXCEPT ![x] = d]
    BY <2>1, <2>3 DEF Abs!Next, Abs!Forget
  <2>4. QED BY <1>3, <2>1, <2>2, <2>3, FetchThrowsKeeps
<1>4. ASSUME NEW c \in Client, NEW d \in Data, clientWrite(c, d)
      PROVE  IndInv' /\ [Abs!Next]_(Abs!vars)
  <2>1. IndInv'
    BY <1>4, WriteKeeps
  <2>2. /\ TypeOK /\ TableExact /\ held[c] \in PageKey /\ ptr[c] \in Frame
        /\ pageTable[held[c]] = ptr[c] /\ ptr[c] # NoFrame
    BY <1>4, Nulls DEF IndInv, TypeOK, ClientsConsistent, PointersValid, clientWrite, Resident
  <2>3. ASSUME NEW x \in PageKey
        PROVE  (IF Resident(x) THEN data'[pageTable[x]] ELSE disk[x])
                 = IF x = held[c] THEN d ELSE
                   IF Resident(x) THEN data[pageTable[x]] ELSE disk[x]
    BY <1>4, <2>2 DEF clientWrite, TypeOK, TableExact, Resident
  <2>4. Abs!Write(c, d)
    BY <1>4, <2>2, <2>3, Nulls DEF Abs!Write, clientWrite, store, Resident, diskVars
  <2>5. QED BY <2>1, <2>4 DEF Abs!Next
<1>5. ASSUME NEW c \in Client, NEW dirty \in BOOLEAN, unpinPage(c, dirty)
      PROVE  IndInv' /\ [Abs!Next]_(Abs!vars)
  <2>1. IndInv'
    BY <1>5, UnpinKeeps
  <2>2. Abs!Unpin(c)
    BY <1>5 DEF Abs!Unpin, unpinPage, store, Resident, diskVars
  <2>3. QED BY <2>1, <2>2 DEF Abs!Next
<1>6. ASSUME UNCHANGED <<diskVars, poolVars, clientVars>>, fault' \in Fault
      PROVE  IndInv' /\ [Abs!Next]_(Abs!vars)
  <2>1. TypeOK'
    BY <1>6 DEF IndInv, TypeOK, DiskTypeOK, diskVars, poolVars, clientVars
  <2>2. TableExact' /\ LruExact' /\ FreeFrames' /\ PinCountsExact'
    BY <1>6 DEF IndInv, TableExact, LruExact, FreeFrames, PinCountsExact, Resident,
       poolVars, clientVars
  <2>3. ClientsConsistent' /\ PointersValid' /\ CleanMatchesDisk' /\ BeyondEndZero'
    BY <1>6 DEF IndInv, ClientsConsistent, PointersValid, CleanMatchesDisk, BeyondEndZero,
       Resident, InFlight, InFile, diskVars, poolVars, clientVars
  <2>4. UNCHANGED <<store, files, held>>
    BY <1>6 DEF store, Resident, diskVars, poolVars, clientVars
  <2>5. QED BY <2>1, <2>2, <2>3, <2>4 DEF IndInv, Abs!vars
<1>7. ASSUME NEW S \in SUBSET DirtyPages, flushed(S), fault' \in Fault
      PROVE  IndInv' /\ [Abs!Next]_(Abs!vars)
  BY <1>7, FlushedKeeps DEF Abs!vars
<1>8. ASSUME NEW k \in PageKey, flushPage(k) PROVE IndInv' /\ [Abs!Next]_(Abs!vars)
  BY <1>6, <1>7, <1>8 DEF flushPage, Fault
<1>9. CASE flushAllPages \/ flushAllThrows
  BY <1>7, <1>9 DEF flushAllPages, flushAllThrows, Fault
<1>10. CASE diskCall
  <2>1. IndInv' /\ store' = store /\ held' = held
    BY <1>10, DiskCallKeeps
  <2>2. CASE files' = files
    BY <2>1, <2>2 DEF Abs!vars
  <2>3. CASE \E f \in File : files' = files \cup {f} \/ files' = files \ {f}
    BY <2>1, <2>3 DEF Abs!Next, Abs!Open, Abs!Close
  <2>4. QED BY <1>10, <2>1, <2>2, <2>3, DiskCallKeeps
<1>11. ASSUME NEW c \in Client, NEW k \in PageKey, fetchAllPinned(c, k)
       PROVE  IndInv' /\ [Abs!Next]_(Abs!vars)
  BY <1>6, <1>11 DEF fetchAllPinned, Fault
<1>12. CASE UNCHANGED vars
  BY <1>6, <1>12 DEF vars, IndInv, TypeOK
<1>13. QED BY <1>1, <1>2, <1>3, <1>4, <1>5, <1>8, <1>9, <1>10, <1>11, <1>12 DEF Next

\* The inductive invariant holds in every reachable state.
THEOREM PoolInvariant == Spec => []IndInv
<1>1. Init => IndInv
  BY InitEstablishes
<1>2. IndInv /\ [Next]_vars => IndInv'
  BY StepKeeps
<1>3. QED BY <1>1, <1>2, PTL DEF Spec

\* Type correctness of every variable of the buffer pool.
THEOREM PoolTypes == Spec => []TypeOK
<1>1. IndInv => TypeOK
  BY DEF IndInv
<1>2. QED BY <1>1, PoolInvariant, PTL

\* While a client has a page pinned, its pointer leads to the frame of that page:
\* no fetchPage evicts it.
THEOREM PinSafety == Spec => []PointersValid
<1>1. IndInv => PointersValid
  BY DEF IndInv
<1>2. QED BY <1>1, PoolInvariant, PTL

\* Pin counts are exact: as many fetchPage calls as unpinPage has not answered yet,
\* also after calls that threw.
THEOREM PinCounts == Spec => []PinCountsExact
<1>1. IndInv => PinCountsExact
  BY DEF IndInv
<1>2. QED BY <1>1, PoolInvariant, PTL

\* The LRU list has the resident frames that nobody pins, each of them once.
THEOREM LruList == Spec => []LruExact
<1>1. IndInv => LruExact
  BY DEF IndInv
<1>2. QED BY <1>1, PoolInvariant, PTL

\* A clean frame agrees with the disk: eviction without a write loses nothing.
THEOREM CleanFrames == Spec => []CleanMatchesDisk
<1>1. IndInv => CleanMatchesDisk
  BY DEF IndInv
<1>2. QED BY <1>1, PoolInvariant, PTL

\* The buffer pool implements the page store.
THEOREM PoolRefinement == Spec => ImplementsPageStore
<1>1. Init => Abs!Init
  BY DEF Init, DiskInit, Abs!Init, store, Resident
<1>2. IndInv /\ [Next]_vars => [Abs!Next]_(Abs!vars)
  BY StepKeeps
<1>3. QED BY <1>1, <1>2, PoolInvariant, PTL DEF Spec, ImplementsPageStore, Abs!Spec

\* When flushAllPages returns normally the disk holds the value of every page
\* that no client is writing.
THEOREM FlushAllIsDurable == Spec => FlushAllDurable
<1>1. IndInv /\ [Next]_vars =>
        [flushAllPages => \A k \in PageKey \ InFlight : disk'[k] = store[k]]_vars
  <2>1. SUFFICES ASSUME IndInv, flushAllPages, NEW k \in PageKey \ InFlight
                 PROVE  disk'[k] = store[k]
    OBVIOUS
  <2>2. PICK copy \in Copies(DirtyPages) : writePages(DirtyPages, copy)
    BY <2>1 DEF flushAllPages, flushed
  <2>3. disk'[k] = IF k \in DirtyPages THEN data[pageTable[k]] ELSE disk[k]
    BY <2>1, <2>2 DEF writePages, Copies
  <2>4. CASE k \in DirtyPages
    BY <2>3, <2>4 DEF DirtyPages, store
  <2>5. CASE k \notin DirtyPages
    BY <2>1, <2>3, <2>5 DEF DirtyPages, store, IndInv, CleanMatchesDisk
  <2>6. QED BY <2>4, <2>5
<1>2. QED BY <1>1, PoolInvariant, PTL DEF Spec, FlushAllDurable
====
