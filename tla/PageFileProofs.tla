---------------------------- MODULE PageFileProofs ---------------------------
(***************************************************************************)
(* One database file and one page of it.  For every number of pages and of *)
(* clients, no page is leaked or handed out twice, and as long as no       *)
(* client empties a file that has free pages, the used list is exact and   *)
(* clients see a store of pages.  For every page size, as long as no slot  *)
(* is opened over stale cells, a page is a store of records.               *)
(***************************************************************************)
EXTENDS PageFile, SlottedPage, StorageLemmas

\* What holds however clients use the file.
SoundInv == TypeOK /\ Numbered(file) /\ Bounded(file) /\ FreeExact(file)

\* What holds when they keep a page of a file that has free pages.
ListInv == SoundInv /\ (KeepOne => ListsExact(file))

\* A new file is sound.
LEMMA ListInvInit == Init => ListInv
<1> SUFFICES ASSUME Init PROVE ListInv
  OBVIOUS
<1>1. FreshPage \in Page
  BY EmptyDataAssumption, PageNumbers DEF FreshPage, Page
<1>2. TypeOK
  BY <1>1, NewFileType DEF Init, TypeOK
<1> QED
  BY <1>2, NewFileType, NewFileFree, NewFileLists DEF Init, ListInv, SoundInv

\* Allocation keeps the file sound.
LEMMA AllocateKeeps ==
    ASSUME ListInv, NEW c \in Holders, AllocatePage(c)
    PROVE  ListInv'
<1>1. /\ file \in FileImage /\ ~AllocateFails(file) /\ NewPageNumber(file) \in PageIds
      /\ file' = Allocated(file)
      /\ held' = [held EXCEPT ![c] = NewPage(file)]
  BY DEF ListInv, SoundInv, TypeOK, AllocatePage
<1>2. /\ file' \in FileImage /\ NewPage(file) \in Page
      /\ Numbered(file')
      /\ FreeExact(file') /\ Bounded(file')
  BY <1>1, AllocatedType, AllocatedFree DEF ListInv, SoundInv
<1>3. KeepOne => ListsExact(file')
  BY <1>1, AllocatedLists DEF ListInv
<1>4. held' \in [Holders -> Page]
  BY <1>1, <1>2 DEF ListInv, SoundInv, TypeOK
<1> QED
  BY <1>2, <1>3, <1>4 DEF ListInv, SoundInv, TypeOK

\* The copy that a client writes back is a page with a number.
LEMMA WritesPage ==
    ASSUME ListInv, NEW c \in Holders, WritePage(c)
    PROVE  /\ file \in FileImage
           /\ held[c] \in Page /\ held[c].num \in PageIds
           /\ ~WriteThrows(file, held[c])
           /\ file' = Written(file, held[c])
           /\ held' = held
<1>1. /\ held[c] \in Page /\ held[c].num # NoPage
      /\ file \in FileImage
  BY DEF ListInv, SoundInv, TypeOK, WritePage
<1>2. held[c].num \in PageIds
  BY <1>1, MaxPagesAssumption DEF Page, PageRefs, PageIds, NoPage
<1> QED
  BY <1>1, <1>2 DEF WritePage

\* Writing a copy back keeps the file sound.
LEMMA WriteKeeps ==
    ASSUME ListInv, NEW c \in Holders, WritePage(c)
    PROVE  ListInv'
<1>1. /\ file \in FileImage
      /\ held[c] \in Page /\ held[c].num \in PageIds
      /\ ~WriteThrows(file, held[c])
      /\ file' = Written(file, held[c])
      /\ held' = held
  BY WritesPage
<1>2. /\ file' \in FileImage /\ Numbered(file')
      /\ FreeExact(file') /\ Bounded(file')
  BY <1>1, WrittenType, WrittenFree DEF ListInv, SoundInv
<1>3. KeepOne => ListsExact(file')
  BY <1>1, WrittenLists DEF ListInv
<1> QED
  BY <1>1, <1>2, <1>3 DEF ListInv, SoundInv, TypeOK

\* Reading or editing a copy leaves the file alone.
LEMMA CopyKeeps ==
    ASSUME ListInv, NEW c \in Holders,
           (\E p \in PageIds : ReadPage(c, p)) \/ (\E d \in Data : EditCopy(c, d))
    PROVE  ListInv'
<1>1. file' = file /\ file \in FileImage /\ held \in [Holders -> Page]
  BY DEF ListInv, SoundInv, TypeOK, ReadPage, EditCopy
<1>2. held' \in [Holders -> Page]
  <2>1. ASSUME NEW p \in PageIds, ReadPage(c, p) PROVE held' \in [Holders -> Page]
    BY <1>1, <2>1, FileParts DEF ReadPage
  <2>2. ASSUME NEW d \in Data, EditCopy(c, d) PROVE held' \in [Holders -> Page]
    BY <1>1, <2>2 DEF EditCopy, Page
  <2> QED
    BY <2>1, <2>2
<1> QED
  BY <1>1, <1>2 DEF ListInv, SoundInv, TypeOK

\* Deletion keeps the file sound.
LEMMA DeleteKeeps ==
    ASSUME ListInv, NEW p \in PageIds, DeletePage(p)
    PROVE  ListInv'
<1>1. /\ file \in FileImage /\ ~DeleteFails(file, p)
      /\ KeepOne => Readable(file) # {p} \/ file.hdr.num_free_pages = 0
      /\ file' = Deleted(file, p)
      /\ held' = held
  BY DEF ListInv, SoundInv, TypeOK, DeletePage
<1>2. /\ file' \in FileImage /\ Numbered(file')
      /\ FreeExact(file') /\ Bounded(file')
  BY <1>1, DeletedType, DeletedFree DEF ListInv, SoundInv
<1>3. KeepOne => ListsExact(file')
  BY <1>1, DeletedLists DEF ListInv
<1> QED
  BY <1>1, <1>2, <1>3 DEF ListInv, SoundInv, TypeOK

\* Every step keeps the file sound.
LEMMA ListInvNext == ListInv /\ [Next]_vars => ListInv'
<1> SUFFICES ASSUME ListInv, [Next]_vars PROVE ListInv'
  OBVIOUS
<1>1. CASE UNCHANGED vars
  BY <1>1 DEF vars, ListInv, SoundInv, TypeOK
<1>2. ASSUME NEW c \in Holders, AllocatePage(c) PROVE ListInv'
  BY <1>2, AllocateKeeps
<1>3. ASSUME NEW c \in Holders, WritePage(c) PROVE ListInv'
  BY <1>3, WriteKeeps
<1>4. ASSUME NEW c \in Holders,
             (\E p \in PageIds : ReadPage(c, p)) \/ (\E d \in Data : EditCopy(c, d))
      PROVE  ListInv'
  BY <1>4, CopyKeeps
<1>5. ASSUME NEW p \in PageIds, DeletePage(p) PROVE ListInv'
  BY <1>5, DeleteKeeps
<1> QED
  BY <1>1, <1>2, <1>3, <1>4, <1>5 DEF Next

\* The file and the copies keep their types: allocation never runs num_pages
\* past its bound, and no link leaves the file.
THEOREM FileIsTyped == Spec => []TypeOK
<1>1. Spec => []ListInv
  BY ListInvInit, ListInvNext, PTL DEF Spec
<1>2. ListInv => TypeOK
  BY DEF ListInv, SoundInv
<1> QED
  BY <1>1, <1>2, PTL

\* The free list of allocatePage and deletePage holds exactly the free pages,
\* in every order of calls, whatever happens to the used list: no page is
\* leaked and none is handed out twice.
THEOREM FreeListIsExact == Spec => []FreeListExact
<1>1. Spec => []ListInv
  BY ListInvInit, ListInvNext, PTL DEF Spec
<1>2. ListInv => FreeListExact
  BY DEF ListInv, SoundInv, FreeListExact, FreeExact, FreePages, FreeChain
<1> QED
  BY <1>1, <1>2, PTL

\* When clients do not empty a file that has free pages, the iterator meets
\* exactly the pages in use, in ascending order, and ends.
THEOREM UsedListIsExact ==
    ASSUME KeepOne
    PROVE  Spec => []UsedListExact
<1>1. Spec => []ListInv
  BY ListInvInit, ListInvNext, PTL DEF Spec
<1>2. ListInv => UsedListExact
  <2> SUFFICES ASSUME ListInv PROVE UsedListExact
    OBVIOUS
  <2>1. UsedExact(file)
    BY LinkedIsExact DEF ListInv, SoundInv, TypeOK
  <2> QED
    BY <2>1 DEF UsedExact, UsedListExact, Listed
<1> QED
  BY <1>1, <1>2, PTL

-----------------------------------------------------------------------------
(* Clients see a store of pages *)

\* An iterator comes to the pages in use.
LEMMA SeenIsInUse ==
    ASSUME ListInv, KeepOne
    PROVE  Seen = [p \in PageIds |-> IF p \in InUse(file) THEN file.page[p].data ELSE NoData]
<1>1. UsedExact(file)
  BY LinkedIsExact DEF ListInv, SoundInv, TypeOK
<1>2. Listed(file) = InUse(file)
  BY <1>1 DEF UsedExact, Listed
<1> QED
  BY <1>2 DEF Seen

\* The same, after a step.
LEMMA SeenIsInUseNext ==
    ASSUME ListInv', KeepOne
    PROVE  Seen' = [p \in PageIds |-> IF p \in InUse(file') THEN file'.page[p].data ELSE NoData]
<1>1. UsedExact(file')
  BY LinkedIsExact DEF ListInv, SoundInv, TypeOK
<1>2. Listed(file') = InUse(file')
  BY <1>1 DEF UsedExact, Listed
<1> QED
  BY <1>2 DEF Seen

\* A page has a content in the store exactly when it is in use.
LEMMA SeenPages ==
    ASSUME ListInv, KeepOne, NEW p \in PageIds
    PROVE  /\ Seen[p] = IF p \in InUse(file) THEN file.page[p].data ELSE NoData
           /\ Seen[p] # NoData <=> p \in InUse(file)
<1>1. file.page[p].data # NoData
  BY FileParts, NoDataAssumption DEF ListInv, SoundInv, TypeOK
<1> QED
  BY <1>1, SeenIsInUse

\* An allocation is an Allocate of the store.
LEMMA AllocateIsAllocate ==
    ASSUME ListInv, ListInv', KeepOne, NEW c \in Holders, AllocatePage(c)
    PROVE  Store!Allocate(NewPageNumber(file))
<1> DEFINE n == NewPageNumber(file)
<1>1. /\ file \in FileImage /\ n \in PageIds /\ ~AllocateFails(file)
      /\ file' = Allocated(file) /\ FreeExact(file) /\ Bounded(file)
  BY DEF ListInv, SoundInv, TypeOK, AllocatePage
<1>2. n \notin InUse(file) /\ file.page[n].num = NoPage /\ NewPage(file).data = EmptyData
  BY <1>1, NewNumberIsFree
<1>3. /\ file'.page[n].data = EmptyData
      /\ \A p \in PageIds \ {n} : file'.page[p].data = file.page[p].data
      /\ InUse(file') = InUse(file) \cup {n}
  BY <1>1, <1>2, AllocatedParts
<1>4. Seen' = [Seen EXCEPT ![n] = EmptyData]
  <2> HIDE DEF n
  <2> QED
    BY <1>1, <1>3, SeenIsInUse, SeenIsInUseNext
<1> QED
  BY <1>1, <1>2, <1>4, SeenPages DEF Store!Allocate

\* Writing a copy back is a Write of the store.
LEMMA WriteIsWrite ==
    ASSUME ListInv, ListInv', KeepOne, NEW c \in Holders, WritePage(c)
    PROVE  Store!Write(held[c].num, held[c].data) /\ held[c].num \in PageIds /\ held[c].data \in Data
<1> DEFINE n == held[c].num
           d == held[c].data
<1>1. /\ file \in FileImage
      /\ held[c] \in Page /\ n \in PageIds
      /\ ~WriteThrows(file, held[c])
      /\ file' = Written(file, held[c])
  BY WritesPage
<1>2. n \in InUse(file) /\ d \in Data
  BY <1>1 DEF WriteThrows, InUse, Page
<1>3. /\ \A p \in PageIds : file'.page[p].data = IF p = n THEN d ELSE file.page[p].data
      /\ InUse(file') = InUse(file)
  BY <1>1, WrittenParts
<1> HIDE DEF n, d
<1>4. Seen' = [Seen EXCEPT ![n] = d]
  BY <1>1, <1>2, <1>3, SeenIsInUse, SeenIsInUseNext
<1>5. Store!Write(n, d)
  BY <1>1, <1>2, <1>4, SeenPages DEF Store!Write
<1> QED
  BY <1>1, <1>2, <1>5 DEF n, d

\* A deletion is a Release of the store.
LEMMA DeleteIsRelease ==
    ASSUME ListInv, ListInv', KeepOne, NEW p \in PageIds, DeletePage(p)
    PROVE  Store!Release(p)
<1>1. /\ file \in FileImage /\ ~DeleteFails(file, p) /\ file' = Deleted(file, p)
  BY DEF ListInv, SoundInv, TypeOK, DeletePage
<1>2. p \in InUse(file)
  BY <1>1 DEF DeleteFails, Readable, InUse
<1>3. /\ \A q \in PageIds \ {p} : file'.page[q].data = file.page[q].data
      /\ InUse(file') = InUse(file) \ {p}
  BY <1>1, DeletedParts
<1>4. Seen' = [Seen EXCEPT ![p] = NoData]
  BY <1>3, SeenIsInUse, SeenIsInUseNext
<1> QED
  BY <1>2, <1>4, SeenPages DEF Store!Release

\* The file starts as an empty store.
LEMMA StartsEmpty ==
    ASSUME Init, ListInv, KeepOne
    PROVE  Store!Init
<1>1. InUse(file) = {}
  BY NewFileFree DEF Init
<1> QED
  BY <1>1, SeenIsInUse DEF Store!Init

\* Every step of the clients is a step of the store or leaves it alone.
LEMMA StepOfStore ==
    ASSUME ListInv, ListInv', KeepOne, [Next]_vars
    PROVE  [Store!Next]_Seen
<1>1. CASE file' = file
  BY <1>1, SeenIsInUse, SeenIsInUseNext
<1>2. ASSUME NEW c \in Holders, AllocatePage(c) PROVE Store!Next
  <2>1. NewPageNumber(file) \in PageIds
    BY <1>2 DEF AllocatePage
  <2> QED
    BY <1>2, <2>1, AllocateIsAllocate DEF Store!Next
<1>3. ASSUME NEW c \in Holders, WritePage(c) PROVE Store!Next
  BY <1>3, WriteIsWrite DEF Store!Next
<1>4. ASSUME NEW p \in PageIds, DeletePage(p) PROVE Store!Next
  BY <1>4, DeleteIsRelease DEF Store!Next
<1> QED
  BY <1>1, <1>2, <1>3, <1>4 DEF Next, vars, ReadPage, EditCopy

\* Clients who keep a page of a file that has free pages see a store of pages,
\* whatever copies they hold and in whatever order they write them back: what
\* readPage and the iterator find changes by allocatePage, writePage and
\* deletePage only.
THEOREM FileImplementsStore ==
    ASSUME KeepOne
    PROVE  Spec => StoreImplemented
<1>1. Spec => []ListInv
  BY ListInvInit, ListInvNext, PTL DEF Spec
<1>2. Init => Store!Init
  BY ListInvInit, StartsEmpty
<1>3. ListInv /\ ListInv' /\ [Next]_vars => [Store!Next]_Seen
  BY StepOfStore
<1> QED
  BY <1>1, <1>2, <1>3, PTL DEF Spec, StoreImplemented, Store!Spec

-----------------------------------------------------------------------------
(* Class Page *)

\* The first n slots lie below cell top.
Fits(n, top) == n \in Nat /\ top \in Nat /\ SlotSize * n <= top /\ top <= DataSize

\* They do, and the records of the slots U fill the cells from top on.
Layout(d, n, top, U) ==
    /\ d \in [Cells -> Nat] /\ Fits(n, top) /\ U \subseteq 1..n
    /\ \A s \in U : /\ top <= Offset(d, s) /\ 1 <= Length(d, s)
                    /\ Offset(d, s) + Length(d, s) <= DataSize
    /\ \A s, t \in U : s # t => \/ Offset(d, s) + Length(d, s) <= Offset(d, t)
                                \/ Offset(d, t) + Length(d, t) <= Offset(d, s)
    /\ \A c \in top..(DataSize - 1) : \E s \in U : c \in Extent(d, s)

\* What holds when no slot is opened over stale cells and no record is empty.
PageInv ==
    /\ Layout(data, num_slots, upper, UsedSlots)
    /\ lower = SlotSize * num_slots
    /\ SlotsCounted
    /\ num_slots # 0 => num_slots \in UsedSlots
    /\ \A s \in UsedSlots : RecordIn(data, s) \in Records

\* Each slot has three cells of its own, below the records.
LEMMA SlotCells ==
    ASSUME NEW n, NEW top, Fits(n, top), NEW s \in 1..n
    PROVE  /\ SlotCell(s) \in Nat /\ SlotCell(s) + 2 < top
           /\ SlotCell(s) \in Cells /\ SlotCell(s) + 1 \in Cells /\ SlotCell(s) + 2 \in Cells
           /\ \A t \in 1..n : \/ t = s
                              \/ SlotCell(t) + 2 < SlotCell(s)
                              \/ SlotCell(s) + 2 < SlotCell(t)
<1>1. SlotCell(s) \in Nat /\ SlotCell(s) + 2 < top
  BY DEF SlotCell, SlotSize, Fits
<1>2. \A t \in 1..n : t = s \/ SlotCell(t) + 2 < SlotCell(s) \/ SlotCell(s) + 2 < SlotCell(t)
  BY DEF SlotCell, SlotSize, Fits
<1> QED
  BY <1>1, <1>2, DataSizeAssumption DEF Cells, Fits

\* The fields of a slot are numbers.
LEMMA SlotFields ==
    ASSUME NEW n, NEW top, Fits(n, top), NEW s \in 1..n, NEW d \in [Cells -> Nat]
    PROVE  d[SlotCell(s)] \in Nat /\ Offset(d, s) \in Nat /\ Length(d, s) \in Nat
BY SlotCells DEF Offset, Length

\* Two memories have the same slot s.
SameSlot(d, e, s) ==
    /\ Used(e, s) = Used(d, s)
    /\ Offset(e, s) = Offset(d, s)
    /\ Length(e, s) = Length(d, s)

\* Memories that agree in the cells of a slot have the same slot.
LEMMA CellsAreSlot ==
    ASSUME NEW n, NEW top, Fits(n, top), NEW s \in 1..n, NEW d, NEW e,
           \A c \in Cells : SlotCell(s) <= c /\ c <= SlotCell(s) + 2 => e[c] = d[c]
    PROVE  SameSlot(d, e, s)
<1>1. /\ SlotCell(s) \in Cells /\ SlotCell(s) + 1 \in Cells /\ SlotCell(s) + 2 \in Cells
      /\ SlotCell(s) \in Nat
  BY SlotCells
<1>2. /\ e[SlotCell(s)] = d[SlotCell(s)]
      /\ e[SlotCell(s) + 1] = d[SlotCell(s) + 1]
      /\ e[SlotCell(s) + 2] = d[SlotCell(s) + 2]
  BY <1>1
<1> QED
  BY <1>2 DEF SameSlot, Used, Offset, Length

\* Memories that agree below the records have the same slots.
LEMMA LowCellsAreSlots ==
    ASSUME NEW n, NEW top, Fits(n, top), NEW s \in 1..n, NEW d, NEW e,
           \A c \in Cells : c < top => e[c] = d[c]
    PROVE  SameSlot(d, e, s)
<1>1. SlotCell(s) \in Nat /\ SlotCell(s) + 2 < top /\ top \in Nat
  BY SlotCells DEF Fits
<1>2. ASSUME NEW c \in Cells, SlotCell(s) <= c, c <= SlotCell(s) + 2 PROVE e[c] = d[c]
  <2>1. c \in Nat
    BY DataSizeAssumption DEF Cells
  <2>2. c < top
    BY <1>1, <1>2, <2>1
  <2> QED
    BY <2>2
<1> QED
  BY <1>2, CellsAreSlot

\* Two memories have the same slots but s, and the same cells from top on.
SameElsewhere(d, e, n, s, top) ==
    /\ \A t \in 1..n : t # s => SameSlot(d, e, t)
    /\ \A c \in Cells : top <= c => e[c] = d[c]

\* In e, slot s has the given fields, and the rest is as in d.
SlotIs(d, e, n, s, top, used, offset, length) ==
    /\ e \in [Cells -> Nat]
    /\ e[SlotCell(s)] = used /\ Offset(e, s) = offset /\ Length(e, s) = length
    /\ SameElsewhere(d, e, n, s, top)

\* Overwriting a slot.
LEMMA SetSlotParts ==
    ASSUME NEW n, NEW top, Fits(n, top), NEW s \in 1..n, NEW d \in [Cells -> Nat],
           NEW used \in Nat, NEW offset \in Nat, NEW length \in Nat,
           NEW e, e = SetSlot(d, s, used, offset, length)
    PROVE  SlotIs(d, e, n, s, top, used, offset, length)
<1> DEFINE k == SlotCell(s)
<1>1. /\ k \in Nat /\ k + 2 < top /\ k \in Cells /\ k + 1 \in Cells /\ k + 2 \in Cells
      /\ top \in Nat /\ \A c \in Cells : c \in Nat
  BY SlotCells, DataSizeAssumption DEF Fits, Cells
<1>2. e = [[[d EXCEPT ![k] = used] EXCEPT ![k + 1] = offset] EXCEPT ![k + 2] = length]
  BY DEF SetSlot
<1> HIDE DEF k
<1>3. /\ e \in [Cells -> Nat]
      /\ e[k] = used /\ e[k + 1] = offset /\ e[k + 2] = length
      /\ \A c \in Cells : c # k /\ c # k + 1 /\ c # k + 2 => e[c] = d[c]
  BY <1>1, <1>2
<1>4. Offset(e, s) = offset /\ Length(e, s) = length
  BY <1>3 DEF Offset, Length, k
<1>5. ASSUME NEW t \in 1..n, t # s PROVE SameSlot(d, e, t)
  <2>1. SlotCell(t) \in Nat /\ (SlotCell(t) + 2 < k \/ k + 2 < SlotCell(t))
    BY <1>5, SlotCells DEF k
  <2>2. ASSUME NEW c \in Cells, SlotCell(t) <= c, c <= SlotCell(t) + 2 PROVE e[c] = d[c]
    <3>1. c # k /\ c # k + 1 /\ c # k + 2
      BY <1>1, <2>1, <2>2
    <3> QED
      BY <1>3, <3>1
  <2> QED
    BY <2>2, CellsAreSlot
<1>6. ASSUME NEW c \in Cells, top <= c PROVE e[c] = d[c]
  <2>1. c # k /\ c # k + 1 /\ c # k + 2
    BY <1>1, <1>6
  <2> QED
    BY <1>3, <2>1
<1> QED
  BY <1>3, <1>4, <1>5, <1>6 DEF k, SameElsewhere, SlotIs

\* In e, record r is under slot s from cell at on, and the rest is as in d.
RecordStored(d, e, n, s, r, at, top) ==
    /\ e \in [Cells -> Nat]
    /\ Used(e, s) /\ Offset(e, s) = at /\ Length(e, s) = Len(r)
    /\ SameElsewhere(d, e, n, s, top)
    /\ \A i \in 1..Len(r) : e[at + i - 1] = r[i]

\* Storing a record.
LEMMA StoredParts ==
    ASSUME NEW n, NEW at, Fits(n, at), NEW s \in 1..n, NEW d \in [Cells -> Nat],
           NEW r \in Seq(Nat), NEW top \in Nat, top <= DataSize, at = top - Len(r),
           NEW e, e = Stored(d, s, r, top)
    PROVE  RecordStored(d, e, n, s, r, at, top)
<1> DEFINE slotted == SetSlot(d, s, 1, at, Len(r))
<1>1. /\ Len(r) \in Nat /\ at \in Nat /\ at <= top
      /\ \A c \in Cells : c \in Nat
  BY DataSizeAssumption DEF Fits, Cells
<1>2. /\ slotted \in [Cells -> Nat]
      /\ slotted[SlotCell(s)] = 1 /\ Offset(slotted, s) = at /\ Length(slotted, s) = Len(r)
      /\ SameElsewhere(d, slotted, n, s, at)
  <2>1. slotted = SetSlot(d, s, 1, at, Len(r)) /\ 1 \in Nat
    OBVIOUS
  <2> HIDE DEF slotted
  <2>2. SlotIs(d, slotted, n, s, at, 1, at, Len(r))
    BY <1>1, <2>1, SetSlotParts
  <2> QED
    BY <2>2 DEF SlotIs
<1>3. e = [c \in Cells |-> IF c \in at..(top - 1) THEN r[c - at + 1] ELSE slotted[c]]
  BY DEF Stored
<1> HIDE DEF slotted
<1>4. e \in [Cells -> Nat]
  <2>1. ASSUME NEW c \in Cells, c \in at..(top - 1) PROVE r[c - at + 1] \in Nat
    <3>1. c - at + 1 \in 1..Len(r)
      BY <1>1, <2>1
    <3> QED
      BY <3>1
  <2>2. \A c \in Cells : slotted[c] \in Nat
    BY <1>2
  <2> QED
    BY <1>3, <2>1, <2>2
<1>5. ASSUME NEW c \in Cells, c < at PROVE e[c] = slotted[c]
  <2>1. c \notin at..(top - 1)
    BY <1>1, <1>5
  <2> QED
    BY <1>3, <2>1
<1>6. ASSUME NEW t \in 1..n PROVE SameSlot(slotted, e, t)
  BY <1>5, LowCellsAreSlots
<1>7. ASSUME NEW c \in Cells, top <= c PROVE e[c] = d[c]
  <2>1. c \notin at..(top - 1) /\ at <= c
    BY <1>1, <1>7
  <2> QED
    BY <1>2, <1>3, <2>1 DEF SameElsewhere
<1>8. ASSUME NEW i \in 1..Len(r) PROVE e[at + i - 1] = r[i]
  <2>1. at + i - 1 \in at..(top - 1) /\ at + i - 1 \in Cells /\ (at + i - 1) - at + 1 = i
    BY <1>1, <1>8, DataSizeAssumption DEF Cells
  <2> QED
    BY <1>3, <2>1
<1>9. Used(e, s) /\ Offset(e, s) = at /\ Length(e, s) = Len(r)
  BY <1>2, <1>6 DEF SameSlot, Used
<1>10. SameElsewhere(d, e, n, s, top)
  BY <1>2, <1>6, <1>7 DEF SameSlot, SameElsewhere
<1> QED
  BY <1>4, <1>7, <1>8, <1>9, <1>10 DEF RecordStored

\* What a layout says of one record.
LEMMA LayoutRecord ==
    ASSUME NEW d, NEW n, NEW top, NEW U, Layout(d, n, top, U), NEW s \in U
    PROVE  /\ s \in 1..n /\ Fits(n, top) /\ top \in Nat
           /\ d[SlotCell(s)] \in Nat /\ Offset(d, s) \in Nat /\ Length(d, s) \in Nat
           /\ top <= Offset(d, s) /\ 1 <= Length(d, s)
           /\ Offset(d, s) + Length(d, s) <= DataSize
           /\ \A t \in U : s # t => \/ Offset(d, s) + Length(d, s) <= Offset(d, t)
                                    \/ Offset(d, t) + Length(d, t) <= Offset(d, s)
<1>1. s \in 1..n /\ Fits(n, top) /\ d \in [Cells -> Nat]
  BY DEF Layout
<1>2. d[SlotCell(s)] \in Nat /\ Offset(d, s) \in Nat /\ Length(d, s) \in Nat
  BY <1>1, SlotFields
<1> QED
  BY <1>1, <1>2 DEF Layout, Fits

\* The cells of a record are cells.
LEMMA RecordCells ==
    ASSUME NEW d, NEW n, NEW top, NEW U, Layout(d, n, top, U), NEW s \in U,
           NEW i \in 1..Length(d, s)
    PROVE  Offset(d, s) + i - 1 \in Cells /\ top <= Offset(d, s) + i - 1
<1>1. /\ Offset(d, s) \in Nat /\ Length(d, s) \in Nat /\ top \in Nat
      /\ top <= Offset(d, s) /\ Offset(d, s) + Length(d, s) <= DataSize
  BY LayoutRecord
<1> QED
  BY <1>1, DataSizeAssumption DEF Cells

\* A record is unchanged when its cells are, wherever they have gone.
LEMMA SameRecord ==
    ASSUME NEW d, NEW e, NEW s, Length(e, s) = Length(d, s),
           \A i \in 1..Length(d, s) : e[Offset(e, s) + i - 1] = d[Offset(d, s) + i - 1]
    PROVE  RecordIn(e, s) = RecordIn(d, s)
BY DEF RecordIn

\* In e, record r is under slot s, the records of U are where they were, and
\* together they are laid out from cell at on.
StoredIn(d, e, n, at, U, s, r) ==
    /\ Layout(e, n, at, U \cup {s})
    /\ Used(e, s) /\ \A t \in 1..n : t # s => Used(e, t) = Used(d, t)
    /\ RecordIn(e, s) = r
    /\ \A t \in U : RecordIn(e, t) = RecordIn(d, t)

\* Storing a record below the others.
LEMMA StoredLayout ==
    ASSUME NEW d, NEW m, NEW top, NEW U, Layout(d, m, top, U),
           NEW n, NEW at, Fits(n, at), m <= n, NEW s \in 1..n, s \notin U,
           NEW r \in Seq(Nat), r # <<>>, at = top - Len(r),
           NEW e, e = Stored(d, s, r, top)
    PROVE  StoredIn(d, e, n, at, U, s, r)
<1>1. /\ d \in [Cells -> Nat] /\ m \in Nat /\ n \in Nat /\ top \in Nat /\ at \in Nat
      /\ top <= DataSize /\ Len(r) \in Nat /\ Len(r) >= 1 /\ at <= top
      /\ U \subseteq 1..m
  BY DEF Layout, Fits
<1>2. \A t \in U : t \in 1..n /\ t # s
  BY <1>1
<1>3. /\ e \in [Cells -> Nat]
      /\ Used(e, s) /\ Offset(e, s) = at /\ Length(e, s) = Len(r)
      /\ SameElsewhere(d, e, n, s, top)
      /\ \A i \in 1..Len(r) : e[at + i - 1] = r[i]
  <2>1. RecordStored(d, e, n, s, r, at, top)
    BY <1>1, StoredParts
  <2> QED
    BY <2>1 DEF RecordStored
<1>4. \A t \in U : SameSlot(d, e, t)
  BY <1>2, <1>3 DEF SameElsewhere
<1>5. ASSUME NEW t \in U
      PROVE  /\ Offset(e, t) = Offset(d, t) /\ Length(e, t) = Length(d, t)
             /\ Offset(d, t) \in Nat /\ Length(d, t) \in Nat
             /\ top <= Offset(d, t) /\ 1 <= Length(d, t)
             /\ Offset(d, t) + Length(d, t) <= DataSize
  BY <1>4, LayoutRecord DEF SameSlot
<1>6. ASSUME NEW t \in U PROVE RecordIn(e, t) = RecordIn(d, t)
  <2>1. ASSUME NEW i \in 1..Length(d, t)
        PROVE  e[Offset(e, t) + i - 1] = d[Offset(d, t) + i - 1]
    <3>1. Offset(d, t) + i - 1 \in Cells /\ top <= Offset(d, t) + i - 1
      BY RecordCells
    <3> QED
      BY <1>3, <1>5, <3>1 DEF SameElsewhere
  <2> QED
    BY <1>5, <2>1, SameRecord
<1>7. RecordIn(e, s) = r
  <2>1. RecordIn(e, s) = [i \in 1..Len(r) |-> e[at + i - 1]]
    BY <1>3 DEF RecordIn
  <2>2. RecordIn(e, s) = [i \in 1..Len(r) |-> r[i]]
    BY <1>3, <2>1
  <2> QED
    BY <2>2
<1>8. ASSUME NEW t \in U \cup {s}
      PROVE  at <= Offset(e, t) /\ 1 <= Length(e, t) /\ Offset(e, t) + Length(e, t) <= DataSize
  <2>1. CASE t = s
    BY <1>1, <1>3, <2>1, DataSizeAssumption
  <2>2. CASE t \in U
    BY <1>1, <1>5, <2>2
  <2> QED
    BY <1>8, <2>1, <2>2
<1>9. ASSUME NEW t \in U \cup {s}, NEW u \in U \cup {s}, t # u
      PROVE  \/ Offset(e, t) + Length(e, t) <= Offset(e, u)
             \/ Offset(e, u) + Length(e, u) <= Offset(e, t)
  <2>1. CASE t \in U /\ u \in U
    BY <1>5, <1>9, <2>1, LayoutRecord
  <2>2. CASE t = s /\ u \in U
    BY <1>1, <1>3, <1>5, <2>2
  <2>3. CASE t \in U /\ u = s
    BY <1>1, <1>3, <1>5, <2>3
  <2> QED
    BY <1>9, <2>1, <2>2, <2>3
<1>10. ASSUME NEW c \in at..(DataSize - 1) PROVE \E t \in U \cup {s} : c \in Extent(e, t)
  <2>1. CASE c < top
    <3>1. c \in Extent(e, s)
      BY <1>1, <1>3, <2>1, DataSizeAssumption DEF Extent
    <3> QED
      BY <3>1
  <2>2. CASE ~(c < top)
    <3>1. c \in top..(DataSize - 1)
      BY <1>1, <2>2, DataSizeAssumption
    <3>2. PICK t \in U : c \in Extent(d, t)
      BY <3>1 DEF Layout
    <3>3. c \in Extent(e, t)
      BY <1>5, <3>2 DEF Extent
    <3> QED
      BY <3>3
  <2> QED
    BY <2>1, <2>2
<1>11. U \cup {s} \subseteq 1..n
  BY <1>2
<1>12. Layout(e, n, at, U \cup {s})
  BY <1>3, <1>8, <1>9, <1>10, <1>11 DEF Layout
<1>13. \A t \in 1..n : t # s => Used(e, t) = Used(d, t)
  BY <1>3 DEF SameElsewhere, SameSlot
<1> QED
  BY <1>3, <1>6, <1>7, <1>12, <1>13 DEF StoredIn

-----------------------------------------------------------------------------
(* The moving records of deleteRecord *)

\* The cells of a set of records.
CellsOf(T) == UNION {Extent(data, t) : t \in T}

\* The moving records are those of the cells between the free space and the
\* record that goes.
LEMMA MoversFill ==
    ASSUME Layout(data, num_slots, upper, UsedSlots), NEW s \in UsedSlots
    PROVE  /\ Movers(s) \subseteq UsedSlots \ {s}
           /\ CellsOf(Movers(s)) = upper..(Offset(data, s) - 1)
           /\ \A t \in Movers(s) : Offset(data, t) + Length(data, t) <= Offset(data, s)
           /\ \A t \in UsedSlots \ Movers(s) :
                 t # s => Offset(data, s) + Length(data, s) <= Offset(data, t)
<1> DEFINE at == Offset(data, s)
           len == Length(data, s)
<1>1. /\ at \in Nat /\ len \in Nat /\ upper \in Nat /\ upper <= at /\ at + len <= DataSize /\ 1 <= len
      /\ \A t \in UsedSlots : s # t => \/ at + len <= Offset(data, t)
                                       \/ Offset(data, t) + Length(data, t) <= at
  BY LayoutRecord
<1>2. \A t \in UsedSlots : /\ Offset(data, t) \in Nat /\ Length(data, t) \in Nat
                           /\ upper <= Offset(data, t) /\ 1 <= Length(data, t)
                           /\ Offset(data, t) + Length(data, t) <= DataSize
  BY LayoutRecord
<1>3. \A t \in Movers(s) : t \in UsedSlots /\ Offset(data, t) < at
  BY DEF Movers
<1>4. \A t \in UsedSlots : Offset(data, t) < at => t \in Movers(s)
  BY DEF Movers
<1> HIDE DEF at, len
<1>5. \A t \in Movers(s) : t # s /\ Offset(data, t) + Length(data, t) <= at
  <2> SUFFICES ASSUME NEW t \in Movers(s) PROVE t # s /\ Offset(data, t) + Length(data, t) <= at
    OBVIOUS
  <2>1. t \in UsedSlots /\ Offset(data, t) < at
    BY <1>3
  <2>2. t # s
    BY <1>1, <2>1 DEF at
  <2> QED
    BY <1>1, <1>2, <2>1, <2>2
<1>6. \A t \in UsedSlots \ Movers(s) : t # s => at + len <= Offset(data, t)
  <2> SUFFICES ASSUME NEW t \in UsedSlots \ Movers(s), t # s PROVE at + len <= Offset(data, t)
    OBVIOUS
  <2>1. ~(Offset(data, t) < at)
    BY <1>4
  <2> QED
    BY <1>1, <1>2, <2>1
<1>7. ASSUME NEW c \in CellsOf(Movers(s)) PROVE c \in upper..(at - 1)
  <2>1. PICK t \in Movers(s) : c \in Extent(data, t)
    BY <1>7 DEF CellsOf
  <2>2. /\ Offset(data, t) \in Nat /\ Length(data, t) \in Nat /\ upper <= Offset(data, t)
        /\ Offset(data, t) + Length(data, t) <= at
    BY <1>2, <1>3, <1>5
  <2> QED
    BY <1>1, <2>1, <2>2 DEF Extent
<1>8. ASSUME NEW c \in upper..(at - 1) PROVE c \in CellsOf(Movers(s))
  <2>1. c \in upper..(DataSize - 1)
    BY <1>1, <1>8, DataSizeAssumption
  <2>2. PICK t \in UsedSlots : c \in Extent(data, t)
    BY <2>1 DEF Layout
  <2>3. Offset(data, t) < at
    BY <1>1, <1>2, <1>8, <2>2 DEF Extent
  <2>4. t \in Movers(s)
    BY <1>4, <2>3
  <2> QED
    BY <2>2, <2>4 DEF CellsOf
<1>9. CellsOf(Movers(s)) = upper..(at - 1)
  BY <1>7, <1>8
<1>10. Movers(s) \subseteq UsedSlots \ {s}
  BY <1>3, <1>5
<1> QED
  BY <1>5, <1>6, <1>9, <1>10 DEF at, len

\* They begin where the free space ends.
LEMMA MoveFrom ==
    ASSUME Layout(data, num_slots, upper, UsedSlots), NEW s \in UsedSlots
    PROVE  MoveOffset(s) = upper
<1> DEFINE O == {Offset(data, i) : i \in Movers(s) \cup {s}}
<1>1. \A t \in UsedSlots : /\ Offset(data, t) \in Nat /\ Length(data, t) \in Nat
                           /\ upper <= Offset(data, t) /\ upper \in Nat /\ 1 <= Length(data, t)
                           /\ Offset(data, t) + Length(data, t) <= DataSize
  BY LayoutRecord
<1>2. Movers(s) \subseteq UsedSlots
  BY DEF Movers
<1>3. upper \in upper..(DataSize - 1)
  BY <1>1, DataSizeAssumption
<1>4. PICK t \in UsedSlots : upper \in Extent(data, t)
  BY <1>3 DEF Layout
<1>5. Offset(data, t) = upper
  BY <1>1, <1>4 DEF Extent
<1>6. t \in Movers(s) \cup {s}
  <2>1. CASE Offset(data, s) = upper
    <3>1. t = s
      <4>1. ASSUME t # s PROVE FALSE
        BY <1>1, <1>5, <2>1, <4>1, LayoutRecord
      <4> QED
        BY <4>1
    <3> QED
      BY <3>1
  <2>2. CASE Offset(data, s) # upper
    <3>1. upper < Offset(data, s)
      BY <1>1, <2>2
    <3> QED
      BY <1>5, <3>1 DEF Movers
  <2> QED
    BY <2>1, <2>2
<1>7. upper \in O /\ \A x \in O : upper <= x
  BY <1>1, <1>2, <1>5, <1>6
<1>8. \A x \in O : x \in Nat
  BY <1>1, <1>2
<1> HIDE DEF O
<1>9. \A x \in O : (\A y \in O : x <= y) => x = upper
  BY <1>7, <1>8
<1>10. Min(O) = upper
  BY <1>7, <1>9 DEF Min
<1> QED
  BY <1>10 DEF MoveOffset, O

\* One record more: as many cells more as it is long.
LEMMA CellsOfOneMore ==
    ASSUME Layout(data, num_slots, upper, UsedSlots),
           NEW T \in SUBSET UsedSlots, NEW t \in UsedSlots \ T
    PROVE  /\ IsFiniteSet(CellsOf(T)) /\ Cardinality(CellsOf(T)) \in Nat
           /\ Cardinality(CellsOf(T \cup {t})) = Cardinality(CellsOf(T)) + Length(data, t)
<1>1. \A u \in UsedSlots : /\ Offset(data, u) \in Nat /\ Length(data, u) \in Nat
                           /\ Offset(data, u) + Length(data, u) <= DataSize
  BY LayoutRecord
<1>2. \A u \in UsedSlots : Extent(data, u) \subseteq 0..(DataSize - 1)
  BY <1>1, DataSizeAssumption DEF Extent
<1>3. CellsOf(T) \subseteq 0..(DataSize - 1)
  BY <1>2 DEF CellsOf
<1>4. IsFiniteSet(0..(DataSize - 1))
  <2>1. 0 \in Int /\ DataSize - 1 \in Int
    BY DataSizeAssumption
  <2> QED
    BY <2>1, FS_Interval
<1>5. IsFiniteSet(CellsOf(T)) /\ Cardinality(CellsOf(T)) \in Nat
  BY <1>3, <1>4, FS_Subset, FS_CardinalityType
<1>6. IsFiniteSet(Extent(data, t)) /\ Cardinality(Extent(data, t)) = Length(data, t)
  <2>1. Offset(data, t) \in Int /\ Offset(data, t) + Length(data, t) - 1 \in Int
    BY <1>1
  <2>2. /\ IsFiniteSet(Extent(data, t))
        /\ Cardinality(Extent(data, t)) =
              IF Offset(data, t) > Offset(data, t) + Length(data, t) - 1 THEN 0
              ELSE (Offset(data, t) + Length(data, t) - 1) - Offset(data, t) + 1
    BY <2>1, FS_Interval DEF Extent
  <2> QED
    BY <1>1, <2>2
<1>7. CellsOf(T) \cap Extent(data, t) = {}
  <2> SUFFICES ASSUME NEW u \in T, NEW c \in Extent(data, u), c \in Extent(data, t) PROVE FALSE
    BY DEF CellsOf
  <2>1. u \in UsedSlots /\ u # t
    OBVIOUS
  <2>2. \/ Offset(data, u) + Length(data, u) <= Offset(data, t)
        \/ Offset(data, t) + Length(data, t) <= Offset(data, u)
    BY <2>1, LayoutRecord
  <2> QED
    BY <1>1, <2>1, <2>2 DEF Extent
<1>8. CellsOf(T \cup {t}) = CellsOf(T) \cup Extent(data, t)
  BY DEF CellsOf
<1>9. Cardinality(CellsOf(T) \cup Extent(data, t)) =
         Cardinality(CellsOf(T)) + Cardinality(Extent(data, t)) - Cardinality({})
  BY <1>5, <1>6, <1>7, FS_Union
<1>10. Cardinality({}) = 0
  BY FS_EmptySet
<1>11. Length(data, t) \in Nat
  BY <1>1
<1>12. Cardinality(CellsOf(T) \cup Extent(data, t)) = Cardinality(CellsOf(T)) + Length(data, t)
  BY <1>5, <1>6, <1>9, <1>10, <1>11
<1>13. Cardinality(CellsOf(T \cup {t})) = Cardinality(CellsOf(T)) + Length(data, t)
  BY <1>8, <1>12
<1> QED
  BY <1>5, <1>13

\* move_bytes is exactly what lies between the free space and the record.
LEMMA MoveAll ==
    ASSUME Layout(data, num_slots, upper, UsedSlots), NEW s \in UsedSlots
    PROVE  MoveBytes(s) = Offset(data, s) - upper
<1> DEFINE Upto(i) == Movers(s) \cap (1..i)
           C(i) == Cardinality(CellsOf(Upto(i)))
           More(i) == IF i \in Movers(s) THEN Length(data, i) ELSE 0
           Defined(g) == g = [i \in 0..num_slots |-> IF i = 0 THEN 0 ELSE g[i - 1] + More(i)]
<1>1. num_slots \in Nat /\ UsedSlots \subseteq 1..num_slots /\ Movers(s) \subseteq UsedSlots
  BY DEF Layout, Fits, Movers
<1>2. C(0) = 0
  <2>1. Upto(0) = {}
    OBVIOUS
  <2>2. CellsOf({}) = {}
    BY DEF CellsOf
  <2> QED
    BY <2>1, <2>2, FS_EmptySet
<1>3. ASSUME NEW i \in 1..num_slots PROVE C(i) = C(i - 1) + More(i) /\ C(i - 1) \in Nat
  <2>1. Upto(i - 1) \in SUBSET UsedSlots /\ i \notin Upto(i - 1)
    BY <1>1
  <2>2. C(i - 1) \in Nat
    <3>1. s \notin Upto(i - 1)
      BY MoversFill
    <3> HIDE DEF Upto
    <3> QED
      BY <2>1, <3>1, CellsOfOneMore
  <2>3. CASE i \in Movers(s)
    <3>1. Upto(i) = Upto(i - 1) \cup {i}
      BY <1>3, <2>3
    <3>2. i \in UsedSlots
      BY <1>1, <2>3
    <3> HIDE DEF Upto
    <3>3. C(i) = C(i - 1) + Length(data, i)
      BY <2>1, <3>1, <3>2, CellsOfOneMore
    <3> QED
      BY <2>2, <2>3, <3>3
  <2>4. CASE i \notin Movers(s)
    <3>1. Upto(i) = Upto(i - 1)
      BY <1>3, <2>4
    <3> HIDE DEF Upto
    <3> QED
      BY <2>2, <2>4, <3>1
  <2> QED
    BY <2>3, <2>4
<1> HIDE DEF C, More
<1>4. \E g : Defined(g)
  <2> DEFINE h == [i \in 0..num_slots |-> C(i)]
  <2>1. ASSUME NEW i \in 0..num_slots PROVE h[i] = IF i = 0 THEN 0 ELSE h[i - 1] + More(i)
    <3>1. CASE i = 0
      BY <1>2, <3>1
    <3>2. CASE i # 0
      <4>1. i \in 1..num_slots /\ i - 1 \in 0..num_slots
        BY <1>1, <3>2
      <4> QED
        BY <1>3, <3>2, <4>1
    <3> QED
      BY <3>1, <3>2
  <2>2. Defined(h)
    BY <2>1
  <2> QED
    BY <2>2
<1> DEFINE f == CHOOSE g : Defined(g)
<1>5. MoveBytes(s) = f[num_slots]
  BY DEF MoveBytes, More
<1>6. Defined(f)
  <2> HIDE DEF Defined
  <2> QED
    BY <1>4
<1> HIDE DEF f
<1>7. f[0] = 0 /\ \A i \in 1..num_slots : f[i] = f[i - 1] + More(i)
  BY <1>1, <1>6
<1>8. \A i \in 0..num_slots : f[i] = C(i)
  <2> DEFINE S == {i \in 0..num_slots : f[i] = C(i)}
  <2>1. 0 \in S
    BY <1>1, <1>2, <1>7
  <2>2. ASSUME NEW i \in 0..(num_slots - 1), i \in S PROVE i + 1 \in S
    <3>1. i + 1 \in 1..num_slots /\ (i + 1) - 1 = i /\ i + 1 \in 0..num_slots
      BY <1>1
    <3>2. f[i + 1] = f[i] + More(i + 1) /\ C(i + 1) = C(i) + More(i + 1)
      BY <1>3, <1>7, <3>1
    <3> QED
      BY <2>2, <3>1, <3>2
  <2>3. 0..num_slots \subseteq S
    <3> HIDE DEF S
    <3> QED
      BY <1>1, <2>1, <2>2, InductionUpTo
  <2> QED
    BY <2>3
<1>9. C(num_slots) = Offset(data, s) - upper
  <2>1. Upto(num_slots) = Movers(s)
    BY <1>1
  <2>2. /\ Offset(data, s) \in Nat /\ upper \in Nat /\ upper <= Offset(data, s)
    BY LayoutRecord
  <2>3. C(num_slots) = Cardinality(upper..(Offset(data, s) - 1))
    BY <2>1, MoversFill DEF C
  <2>4. C(num_slots) = IF upper > Offset(data, s) - 1 THEN 0 ELSE (Offset(data, s) - 1) - upper + 1
    <3>1. upper \in Int /\ Offset(data, s) - 1 \in Int
      BY <2>2
    <3> QED
      BY <2>3, <3>1, FS_Interval
  <2> QED
    BY <2>2, <2>4
<1> QED
  BY <1>1, <1>5, <1>8, <1>9

\* With the record erased and the offsets shifted, the slots of the moving
\* records have changed, and the cells of the other records have not.
LEMMA ShiftedParts ==
    ASSUME Layout(data, num_slots, upper, UsedSlots), NEW s \in UsedSlots
    PROVE  /\ Shifted(s) \in [Cells -> Nat]
           /\ \A t \in 1..num_slots :
                 /\ Used(Shifted(s), t) = Used(data, t)
                 /\ Length(Shifted(s), t) = Length(data, t)
                 /\ Offset(Shifted(s), t) = IF t \in Movers(s)
                                            THEN Offset(data, t) + Length(data, s)
                                            ELSE Offset(data, t)
           /\ \A c \in Cells : upper <= c /\ c \notin Extent(data, s)
                                => Shifted(s)[c] = data[c]
<1> DEFINE at == Offset(data, s)
           len == Length(data, s)
           e == Shifted(s)
           Field(c) == \E i \in Movers(s) : c = SlotCell(i) + 1
<1>1. /\ at \in Nat /\ len \in Nat /\ upper \in Nat /\ upper <= at
      /\ Fits(num_slots, upper) /\ data \in [Cells -> Nat]
  BY LayoutRecord DEF Layout
<1>2. Movers(s) \subseteq 1..num_slots
  BY DEF Movers, UsedSlots
<1>3. \A c \in Cells : c \in Nat
  BY DataSizeAssumption DEF Cells
<1>4. \A c \in Cells : Erased(s)[c] \in Nat /\ (c \notin Extent(data, s) => Erased(s)[c] = data[c])
  BY <1>1 DEF Erased
<1>5. /\ \A c \in Cells : e[c] = IF Field(c) THEN Erased(s)[c] + len ELSE Erased(s)[c]
      /\ e = [c \in Cells |-> e[c]]
  BY DEF Shifted
<1> HIDE DEF e
<1>6. e \in [Cells -> Nat]
  <2>1. \A c \in Cells : e[c] \in Nat
    BY <1>1, <1>4, <1>5
  <2> QED
    BY <1>5, <2>1
<1>7. ASSUME NEW c \in Cells, upper <= c, c \notin Extent(data, s) PROVE e[c] = data[c]
  <2>1. ASSUME NEW i \in Movers(s) PROVE c # SlotCell(i) + 1
    <3>1. SlotCell(i) \in Nat /\ SlotCell(i) + 2 < upper
      BY <1>1, <1>2, SlotCells
    <3> QED
      BY <1>1, <1>3, <1>7, <3>1
  <2> QED
    BY <1>4, <1>5, <1>7, <2>1
<1>8. ASSUME NEW t \in 1..num_slots
      PROVE  /\ Used(e, t) = Used(data, t) /\ Length(e, t) = Length(data, t)
             /\ Offset(e, t) = IF t \in Movers(s) THEN Offset(data, t) + len ELSE Offset(data, t)
  <2> DEFINE k == SlotCell(t)
  <2>1. /\ k \in Nat /\ k + 2 < upper /\ k \in Cells /\ k + 1 \in Cells /\ k + 2 \in Cells
    BY <1>1, SlotCells
  <2>2. \A c \in Cells : c <= k + 2 => Erased(s)[c] = data[c]
    <3> SUFFICES ASSUME NEW c \in Cells, c <= k + 2 PROVE c \notin Extent(data, s)
      BY <1>4
    <3> QED
      BY <1>1, <1>3, <2>1 DEF Extent
  <2>3. \A i \in Movers(s) : \/ i = t
                             \/ SlotCell(i) \in Nat /\ SlotCell(i) + 2 < k
                             \/ SlotCell(i) \in Nat /\ k + 2 < SlotCell(i)
    BY <1>1, <1>2, SlotCells
  <2>4. ~Field(k) /\ ~Field(k + 2)
    <3> SUFFICES ASSUME NEW i \in Movers(s) PROVE k # SlotCell(i) + 1 /\ k + 2 # SlotCell(i) + 1
      OBVIOUS
    <3>1. CASE i = t
      BY <2>1, <3>1
    <3>2. CASE i # t
      <4>1. SlotCell(i) \in Nat /\ (SlotCell(i) + 2 < k \/ k + 2 < SlotCell(i))
        BY <2>3, <3>2
      <4> HIDE DEF k
      <4> QED
        BY <2>1, <4>1
    <3> QED
      BY <3>1, <3>2
  <2>5. Field(k + 1) <=> t \in Movers(s)
    <3>1. ASSUME NEW i \in Movers(s), k + 1 = SlotCell(i) + 1 PROVE i = t
      <4>1. i = t \/ (SlotCell(i) \in Nat /\ (SlotCell(i) + 2 < k \/ k + 2 < SlotCell(i)))
        BY <2>3
      <4> HIDE DEF k
      <4> QED
        BY <2>1, <3>1, <4>1
    <3> QED
      BY <3>1
  <2> HIDE DEF k, Field
  <2>6. e[k] = data[k] /\ e[k + 2] = data[k + 2]
    BY <1>5, <2>1, <2>2, <2>4
  <2>7. e[k + 1] = IF t \in Movers(s) THEN data[k + 1] + len ELSE data[k + 1]
    BY <1>5, <2>1, <2>2, <2>5
  <2> QED
    BY <2>6, <2>7 DEF k, Used, Offset, Length
<1> QED
  BY <1>6, <1>7, <1>8 DEF e

\* After the move, the cells of the moving records are higher up by the length
\* of the record that is gone, and nothing else has changed.
LEMMA ClosedParts ==
    ASSUME Layout(data, num_slots, upper, UsedSlots), NEW s \in UsedSlots
    PROVE  /\ Closed(s) \in [Cells -> Nat]
           /\ \A t \in 1..num_slots : SameSlot(Shifted(s), Closed(s), t)
           /\ \A c \in upper..(Offset(data, s) - 1) :
                 Closed(s)[c + Length(data, s)] = data[c]
           /\ \A c \in Cells : Offset(data, s) + Length(data, s) <= c
                                => Closed(s)[c] = data[c]
<1> DEFINE at == Offset(data, s)
           len == Length(data, s)
           d == Shifted(s)
           e == Closed(s)
<1>1. /\ at \in Nat /\ len \in Nat /\ upper \in Nat /\ upper <= at /\ at + len <= DataSize
      /\ Fits(num_slots, upper)
  BY LayoutRecord
<1>2. \A c \in Cells : c \in Nat
  BY DataSizeAssumption DEF Cells
<1>3. /\ d \in [Cells -> Nat]
      /\ \A c \in Cells : upper <= c /\ c \notin Extent(data, s) => d[c] = data[c]
  BY ShiftedParts
<1>4. MoveOffset(s) = upper /\ MoveBytes(s) = at - upper
  BY MoveFrom, MoveAll
<1>5. e = [c \in Cells |-> IF c \in (upper + len)..(upper + len + (at - upper) - 1)
                           THEN d[c - len] ELSE d[c]]
  BY <1>4 DEF Closed
<1>6. upper + len + (at - upper) - 1 = at + len - 1
  BY <1>1
<1>7. e = [c \in Cells |-> IF c \in (upper + len)..(at + len - 1) THEN d[c - len] ELSE d[c]]
  BY <1>5, <1>6
<1> HIDE DEF d, e
<1>8. \A c \in (upper + len)..(at + len - 1) :
         c \in Cells /\ c - len \in Cells /\ c - len \in upper..(at - 1)
  <2> HIDE DEF at, len
  <2> QED
    BY <1>1, DataSizeAssumption DEF Cells
<1>9. e \in [Cells -> Nat]
  BY <1>3, <1>7, <1>8
<1>10. ASSUME NEW c \in Cells, c < upper PROVE e[c] = d[c]
  <2>1. c \notin (upper + len)..(at + len - 1)
    <3> HIDE DEF at, len
    <3> QED
      BY <1>1, <1>2, <1>10
  <2> QED
    BY <1>7, <2>1
<1>11. ASSUME NEW t \in 1..num_slots PROVE SameSlot(d, e, t)
  BY <1>1, <1>10, LowCellsAreSlots
<1>12. ASSUME NEW c \in upper..(at - 1) PROVE e[c + len] = data[c]
  <2>1. /\ c + len \in (upper + len)..(at + len - 1) /\ (c + len) - len = c
        /\ upper <= c /\ c \notin at..(at + len - 1)
    <3> HIDE DEF at, len
    <3> QED
      BY <1>1
  <2>2. c \in Cells /\ c + len \in Cells
    BY <1>8, <2>1
  <2> QED
    BY <1>3, <1>7, <2>1, <2>2 DEF Extent
<1>13. ASSUME NEW c \in Cells, at + len <= c PROVE e[c] = data[c]
  <2>1. c \notin (upper + len)..(at + len - 1) /\ upper <= c /\ c \notin at..(at + len - 1)
    <3> HIDE DEF at, len
    <3> QED
      BY <1>1, <1>2, <1>13
  <2> QED
    BY <1>3, <1>7, <2>1 DEF Extent
<1> QED
  BY <1>9, <1>11, <1>12, <1>13 DEF d, e

\* After a deletion the slot is unused, and each other slot has its record,
\* wherever that is now; the records fill the cells from the new bound on.
LEMMA RemovedLayout ==
    ASSUME Layout(data, num_slots, upper, UsedSlots), NEW s \in UsedSlots,
           NEW e, e = Removed(s)
    PROVE  /\ Layout(e, num_slots, upper + Length(data, s), UsedSlots \ {s})
           /\ ~Used(e, s)
           /\ \A t \in 1..num_slots : t # s => Used(e, t) = Used(data, t)
           /\ \A t \in UsedSlots \ {s} : RecordIn(e, t) = RecordIn(data, t)
<1> DEFINE n == num_slots
           at == Offset(data, s)
           len == Length(data, s)
           U == UsedSlots \ {s}
           Off(t) == IF t \in Movers(s) THEN Offset(data, t) + len ELSE Offset(data, t)
<1>1. /\ at \in Nat /\ len \in Nat /\ upper \in Nat /\ upper <= at /\ at + len <= DataSize
      /\ Fits(n, upper) /\ s \in 1..n /\ 1 <= len
  BY LayoutRecord
<1>2. UsedSlots \subseteq 1..n
  BY DEF UsedSlots
<1>3. \A c \in Cells : c \in Nat
  BY DataSizeAssumption DEF Cells
<1>4. /\ Closed(s) \in [Cells -> Nat]
      /\ \A t \in 1..n : SameSlot(Shifted(s), Closed(s), t)
      /\ \A c \in upper..(at - 1) : Closed(s)[c + len] = data[c]
      /\ \A c \in Cells : at + len <= c => Closed(s)[c] = data[c]
  BY ClosedParts
<1>5. SlotIs(Closed(s), e, n, s, upper, 0, 0, 0)
  <2>1. e = SetSlot(Closed(s), s, 0, 0, 0) /\ 0 \in Nat
    BY DEF Removed
  <2> QED
    BY <1>1, <1>4, <2>1, SetSlotParts
<1>6. /\ e \in [Cells -> Nat] /\ ~Used(e, s)
      /\ SameElsewhere(Closed(s), e, n, s, upper)
  BY <1>5 DEF SlotIs, Used
<1>7. ASSUME NEW t \in 1..n, t # s
      PROVE  /\ Used(e, t) = Used(data, t) /\ Length(e, t) = Length(data, t)
             /\ Offset(e, t) = Off(t)
  <2>1. SameSlot(Closed(s), e, t)
    BY <1>6, <1>7 DEF SameElsewhere
  <2>2. SameSlot(Shifted(s), Closed(s), t)
    BY <1>4
  <2>3. /\ Used(Shifted(s), t) = Used(data, t)
        /\ Length(Shifted(s), t) = Length(data, t)
        /\ Offset(Shifted(s), t) = Off(t)
    BY ShiftedParts
  <2> HIDE DEF Off
  <2> QED
    BY <2>1, <2>2, <2>3 DEF SameSlot
<1>8. \A t \in U : /\ t \in 1..n /\ t # s
                   /\ Offset(data, t) \in Nat /\ Length(data, t) \in Nat
                   /\ upper <= Offset(data, t) /\ 1 <= Length(data, t)
                   /\ Offset(data, t) + Length(data, t) <= DataSize
  BY <1>2, LayoutRecord
<1>9. /\ Movers(s) \subseteq U
      /\ CellsOf(Movers(s)) = upper..(at - 1)
      /\ \A t \in Movers(s) : Offset(data, t) + Length(data, t) <= at
      /\ \A t \in U \ Movers(s) : at + len <= Offset(data, t)
  BY MoversFill
<1>10. ASSUME NEW c \in Cells, upper <= c PROVE e[c] = Closed(s)[c]
  BY <1>6, <1>10 DEF SameElsewhere
<1>11. ASSUME NEW t \in U
       PROVE  \/ /\ t \in Movers(s) /\ Offset(e, t) = Offset(data, t) + len
                 /\ Offset(data, t) + Length(data, t) <= at
              \/ /\ t \notin Movers(s) /\ Offset(e, t) = Offset(data, t)
                 /\ at + len <= Offset(data, t)
  BY <1>7, <1>8, <1>9
<1>12. \A t \in U : Length(e, t) = Length(data, t)
  BY <1>7, <1>8
<1> HIDE DEF at, len, U, Off
<1>13. ASSUME NEW t \in U PROVE RecordIn(e, t) = RecordIn(data, t)
  <2>1. ASSUME NEW i \in 1..Length(data, t)
        PROVE  e[Offset(e, t) + i - 1] = data[Offset(data, t) + i - 1]
    <3> DEFINE c == Offset(data, t) + i - 1
    <3>1. c \in Cells /\ upper <= c
      BY RecordCells DEF U
    <3>2. CASE t \in Movers(s)
      <4>1. Offset(e, t) + i - 1 = c + len /\ c \in upper..(at - 1)
        BY <1>1, <1>8, <1>11, <2>1, <3>2
      <4>2. c + len \in Cells /\ upper <= c + len
        BY <1>1, <4>1, DataSizeAssumption DEF Cells
      <4>3. Closed(s)[c + len] = data[c]
        BY <1>4, <4>1 DEF at, len
      <4> HIDE DEF c
      <4> QED
        BY <1>10, <4>1, <4>2, <4>3 DEF c
    <3>3. CASE t \notin Movers(s)
      <4>1. Offset(e, t) = Offset(data, t) /\ at + len <= c
        BY <1>1, <1>8, <1>11, <2>1, <3>3
      <4>2. Closed(s)[c] = data[c]
        BY <1>4, <3>1, <4>1 DEF at, len
      <4>3. e[c] = Closed(s)[c]
        BY <1>10, <3>1
      <4> QED
        BY <4>1, <4>2, <4>3
    <3> QED
      BY <3>2, <3>3
  <2> QED
    BY <1>12, <2>1, SameRecord
<1>14. ASSUME NEW t \in U
       PROVE  /\ upper + len <= Offset(e, t) /\ 1 <= Length(e, t)
              /\ Offset(e, t) + Length(e, t) <= DataSize
  BY <1>1, <1>8, <1>11, <1>12, <1>14, DataSizeAssumption
<1>15. ASSUME NEW t \in U, NEW u \in U, t # u
       PROVE  \/ Offset(e, t) + Length(e, t) <= Offset(e, u)
              \/ Offset(e, u) + Length(e, u) <= Offset(e, t)
  <2>1. \/ Offset(data, t) + Length(data, t) <= Offset(data, u)
        \/ Offset(data, u) + Length(data, u) <= Offset(data, t)
    BY <1>15, LayoutRecord DEF U
  <2>2. Length(e, t) = Length(data, t) /\ Length(e, u) = Length(data, u)
    BY <1>12
  <2>3. CASE (t \in Movers(s)) <=> (u \in Movers(s))
    BY <1>1, <1>8, <1>11, <2>1, <2>2, <2>3
  <2>4. CASE t \in Movers(s) /\ u \notin Movers(s)
    BY <1>1, <1>8, <1>11, <2>2, <2>4
  <2>5. CASE t \notin Movers(s) /\ u \in Movers(s)
    BY <1>1, <1>8, <1>11, <2>2, <2>5
  <2> QED
    BY <2>3, <2>4, <2>5
<1>16. ASSUME NEW c \in (upper + len)..(DataSize - 1) PROVE \E t \in U : c \in Extent(e, t)
  <2>1. CASE c < at + len
    <3>1. c - len \in CellsOf(Movers(s))
      BY <1>1, <1>9, <2>1
    <3>2. PICK t \in Movers(s) : c - len \in Extent(data, t)
      BY <3>1 DEF CellsOf
    <3>3. t \in U
      BY <1>9
    <3>4. c \in Extent(e, t)
      BY <1>1, <1>8, <1>11, <1>12, <3>2, <3>3, DataSizeAssumption DEF Extent
    <3> QED
      BY <3>3, <3>4
  <2>2. CASE ~(c < at + len)
    <3>1. c \in upper..(DataSize - 1) /\ at + len <= c
      BY <1>1, <2>2, DataSizeAssumption
    <3>2. PICK t \in UsedSlots : c \in Extent(data, t)
      BY <3>1 DEF Layout
    <3>3. t \in U
      <4>1. t # s
        BY <1>1, <3>1, <3>2 DEF Extent, at, len
      <4> QED
        BY <4>1 DEF U
    <3>4. t \notin Movers(s)
      BY <1>1, <1>8, <1>9, <3>1, <3>2, <3>3 DEF Extent
    <3>5. c \in Extent(e, t)
      BY <1>11, <1>12, <3>2, <3>3, <3>4 DEF Extent
    <3> QED
      BY <3>3, <3>5
  <2> QED
    BY <2>1, <2>2
<1>17. Fits(n, upper + len)
  BY <1>1, DataSizeAssumption DEF Fits, SlotSize
<1>18. U \subseteq 1..n
  BY <1>8
<1>19. Layout(e, n, upper + len, U)
  BY <1>6, <1>14, <1>15, <1>16, <1>17, <1>18 DEF Layout
<1>20. Layout(e, num_slots, upper + Length(data, s), UsedSlots \ {s})
  BY <1>19 DEF U, len
<1>21. \A t \in 1..num_slots : t # s => Used(e, t) = Used(data, t)
  BY <1>7
<1>22. \A t \in UsedSlots \ {s} : RecordIn(e, t) = RecordIn(data, t)
  BY <1>13 DEF U
<1> QED
  BY <1>6, <1>20, <1>21, <1>22

-----------------------------------------------------------------------------
(* Slots *)

\* As many slots as are in use.
LEMMA UsedCount ==
    ASSUME num_slots \in Nat
    PROVE  IsFiniteSet(UsedSlots) /\ Cardinality(UsedSlots) \in 0..num_slots
<1>1. 1 \in Int /\ num_slots \in Int
  OBVIOUS
<1>2. IsFiniteSet(1..num_slots) /\ Cardinality(1..num_slots) = num_slots
  BY <1>1, FS_Interval
<1>3. UsedSlots \in SUBSET (1..num_slots)
  BY DEF UsedSlots
<1>4. IsFiniteSet(UsedSlots) /\ Cardinality(UsedSlots) <= Cardinality(1..num_slots)
  BY <1>2, <1>3, FS_Subset
<1>5. Cardinality(UsedSlots) \in Nat
  BY <1>4, FS_CardinalityType
<1> QED
  BY <1>2, <1>4, <1>5

\* When the last record goes, the slots that go with it are all that follow
\* the last slot in use before it.
LEMMA SlotsGoWithLast ==
    ASSUME num_slots \in UsedSlots, num_slots \in Nat,
           NEW gone, gone = Cardinality(TrailingSlots)
    PROVE  /\ gone \in 1..num_slots
           /\ UsedSlots \ {num_slots} \subseteq 1..(num_slots - gone)
           /\ num_slots - gone # 0 => num_slots - gone \in UsedSlots \ {num_slots}
<1> DEFINE T == TrailingSlots
<1>1. /\ num_slots \in 1..num_slots /\ UsedSlots \subseteq 1..num_slots
  BY DEF UsedSlots
<1>2. T \in SUBSET Nat /\ num_slots \in T
  BY <1>1 DEF TrailingSlots
<1>3. PICK l \in T : \A i \in T : l <= i
  <2> HIDE DEF T
  <2> QED
    BY <1>2, LeastNatural
<1>4. l \in 1..num_slots /\ \A u \in l..(num_slots - 1) : u \notin UsedSlots
  BY <1>3 DEF TrailingSlots
<1>5. T = l..num_slots
  <2>1. ASSUME NEW i \in T PROVE i \in l..num_slots
    BY <1>3, <1>4 DEF TrailingSlots
  <2>2. ASSUME NEW i \in l..num_slots PROVE i \in T
    <3>1. i \in 1..num_slots /\ \A u \in i..(num_slots - 1) : u \in l..(num_slots - 1)
      BY <1>4
    <3>2. (i..(num_slots - 1)) \cap UsedSlots = {}
      BY <1>4, <3>1
    <3> QED
      BY <3>1, <3>2 DEF TrailingSlots
  <2> QED
    BY <2>1, <2>2
<1>6. gone = num_slots - l + 1
  <2>1. l \in Int /\ num_slots \in Int /\ ~(l > num_slots)
    BY <1>4
  <2>2. Cardinality(l..num_slots) = num_slots - l + 1
    BY <2>1, FS_Interval
  <2> QED
    BY <1>5, <2>2
<1>7. num_slots - gone = l - 1
  BY <1>4, <1>6
<1>8. ASSUME NEW u \in UsedSlots \ {num_slots} PROVE u \in 1..(l - 1)
  <2>1. u \in 1..num_slots /\ u # num_slots /\ u \notin l..(num_slots - 1)
    BY <1>1, <1>4
  <2> QED
    BY <1>4, <2>1
<1>9. ASSUME l - 1 # 0 PROVE l - 1 \in UsedSlots \ {num_slots}
  <2>1. l - 1 \in 1..num_slots /\ l - 1 \notin T
    BY <1>4, <1>5, <1>9
  <2>2. PICK u \in (l - 1)..(num_slots - 1) : u \in UsedSlots
    BY <2>1 DEF TrailingSlots
  <2>3. u = l - 1 /\ u # num_slots
    BY <1>4, <2>2
  <2> QED
    BY <2>2, <2>3
<1> QED
  BY <1>4, <1>6, <1>7, <1>8, <1>9

\* A record that clients store is a sequence of one cell or more.
LEMMA RecordType ==
    ASSUME <<>> \notin Records, NEW r \in Records
    PROVE  r \in Seq(Nat) /\ r # <<>> /\ Len(r) \in Nat /\ 1 <= Len(r) /\ r # NoRecord
<1>1. r \in Seq(Nat) /\ r # <<>>
  BY RecordsAssumption
<1> QED
  BY <1>1, NoRecordAssumption

-----------------------------------------------------------------------------
(* The calls *)

\* An insertion that opens no slot over stale cells: one slot more is in use,
\* with the record, and each other has the record it had.
LEMMA InsertParts ==
    ASSUME PageInv, CleanSlots, <<>> \notin Records,
           NEW r \in Records, InsertRecord(r), NEW s, s = AvailableSlot
    PROVE  /\ s \in 1..num_slots' /\ s \notin UsedSlots
           /\ Layout(data', num_slots', upper', UsedSlots')
           /\ UsedSlots' = UsedSlots \cup {s}
           /\ RecordIn(data', s) = r
           /\ \A t \in UsedSlots : RecordIn(data', t) = RecordIn(data, t)
           /\ lower' = SlotSize * num_slots' /\ SlotsCounted'
           /\ num_slots' # 0 => num_slots' \in UsedSlots'
<1>1. /\ Layout(data, num_slots, upper, UsedSlots) /\ Fits(num_slots, upper)
      /\ num_slots \in Nat /\ upper \in Nat /\ upper <= DataSize
      /\ UsedSlots \subseteq 1..num_slots
  BY DEF PageInv, Layout, Fits
<1>2. r \in Seq(Nat) /\ r # <<>> /\ Len(r) \in Nat /\ 1 <= Len(r)
  BY RecordType
<1>3. ~Used(data, s)
  BY DEF InsertRecord, SlotInUse
<1>4. /\ num_slots' = (IF OpensSlot THEN num_slots + 1 ELSE num_slots)
      /\ lower' = (IF OpensSlot THEN SlotSize * num_slots' ELSE lower)
      /\ num_free_slots' = num_free_slots + (IF OpensSlot THEN 1 ELSE 0) - 1
      /\ upper' = upper - Len(r)
      /\ data' = Stored(data, s, r, upper)
  BY <1>3 DEF InsertRecord, SlotInUse
<1>5. /\ s \in 1..num_slots'
      /\ \A t \in 1..num_slots' : t # s => t \in 1..num_slots
      /\ num_slots <= num_slots' /\ num_slots' \in Nat
      /\ OpensSlot => s = num_slots'
  <2>1. CASE OpensSlot
    BY <1>1, <1>4, <2>1 DEF AvailableSlot
  <2>2. CASE ~OpensSlot
    <3> DEFINE F == (1..num_slots) \ UsedSlots
    <3>1. F \in SUBSET Nat /\ F # {}
      <4>1. SlotFound
        BY DEF InsertRecord
      <4>2. UsedSlots # 1..num_slots
        <5> HIDE DEF F
        <5> QED
          BY <2>2, <4>1 DEF SlotFound
      <4>3. F \in SUBSET Nat
        BY <1>1
      <4>4. ASSUME F = {} PROVE FALSE
        <5>1. 1..num_slots \subseteq UsedSlots
          BY <4>4
        <5> HIDE DEF F
        <5> QED
          BY <1>1, <4>2, <5>1
      <4> HIDE DEF F
      <4> QED
        BY <4>3, <4>4
    <3>2. \E x \in F : \A y \in F : x <= y
      <4> HIDE DEF F
      <4> QED
        BY <3>1, LeastNatural
    <3>3. s = Min(F)
      BY <2>2 DEF AvailableSlot
    <3>4. s \in F
      <4> HIDE DEF F
      <4> QED
        BY <3>2, <3>3 DEF Min
    <3> QED
      BY <1>1, <1>4, <2>2, <3>4
  <2> QED
    BY <2>1, <2>2
<1>6. s \notin UsedSlots
  BY <1>3 DEF UsedSlots
<1>7. Fits(num_slots', upper') /\ lower' = SlotSize * num_slots'
  <2>1. lower = SlotSize * num_slots
    BY DEF PageInv
  <2>2. Len(r) + (IF OpensSlot THEN SlotSize ELSE 0) <= upper - lower
    BY DEF InsertRecord, HasSpaceForRecord, FreeSpace, OpensSlot
  <2>3. CASE OpensSlot
    BY <1>1, <1>2, <1>4, <2>1, <2>2, <2>3, DataSizeAssumption DEF Fits, SlotSize
  <2>4. CASE ~OpensSlot
    BY <1>1, <1>2, <1>4, <2>1, <2>2, <2>4, DataSizeAssumption DEF Fits, SlotSize
  <2> QED
    BY <2>3, <2>4
<1>8. /\ Layout(data', num_slots', upper', UsedSlots \cup {s})
      /\ Used(data', s) /\ \A t \in 1..num_slots' : t # s => Used(data', t) = Used(data, t)
      /\ RecordIn(data', s) = r
      /\ \A t \in UsedSlots : RecordIn(data', t) = RecordIn(data, t)
  <2>1. StoredIn(data, data', num_slots', upper', UsedSlots, s, r)
    BY <1>1, <1>2, <1>4, <1>5, <1>6, <1>7, StoredLayout
  <2> QED
    BY <2>1 DEF StoredIn
<1>9. UsedSlots' = UsedSlots \cup {s}
  <2>1. ASSUME NEW t \in 1..num_slots', t # s PROVE Used(data', t) <=> t \in UsedSlots
    BY <1>5, <1>8, <2>1 DEF UsedSlots
  <2>2. UsedSlots' = {t \in 1..num_slots' : Used(data', t)}
    BY DEF UsedSlots
  <2>3. UsedSlots \subseteq 1..num_slots'
    BY <1>1, <1>5
  <2> QED
    BY <1>5, <1>8, <2>1, <2>2, <2>3
<1>10. SlotsCounted'
  <2>1. /\ Cardinality(UsedSlots) \in Nat
        /\ Cardinality(UsedSlots \cup {s}) = Cardinality(UsedSlots) + 1
    <3>1. IsFiniteSet(UsedSlots) /\ Cardinality(UsedSlots) \in Nat
      BY <1>1, UsedCount
    <3> QED
      BY <1>6, <3>1, FS_AddElement
  <2>2. num_free_slots = num_slots - Cardinality(UsedSlots)
    BY DEF PageInv, SlotsCounted
  <2>3. num_free_slots' = num_slots' - Cardinality(UsedSlots')
    BY <1>1, <1>4, <1>9, <2>1, <2>2
  <2> QED
    BY <2>3 DEF SlotsCounted
<1>11. ASSUME num_slots' # 0 PROVE num_slots' \in UsedSlots'
  <2>1. CASE OpensSlot
    BY <1>5, <1>9, <2>1
  <2>2. CASE ~OpensSlot
    BY <1>4, <1>9, <1>11, <2>2 DEF PageInv
  <2> QED
    BY <2>1, <2>2
<1> QED
  BY <1>5, <1>6, <1>7, <1>8, <1>9, <1>10, <1>11

\* Fewer slots fit as well.
LEMMA FitsFewer ==
    ASSUME NEW n, NEW top, Fits(n, top), NEW m \in Nat, m <= n
    PROVE  Fits(m, top)
BY DEF Fits, SlotSize

\* A deletion: one slot fewer is in use, with the unused slots before the last
\* one given up, and each other record is found as it was.
LEMMA DeleteParts ==
    ASSUME PageInv, NEW s \in 1..num_slots, DeleteRecord(s)
    PROVE  /\ s \in UsedSlots
           /\ Layout(data', num_slots', upper', UsedSlots')
           /\ UsedSlots' = UsedSlots \ {s}
           /\ \A t \in UsedSlots \ {s} : RecordIn(data', t) = RecordIn(data, t)
           /\ lower' = SlotSize * num_slots' /\ SlotsCounted'
           /\ num_slots' # 0 => num_slots' \in UsedSlots'
<1> DEFINE gone == IF s = num_slots THEN Cardinality(TrailingSlots) ELSE 0
           U == UsedSlots \ {s}
<1>1. /\ Layout(data, num_slots, upper, UsedSlots)
      /\ num_slots \in Nat /\ upper \in Nat
      /\ UsedSlots \subseteq 1..num_slots
  BY DEF PageInv, Layout, Fits
<1>2. /\ s \in UsedSlots
      /\ data' = Removed(s)
      /\ upper' = upper + Length(data, s)
      /\ num_slots' = num_slots - gone
      /\ num_free_slots' = num_free_slots + 1 - gone
      /\ lower' = lower - SlotSize * gone
  BY DEF DeleteRecord
<1>3. /\ Layout(data', num_slots, upper', U)
      /\ ~Used(data', s) /\ \A t \in 1..num_slots : t # s => Used(data', t) = Used(data, t)
      /\ \A t \in U : RecordIn(data', t) = RecordIn(data, t)
  BY <1>1, <1>2, RemovedLayout
<1>4. /\ gone \in 0..num_slots
      /\ U \subseteq 1..(num_slots - gone)
      /\ num_slots - gone # 0 => num_slots - gone \in U
  <2>1. CASE s = num_slots
    <3>1. gone = Cardinality(TrailingSlots) /\ num_slots \in UsedSlots
      BY <1>2, <2>1
    <3> HIDE DEF gone
    <3> QED
      BY <1>1, <2>1, <3>1, SlotsGoWithLast
  <2>2. CASE s # num_slots
    <3>1. num_slots \in UsedSlots
      BY <1>1 DEF PageInv
    <3> QED
      BY <1>1, <2>2, <3>1
  <2> QED
    BY <2>1, <2>2
<1> HIDE DEF gone
<1>5. num_slots' \in Nat /\ num_slots' <= num_slots /\ U \subseteq 1..num_slots'
  BY <1>1, <1>2, <1>4
<1>6. UsedSlots' = U
  <2>1. UsedSlots' = {t \in 1..num_slots' : Used(data', t)}
    BY DEF UsedSlots
  <2>2. ASSUME NEW t \in 1..num_slots' PROVE Used(data', t) <=> t \in U
    <3>1. t \in 1..num_slots
      BY <1>1, <1>5
    <3> QED
      BY <1>3, <3>1 DEF UsedSlots
  <2> QED
    BY <1>5, <2>1, <2>2
<1>7. lower' = SlotSize * num_slots'
  BY <1>1, <1>2, <1>4 DEF PageInv, SlotSize
<1>8. Fits(num_slots', upper')
  <2>1. Fits(num_slots, upper')
    BY <1>3 DEF Layout
  <2> HIDE DEF U
  <2> QED
    BY <1>1, <1>5, <2>1, FitsFewer
<1>9. Layout(data', num_slots', upper', UsedSlots')
  BY <1>3, <1>5, <1>6, <1>8 DEF Layout
<1>10. SlotsCounted'
  <2>1. IsFiniteSet(UsedSlots) /\ Cardinality(UsedSlots) \in Nat
    BY <1>1, UsedCount
  <2>2. Cardinality(U) = Cardinality(UsedSlots) - 1
    BY <1>2, <2>1, FS_RemoveElement
  <2>3. num_free_slots = num_slots - Cardinality(UsedSlots)
    BY DEF PageInv, SlotsCounted
  <2> HIDE DEF U
  <2>4. num_free_slots' = num_slots' - Cardinality(U)
    BY <1>1, <1>2, <1>4, <2>1, <2>2, <2>3
  <2> QED
    BY <1>6, <2>4 DEF SlotsCounted
<1> QED
  BY <1>2, <1>3, <1>4, <1>6, <1>7, <1>9, <1>10

\* An update: the same slots are in use, this one with the new record.
LEMMA UpdateParts ==
    ASSUME PageInv, <<>> \notin Records,
           NEW s \in 1..num_slots, NEW r \in Records, UpdateRecord(s, r)
    PROVE  /\ s \in UsedSlots
           /\ Layout(data', num_slots', upper', UsedSlots')
           /\ UsedSlots' = UsedSlots
           /\ RecordIn(data', s) = r
           /\ \A t \in UsedSlots \ {s} : RecordIn(data', t) = RecordIn(data, t)
           /\ lower' = SlotSize * num_slots' /\ SlotsCounted'
           /\ num_slots' # 0 => num_slots' \in UsedSlots'
<1> DEFINE U == UsedSlots \ {s}
           e == Removed(s)
           top == upper + Length(data, s)
<1>1. /\ Layout(data, num_slots, upper, UsedSlots)
      /\ num_slots \in Nat /\ upper \in Nat /\ lower = SlotSize * num_slots
      /\ UsedSlots \subseteq 1..num_slots
  BY DEF PageInv, Layout, Fits
<1>2. /\ s \in UsedSlots
      /\ Len(r) <= FreeSpace + Length(data, s)
      /\ data' = Stored(e, s, r, top)
      /\ upper' = top - Len(r)
      /\ lower' = lower /\ num_slots' = num_slots /\ num_free_slots' = num_free_slots
  <2>1. s \in UsedSlots /\ Len(r) <= FreeSpace + Length(data, s)
    BY DEF UpdateRecord
  <2>2. data' = Stored(e, s, r, top)
    BY DEF UpdateRecord
  <2>3. upper' = top - Len(r)
    <3>1. upper' = upper + Length(data, s) - Len(r)
      BY DEF UpdateRecord
    <3>2. Len(r) \in Nat /\ Length(data, s) \in Nat
      BY <1>1, <2>1, RecordType, LayoutRecord
    <3> QED
      BY <1>1, <3>1, <3>2
  <2>4. lower' = lower /\ num_slots' = num_slots /\ num_free_slots' = num_free_slots
    BY DEF UpdateRecord
  <2> HIDE DEF e, top
  <2> QED
    BY <2>1, <2>2, <2>3, <2>4
<1>3. r \in Seq(Nat) /\ r # <<>> /\ Len(r) \in Nat /\ 1 <= Len(r)
  BY RecordType
<1>4. /\ Layout(e, num_slots, top, U)
      /\ ~Used(e, s) /\ \A t \in 1..num_slots : t # s => Used(e, t) = Used(data, t)
      /\ \A t \in U : RecordIn(e, t) = RecordIn(data, t)
  BY <1>1, <1>2, RemovedLayout
<1>5. top \in Nat /\ top <= DataSize
  BY <1>4 DEF Layout, Fits
<1> HIDE DEF e
<1>6. Fits(num_slots, upper')
  <2>1. upper' \in Int /\ upper' <= DataSize
    BY <1>2, <1>3, <1>5, DataSizeAssumption
  <2>2. Length(data, s) \in Nat
    BY <1>1, <1>2, LayoutRecord
  <2>3. Len(r) <= upper - SlotSize * num_slots + Length(data, s)
    BY <1>1, <1>2 DEF FreeSpace
  <2> QED
    BY <1>1, <1>2, <1>3, <2>1, <2>2, <2>3 DEF Fits, SlotSize
<1> HIDE DEF top
<1>7. StoredIn(e, data', num_slots, upper', U, s, r)
  <2>1. s \in 1..num_slots /\ s \notin U /\ num_slots <= num_slots
    BY <1>1
  <2> HIDE DEF U
  <2> QED
    BY <1>2, <1>3, <1>4, <1>5, <1>6, <2>1, StoredLayout
<1>8. /\ Layout(data', num_slots, upper', U \cup {s})
      /\ Used(data', s) /\ \A t \in 1..num_slots : t # s => Used(data', t) = Used(e, t)
      /\ RecordIn(data', s) = r
      /\ \A t \in U : RecordIn(data', t) = RecordIn(e, t)
  BY <1>7 DEF StoredIn
<1>9. U \cup {s} = UsedSlots
  BY <1>2
<1>10. UsedSlots' = UsedSlots
  <2>1. UsedSlots' = {t \in 1..num_slots : Used(data', t)}
    BY <1>2 DEF UsedSlots
  <2>2. ASSUME NEW t \in 1..num_slots PROVE Used(data', t) <=> Used(data, t)
    <3>1. CASE t = s
      BY <1>2, <1>8, <3>1 DEF UsedSlots
    <3>2. CASE t # s
      BY <1>4, <1>8, <3>2
    <3> QED
      BY <3>1, <3>2
  <2> QED
    BY <2>1, <2>2 DEF UsedSlots
<1>11. SlotsCounted'
  BY <1>2, <1>10 DEF PageInv, SlotsCounted
<1>12. Layout(data', num_slots', upper', UsedSlots')
  BY <1>2, <1>8, <1>9, <1>10
<1>13. num_slots' # 0 => num_slots' \in UsedSlots'
  BY <1>2, <1>10 DEF PageInv
<1>14. \A t \in UsedSlots \ {s} : RecordIn(data', t) = RecordIn(data, t)
  BY <1>4, <1>8
<1>15. lower' = SlotSize * num_slots'
  BY <1>1, <1>2
<1> QED
  BY <1>2, <1>8, <1>10, <1>11, <1>12, <1>13, <1>14, <1>15

LEMMA PageInvInit ==
    PageInit => PageInv
<1> SUFFICES ASSUME PageInit PROVE PageInv
  OBVIOUS
<1>1. /\ num_slots = 0 /\ lower = 0 /\ upper = DataSize /\ num_free_slots = 0
      /\ data = [c \in Cells |-> 0]
  BY DEF PageInit
<1>2. UsedSlots = {}
  BY <1>1 DEF UsedSlots
<1>3. Fits(num_slots, upper)
  BY <1>1, DataSizeAssumption DEF Fits, SlotSize
<1>4. Layout(data, num_slots, upper, UsedSlots)
  BY <1>1, <1>2, <1>3, DataSizeAssumption DEF Layout
<1>5. SlotsCounted
  BY <1>1, <1>2, FS_EmptySet DEF SlotsCounted
<1> QED
  BY <1>1, <1>2, <1>4, <1>5 DEF PageInv, SlotSize

LEMMA PageInvNext ==
    ASSUME CleanSlots, <<>> \notin Records, PageInv, [PageNext]_pageVars
    PROVE  PageInv'
<1>1. ASSUME NEW r \in Records, InsertRecord(r) PROVE PageInv'
  <2> DEFINE s == AvailableSlot
  <2> HIDE DEF s
  <2>1. /\ Layout(data', num_slots', upper', UsedSlots')
        /\ UsedSlots' = UsedSlots \cup {s}
        /\ RecordIn(data', s) = r
        /\ \A t \in UsedSlots : RecordIn(data', t) = RecordIn(data, t)
        /\ lower' = SlotSize * num_slots' /\ SlotsCounted'
        /\ num_slots' # 0 => num_slots' \in UsedSlots'
    BY <1>1, InsertParts DEF s
  <2>2. \A t \in UsedSlots' : RecordIn(data', t) \in Records
    BY <2>1 DEF PageInv
  <2> QED
    BY <2>1, <2>2 DEF PageInv
<1>2. ASSUME NEW s \in 1..num_slots, DeleteRecord(s) PROVE PageInv'
  <2>1. /\ Layout(data', num_slots', upper', UsedSlots')
        /\ UsedSlots' = UsedSlots \ {s}
        /\ \A t \in UsedSlots \ {s} : RecordIn(data', t) = RecordIn(data, t)
        /\ lower' = SlotSize * num_slots' /\ SlotsCounted'
        /\ num_slots' # 0 => num_slots' \in UsedSlots'
    BY <1>2, DeleteParts
  <2>2. \A t \in UsedSlots' : RecordIn(data', t) \in Records
    BY <2>1 DEF PageInv
  <2> QED
    BY <2>1, <2>2 DEF PageInv
<1>3. ASSUME NEW s \in 1..num_slots, NEW r \in Records, UpdateRecord(s, r) PROVE PageInv'
  <2>1. /\ Layout(data', num_slots', upper', UsedSlots')
        /\ UsedSlots' = UsedSlots
        /\ RecordIn(data', s) = r
        /\ \A t \in UsedSlots \ {s} : RecordIn(data', t) = RecordIn(data, t)
        /\ lower' = SlotSize * num_slots' /\ SlotsCounted'
        /\ num_slots' # 0 => num_slots' \in UsedSlots'
    BY <1>3, UpdateParts
  <2>2. \A t \in UsedSlots' : RecordIn(data', t) \in Records
    BY <2>1 DEF PageInv
  <2> QED
    BY <2>1, <2>2 DEF PageInv
<1>4. CASE UNCHANGED pageVars
  BY <1>4 DEF pageVars, PageInv, UsedSlots, SlotsCounted
<1> QED
  BY <1>1, <1>2, <1>3, <1>4 DEF PageNext

LEMMA PageInvariance ==
    ASSUME CleanSlots, <<>> \notin Records
    PROVE  PageSpec => []PageInv
<1>1. PageInv /\ [PageNext]_pageVars => PageInv'
  BY PageInvNext
<1> QED
  BY <1>1, PageInvInit, PTL DEF PageSpec

\* A page of DataSize cells has MaxSlots slots at most.
LEMMA SlotsBounded ==
    ASSUME NEW n, NEW top, Fits(n, top)
    PROVE  n \in 0..MaxSlots
<1>1. n \in Nat /\ 3 * n <= DataSize /\ DataSize \in Nat
  BY DataSizeAssumption DEF Fits, SlotSize
<1>2. DataSize \div 3 \in Nat /\ DataSize < 3 * (DataSize \div 3) + 3
  BY <1>1
<1> QED
  BY <1>1, <1>2 DEF MaxSlots, SlotSize

-----------------------------------------------------------------------------
(* The properties of a page *)

\* Type correctness (class Page, page.h): the bounds of the free space stay on
\* the page, and the slots that are counted fit on it.
THEOREM PageIsTyped ==
    ASSUME CleanSlots, <<>> \notin Records
    PROVE  PageSpec => []PageTypeOK
<1>1. PageInv => PageTypeOK
  <2> SUFFICES ASSUME PageInv PROVE PageTypeOK
    OBVIOUS
  <2>1. /\ data \in [Cells -> Nat] /\ Fits(num_slots, upper)
        /\ lower = SlotSize * num_slots
    BY DEF PageInv, Layout
  <2>2. num_slots \in 0..MaxSlots
    BY <2>1, SlotsBounded
  <2>3. upper \in 0..DataSize /\ lower \in 0..DataSize
    BY <2>1, DataSizeAssumption DEF Fits, SlotSize
  <2>4. num_free_slots \in 0..MaxSlots
    <3>1. Cardinality(UsedSlots) \in 0..num_slots
      BY <2>2, UsedCount
    <3>2. MaxSlots \in Int
      BY DataSizeAssumption DEF MaxSlots, SlotSize
    <3> QED
      BY <2>2, <3>1, <3>2 DEF PageInv, SlotsCounted
  <2> QED
    BY <2>1, <2>2, <2>3, <2>4 DEF PageTypeOK
<1> QED
  BY <1>1, PageInvariance, PTL

\* Slots and records fill their ends of the page without a gap or an overlap,
\* and the last slot is in use (deleteRecord's compaction of both).
THEOREM SpaceIsExact ==
    ASSUME CleanSlots, <<>> \notin Records
    PROVE  PageSpec => []SpaceExact
<1>1. PageInv => SpaceExact
  <2> SUFFICES ASSUME PageInv PROVE SpaceExact
    OBVIOUS
  <2>1. /\ Layout(data, num_slots, upper, UsedSlots) /\ Fits(num_slots, upper)
        /\ lower = SlotSize * num_slots
        /\ num_slots # 0 => num_slots \in UsedSlots
    BY DEF PageInv, Layout
  <2>2. lower <= upper
    BY <2>1 DEF Fits, SlotSize
  <2>3. ASSUME NEW s \in UsedSlots, NEW c \in Extent(data, s)
        PROVE  c \in upper..(DataSize - 1)
    BY <2>1, LayoutRecord, DataSizeAssumption DEF Extent
  <2>4. ASSUME NEW c \in upper..(DataSize - 1)
        PROVE  \E s \in UsedSlots : c \in Extent(data, s)
    BY <2>1 DEF Layout
  <2>5. UNION {Extent(data, s) : s \in UsedSlots} = upper..(DataSize - 1)
    BY <2>3, <2>4
  <2>6. ASSUME NEW s \in UsedSlots, NEW t \in UsedSlots, s # t
        PROVE  Extent(data, s) \cap Extent(data, t) = {}
    <3>1. \/ Offset(data, s) + Length(data, s) <= Offset(data, t)
          \/ Offset(data, t) + Length(data, t) <= Offset(data, s)
      BY <2>1, <2>6, LayoutRecord
    <3>2. /\ Offset(data, s) \in Nat /\ Length(data, s) \in Nat
          /\ Offset(data, t) \in Nat /\ Length(data, t) \in Nat
      BY <2>1, LayoutRecord
    <3> QED
      BY <3>1, <3>2 DEF Extent
  <2> QED
    BY <2>1, <2>2, <2>5, <2>6 DEF SpaceExact
<1> QED
  BY <1>1, PageInvariance, PTL

\* A page implements the store of records of page.h: whatever is inserted,
\* updated, deleted and moved, a record is found under its slot as it was
\* written.
THEOREM PageImplementsStore ==
    ASSUME CleanSlots, <<>> \notin Records
    PROVE  PageSpec => PageImplemented
<1>1. ASSUME PageInit PROVE Kept!Init
  <2>1. UsedSlots = {}
    BY <1>1 DEF PageInit, UsedSlots
  <2> QED
    BY <2>1 DEF Kept!Init, RecordsNow
<1>2. ASSUME PageInv, [PageNext]_pageVars PROVE [Kept!Next]_RecordsNow
  <2>1. \A s \in UsedSlots : s \in 1..MaxSlots /\ RecordIn(data, s) # NoRecord
    <3>1. Fits(num_slots, upper) /\ UsedSlots \subseteq 1..num_slots
      BY <1>2 DEF PageInv, Layout
    <3>2. num_slots \in 0..MaxSlots /\ MaxSlots \in Int
      BY <3>1, SlotsBounded, DataSizeAssumption DEF MaxSlots, SlotSize
    <3>3. \A s \in UsedSlots : RecordIn(data, s) # NoRecord
      BY <1>2, NoRecordAssumption DEF PageInv
    <3> QED
      BY <3>1, <3>2, <3>3
  <2>2. RecordsNow' =
            [s \in 1..MaxSlots |-> IF s \in UsedSlots' THEN RecordIn(data', s) ELSE NoRecord]
    BY DEF RecordsNow
  <2>3. ASSUME NEW r \in Records, InsertRecord(r) PROVE Kept!Next
    <3> DEFINE s == AvailableSlot
    <3> HIDE DEF s
    <3>1. /\ s \in 1..num_slots' /\ s \notin UsedSlots
          /\ Layout(data', num_slots', upper', UsedSlots')
          /\ UsedSlots' = UsedSlots \cup {s}
          /\ RecordIn(data', s) = r
          /\ \A t \in UsedSlots : RecordIn(data', t) = RecordIn(data, t)
      BY <1>2, <2>3, InsertParts DEF s
    <3>2. s \in 1..MaxSlots
      <4>1. Fits(num_slots', upper')
        BY <3>1 DEF Layout
      <4>2. num_slots' \in 0..MaxSlots /\ MaxSlots \in Int
        BY <4>1, SlotsBounded, DataSizeAssumption DEF MaxSlots, SlotSize
      <4> QED
        BY <3>1, <4>2
    <3>3. RecordsNow[s] = NoRecord
      BY <3>1, <3>2 DEF RecordsNow
    <3>4. RecordsNow' = [RecordsNow EXCEPT ![s] = r]
      BY <2>2, <3>1, <3>2 DEF RecordsNow
    <3> QED
      BY <2>3, <3>2, <3>3, <3>4 DEF Kept!Next, Kept!Insert
  <2>4. ASSUME NEW s \in 1..num_slots, DeleteRecord(s) PROVE Kept!Next
    <3>1. /\ s \in UsedSlots /\ UsedSlots' = UsedSlots \ {s}
          /\ \A t \in UsedSlots \ {s} : RecordIn(data', t) = RecordIn(data, t)
      BY <1>2, <2>4, DeleteParts
    <3>2. s \in 1..MaxSlots /\ RecordsNow[s] # NoRecord
      BY <2>1, <3>1 DEF RecordsNow
    <3>3. RecordsNow' = [RecordsNow EXCEPT ![s] = NoRecord]
      BY <2>2, <3>1, <3>2 DEF RecordsNow
    <3> QED
      BY <3>2, <3>3 DEF Kept!Next, Kept!Delete
  <2>5. ASSUME NEW s \in 1..num_slots, NEW r \in Records, UpdateRecord(s, r) PROVE Kept!Next
    <3>1. /\ s \in UsedSlots /\ UsedSlots' = UsedSlots
          /\ RecordIn(data', s) = r
          /\ \A t \in UsedSlots \ {s} : RecordIn(data', t) = RecordIn(data, t)
      BY <1>2, <2>5, UpdateParts
    <3>2. s \in 1..MaxSlots /\ RecordsNow[s] # NoRecord
      BY <2>1, <3>1 DEF RecordsNow
    <3>3. RecordsNow' = [RecordsNow EXCEPT ![s] = r]
      BY <2>2, <3>1, <3>2 DEF RecordsNow
    <3> QED
      BY <2>5, <3>2, <3>3 DEF Kept!Next, Kept!Update
  <2>6. CASE UNCHANGED pageVars
    BY <2>2, <2>6 DEF pageVars, RecordsNow, UsedSlots
  <2> QED
    BY <1>2, <2>3, <2>4, <2>5, <2>6 DEF PageNext
<1>3. PageInv /\ [PageNext]_pageVars => [Kept!Next]_RecordsNow
  BY <1>2
<1> QED
  BY <1>1, <1>3, PageInvariance, PTL DEF PageSpec, PageImplemented, Kept!Spec
====
