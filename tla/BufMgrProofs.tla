----------------------------- MODULE BufMgrProofs -----------------------------
(***************************************************************************)
(* What holds of the buffer manager for every number of frames, pages,     *)
(* files, File objects and clients: its type invariant, that the           *)
(* descriptors and the hash table agree, and, for clients that do not      *)
(* dispose of a pinned page, that pins are counted and kept.  When, beside *)
(* that, each file is read through one File object, the pool is a cache:   *)
(* what a frame is given up without writing is on the disk, and clients    *)
(* see a store of pages.                                                   *)
(***************************************************************************)
EXTENDS BufMgr, StorageLemmas

-----------------------------------------------------------------------------
(* The inductive invariant, by the parts of the state it is about *)

\* The pages in every file carry their own numbers.
IsDisk(d) == d \in [Files -> FileImage] /\ \A n \in Files : Numbered(d[n])

\* An entry of the hash table k leads to the frame that holds its page.
EntriesLead(t, k) ==
    \A h \in Handles, p \in PageIds :
        k[h][p] # NoFrame => /\ t[k[h][p]].valid
                             /\ t[k[h][p]].file = h
                             /\ t[k[h][p]].pageNo = p

\* A valid frame f is in the hash table and holds the bytes of its page.
Hashed(t, k, b, f) ==
    t[f].valid => /\ t[f].file \in Handles
                  /\ t[f].pageNo \in PageIds
                  /\ k[t[f].file][t[f].pageNo] = f
                  /\ b[f].num = t[f].pageNo

\* Descriptors t, hash table k and page bytes b are those of one pool.
IsPool(t, k, b) ==
    /\ t \in [Frames -> BufDesc]
    /\ k \in [Handles -> [PageIds -> 0..NumBufs]]
    /\ b \in [Frames -> Page]
    /\ EntriesLead(t, k)
    /\ \A f \in Frames : Hashed(t, k, b, f)
    /\ \A f \in Frames : ~t[f].valid => t[f] = Clear

IsRest == /\ session \in [Clients -> Session]
          /\ bufStats \in Counters

IInv == /\ clockHand \in Frames
        /\ IsPool(bufDescTable, hash, bufPool)
        /\ IsDisk(disk)
        /\ IsRest

\* The inductive invariant gives the type invariant and the agreement of the
\* descriptors with the hash table.
LEMMA InvImplies == IInv => TypeOK /\ PoolConsistent
  BY DEF IInv, IsPool, IsDisk, IsRest, TypeOK, PoolConsistent, EntriesLead, Hashed,
         EntryDescribesFrame, ValidFrameIsHashed, FreeFrameIsClear

-----------------------------------------------------------------------------
(* Frames, descriptors, counters *)

\* No frame has the number that stands for none.
LEMMA NoFrameIsNone == NoFrame \notin Frames /\ Frames \subseteq 0..NumBufs /\ NoFrame \in 0..NumBufs
  BY NumBufsAssumption DEF NoFrame, Frames

\* BufDesc::Clear and BufDesc::Set give descriptors.
LEMMA DescType ==
    /\ Clear \in BufDesc
    /\ ~Clear.valid /\ Clear.pinCnt = 0 /\ Clear.file = NoHandle
    /\ \A h \in Handles, p \in PageIds :
          /\ Set(h, p) \in BufDesc
          /\ Set(h, p).valid /\ Set(h, p).pinCnt = 1
          /\ Set(h, p).file = h /\ Set(h, p).pageNo = p
  BY PageNumbers DEF Clear, Set, BufDesc

\* A descriptor is its six fields.
LEMMA DescEqual ==
    ASSUME NEW r \in BufDesc, NEW s \in BufDesc,
           r.file = s.file, r.pageNo = s.pageNo, r.pinCnt = s.pinCnt,
           r.dirty <=> s.dirty, r.valid <=> s.valid, r.refbit <=> s.refbit
    PROVE  r = s
  BY DEF BufDesc

\* What readPage does to the descriptor of a page in the pool.
LEMMA ReadDesc ==
    ASSUME NEW d \in BufDesc, d.valid
    PROVE  LET r == [d EXCEPT !.refbit = TRUE, !.pinCnt = @ + 1]
           IN  /\ r \in BufDesc /\ r.valid /\ r.file = d.file /\ r.pageNo = d.pageNo
               /\ r.pinCnt = d.pinCnt + 1
<1>1. d.pinCnt + 1 \in Nat /\ TRUE \in BOOLEAN
  BY DEF BufDesc
<1> QED
  BY <1>1 DEF BufDesc

\* What unPinPage does to the descriptor of a pinned page.
LEMMA UnPinDesc ==
    ASSUME NEW d \in BufDesc, d.valid, d.pinCnt > 0, NEW dirty \in BOOLEAN
    PROVE  LET r == [d EXCEPT !.pinCnt = @ - 1, !.dirty = @ \/ dirty]
           IN  /\ r \in BufDesc /\ r.valid /\ r.file = d.file /\ r.pageNo = d.pageNo
               /\ r.pinCnt = d.pinCnt - 1
<1>1. d.pinCnt - 1 \in Nat
  BY DEF BufDesc
<1>2. (d.dirty \/ dirty) \in BOOLEAN
  OBVIOUS
<1> QED
  BY <1>1, <1>2 DEF BufDesc

\* A counter stays within its bound.
LEMMA PlusType ==
    ASSUME NEW a \in 0..StatCap, NEW n \in Nat
    PROVE  Plus(a, n) \in 0..StatCap
  BY StatCapAssumption DEF Plus

\* Counting keeps the counters counters.
LEMMA CountType ==
    ASSUME bufStats \in Counters, NEW a \in Nat, NEW r \in Nat, NEW w \in Nat,
           Count(a, r, w)
    PROVE  bufStats' \in Counters
<1>1. /\ bufStats.accesses \in 0..StatCap
      /\ bufStats.diskreads \in 0..StatCap
      /\ bufStats.diskwrites \in 0..StatCap
  BY DEF Counters
<1>2. /\ Plus(bufStats.accesses, a) \in 0..StatCap
      /\ Plus(bufStats.diskreads, r) \in 0..StatCap
      /\ Plus(bufStats.diskwrites, w) \in 0..StatCap
  BY <1>1, PlusType
<1> QED
  BY <1>2 DEF Count, Counters

\* A set of frames that is not empty has a last one.
LEMMA LastFrame ==
    ASSUME NEW W \in SUBSET Frames, W # {}
    PROVE  \E f \in W : \A g \in W : g <= f
<1> DEFINE T == {NumBufs - f : f \in W}
<1>1. T \in SUBSET Nat /\ T # {}
  BY NumBufsAssumption DEF Frames
<1>2. PICK t \in T : \A u \in T : t <= u
  <2> HIDE DEF T
  <2> QED
    BY <1>1, LeastNatural
<1>3. PICK f \in W : t = NumBufs - f
  BY <1>2
<1>4. ASSUME NEW g \in W PROVE g <= f
  <2>1. NumBufs - f <= NumBufs - g
    BY <1>2, <1>3
  <2>2. f \in Int /\ g \in Int /\ NumBufs \in Int
    BY NumBufsAssumption DEF Frames
  <2> QED
    BY <2>1, <2>2
<1> QED
  BY <1>4

-----------------------------------------------------------------------------
(* The disk *)

\* Writing valid frames back keeps the files files, and every page where it was.
LEMMA WrittenBackType ==
    ASSUME NEW d, IsDisk(d), IsPool(bufDescTable, hash, bufPool),
           NEW S \in SUBSET Frames, \A f \in S : bufDescTable[f].valid
    PROVE  IsDisk(WrittenBack(d, S))
<1> DEFINE W(n, p) == {f \in S : FileIn(f) = n /\ bufPool[f].num = p}
           last(n, p) == CHOOSE f \in W(n, p) : \A g \in W(n, p) : g <= f
           pg(n, p) == IF W(n, p) = {} THEN d[n].page[p]
                       ELSE [bufPool[last(n, p)] EXCEPT !.next = d[n].page[p].next]
           new(n) == [d[n] EXCEPT !.page = [p \in PageIds |-> pg(n, p)]]
<1>1. ASSUME NEW n \in Files PROVE new(n) \in FileImage /\ Numbered(new(n))
  <2>1. d[n] \in FileImage /\ Numbered(d[n])
    BY DEF IsDisk
  <2>2. ASSUME NEW p \in PageIds
        PROVE  pg(n, p) \in Page /\ pg(n, p).num \in {NoPage, p}
    <3>1. CASE W(n, p) = {}
      <4>1. pg(n, p) = d[n].page[p]
        BY <3>1
      <4> HIDE DEF pg
      <4> QED
        BY <2>1, <4>1, FileParts DEF Numbered
    <3>2. CASE W(n, p) # {}
      <4>1. W(n, p) \in SUBSET Frames
        OBVIOUS
      <4>2. last(n, p) \in W(n, p)
        <5> HIDE DEF W
        <5> QED
          BY <3>2, <4>1, LastFrame
      <4>3. bufPool[last(n, p)] \in Page /\ bufPool[last(n, p)].num = p
        <5> HIDE DEF last
        <5> QED
          BY <4>2 DEF IsPool
      <4>4. d[n].page[p].next \in PageRefs
        BY <2>1, FileParts
      <4>5. pg(n, p) = [bufPool[last(n, p)] EXCEPT !.next = d[n].page[p].next]
        BY <3>2
      <4> HIDE DEF pg, last
      <4> QED
        BY <4>3, <4>4, <4>5 DEF Page
    <3> QED
      BY <3>1, <3>2
  <2>3. [p \in PageIds |-> pg(n, p)] \in [PageIds -> Page]
    <3> HIDE DEF pg
    <3> QED
      BY <2>2
  <2> HIDE DEF pg
  <2>4. new(n) \in FileImage
    BY <2>1, <2>3 DEF FileImage
  <2>5. \A p \in PageIds : new(n).page[p] = pg(n, p)
    BY <2>1 DEF FileImage
  <2> HIDE DEF new
  <2> QED
    BY <2>2, <2>4, <2>5 DEF Numbered
<1>2. WrittenBack(d, S) = [n \in Files |-> new(n)]
  BY DEF WrittenBack
<1> HIDE DEF new
<1> QED
  BY <1>1, <1>2 DEF IsDisk

\* Giving up the victim keeps the disk a disk, written or not.
LEMMA DiskAfterType ==
    ASSUME NEW d, IsDisk(d), IsPool(bufDescTable, hash, bufPool), victim \in Frames
    PROVE  IsDisk(DiskAfter(d))
<1>1. CASE VictimDirty
  <2>1. IsDisk(WrittenBack(d, {victim}))
    BY <1>1, WrittenBackType DEF VictimDirty
  <2> QED
    BY <1>1, <2>1 DEF DiskAfter
<1>2. CASE ~VictimDirty
  BY <1>2 DEF DiskAfter
<1> QED
  BY <1>1, <1>2

\* The file that grew is a file.
LEMMA GrownDiskType ==
    ASSUME IsDisk(disk), NEW h \in Handles, CanAllocate(h)
    PROVE  /\ IsDisk(GrownDisk(h))
           /\ NewNumber(h) \in PageIds
           /\ NewPage(disk[FileOf[h]]) \in Page
           /\ NewPage(disk[FileOf[h]]).num = NewNumber(h)
<1>1. FileOf[h] \in Files
  BY FileOfAssumption
<1>2. disk[FileOf[h]] \in FileImage /\ Numbered(disk[FileOf[h]])
  BY <1>1 DEF IsDisk
<1>3. /\ Allocated(disk[FileOf[h]]) \in FileImage
      /\ Numbered(Allocated(disk[FileOf[h]]))
      /\ NewPage(disk[FileOf[h]]) \in Page
      /\ NewPage(disk[FileOf[h]]).num = NewNumber(h)
  BY <1>2, AllocatedType DEF CanAllocate, NewNumber
<1> QED
  BY <1>1, <1>3 DEF IsDisk, GrownDisk, CanAllocate, NewNumber

\* The file that lost a page is a file.
LEMMA ShrunkDiskType ==
    ASSUME IsDisk(disk), NEW h \in Handles, NEW p \in PageIds,
           ~DeleteFails(disk[FileOf[h]], p)
    PROVE  IsDisk([disk EXCEPT ![FileOf[h]] = Deleted(@, p)])
<1>1. FileOf[h] \in Files
  BY FileOfAssumption
<1>2. disk[FileOf[h]] \in FileImage /\ Numbered(disk[FileOf[h]])
  BY <1>1 DEF IsDisk
<1>3. /\ Deleted(disk[FileOf[h]], p) \in FileImage
      /\ Numbered(Deleted(disk[FileOf[h]], p))
  BY <1>2, DeletedType
<1> QED
  BY <1>1, <1>3 DEF IsDisk

-----------------------------------------------------------------------------
(* The pool, as allocBuf, the reads, the flush and the disposal change it *)

\* The frames are finitely many.
LEMMA FramesFinite == IsFiniteSet(Frames)
  BY NumBufsAssumption, FS_Interval DEF Frames

\* Clearing reference bits leaves the pool a pool, and changes nothing else.
LEMMA SweptPool ==
    ASSUME IsPool(bufDescTable, hash, bufPool), NEW v \in Frames
    PROVE  /\ IsPool(SweptTable(v), hash, bufPool)
           /\ \A f \in Frames : /\ (SweptTable(v)[f].valid <=> bufDescTable[f].valid)
                                /\ SweptTable(v)[f].file = bufDescTable[f].file
                                /\ SweptTable(v)[f].pageNo = bufDescTable[f].pageNo
                                /\ SweptTable(v)[f].pinCnt = bufDescTable[f].pinCnt
                                /\ (SweptTable(v)[f].dirty <=> bufDescTable[f].dirty)
<1> DEFINE t == SweptTable(v)
<1>1. ASSUME NEW f \in Frames
      PROVE  /\ t[f] \in BufDesc
             /\ (t[f].valid <=> bufDescTable[f].valid)
             /\ t[f].file = bufDescTable[f].file
             /\ t[f].pageNo = bufDescTable[f].pageNo
             /\ t[f].pinCnt = bufDescTable[f].pinCnt
             /\ (t[f].dirty <=> bufDescTable[f].dirty)
             /\ bufDescTable[f] = Clear => t[f] = Clear
  <2>1. bufDescTable[f] \in BufDesc
    BY DEF IsPool
  <2>2. \/ t[f] = [bufDescTable[f] EXCEPT !.refbit = FALSE]
        \/ t[f] = bufDescTable[f]
    BY DEF SweptTable
  <2> HIDE DEF t
  <2>3. CASE t[f] = [bufDescTable[f] EXCEPT !.refbit = FALSE]
    <3>1. t[f] \in BufDesc
      BY <2>1, <2>3 DEF BufDesc
    <3>2. /\ (t[f].valid <=> bufDescTable[f].valid)
          /\ t[f].file = bufDescTable[f].file
          /\ t[f].pageNo = bufDescTable[f].pageNo
          /\ t[f].pinCnt = bufDescTable[f].pinCnt
          /\ (t[f].dirty <=> bufDescTable[f].dirty)
          /\ ~t[f].refbit
      BY <2>1, <2>3 DEF BufDesc
    <3>3. bufDescTable[f] = Clear => t[f] = Clear
      BY <3>1, <3>2, DescType, DescEqual DEF Clear
    <3> QED
      BY <3>1, <3>2, <3>3
  <2> QED
    BY <2>1, <2>2, <2>3
<1>2. t \in [Frames -> BufDesc]
  BY <1>1 DEF SweptTable
<1>3. \A h \in Handles, p \in PageIds : hash[h][p] \in Frames \/ hash[h][p] = NoFrame
  BY NumBufsAssumption DEF IsPool, NoFrame, Frames
<1> HIDE DEF t
<1>4. EntriesLead(t, hash)
  BY <1>1, <1>3 DEF IsPool, EntriesLead
<1>5. \A f \in Frames : Hashed(t, hash, bufPool, f)
  BY <1>1 DEF IsPool, Hashed
<1>6. \A f \in Frames : ~t[f].valid => t[f] = Clear
  BY <1>1 DEF IsPool
<1>7. IsPool(t, hash, bufPool)
  BY <1>2, <1>4, <1>5, <1>6 DEF IsPool
<1> QED
  BY <1>1, <1>7 DEF t

\* A frame may be cleared once the entry of its page is removed.
LEMMA ClearedPool ==
    ASSUME NEW t, NEW k, NEW b, IsPool(t, k, b), NEW f \in Frames,
           NEW h \in Handles, NEW p \in PageIds, k[h][p] = f
    PROVE  IsPool([t EXCEPT ![f] = Clear], [k EXCEPT ![h][p] = NoFrame], b)
<1> DEFINE t2 == [t EXCEPT ![f] = Clear]
           k2 == [k EXCEPT ![h][p] = NoFrame]
<1>1. /\ t2 \in [Frames -> BufDesc]
      /\ k2 \in [Handles -> [PageIds -> 0..NumBufs]]
  BY DescType, NoFrameIsNone DEF IsPool
<1>2. /\ t2[f] = Clear
      /\ \A g \in Frames \ {f} : t2[g] = t[g]
      /\ k2[h][p] = NoFrame
      /\ \A i \in Handles, q \in PageIds : <<i, q>> # <<h, p>> => k2[i][q] = k[i][q]
  BY DEF IsPool
<1>3. t[f].valid /\ t[f].file = h /\ t[f].pageNo = p
  BY NoFrameIsNone DEF IsPool, EntriesLead
<1>4. \A i \in Handles, q \in PageIds :
          k2[i][q] # NoFrame => k2[i][q] = k[i][q] /\ k[i][q] \in Frames \ {f}
  <2> SUFFICES ASSUME NEW i \in Handles, NEW q \in PageIds, k2[i][q] # NoFrame
               PROVE  k2[i][q] = k[i][q] /\ k[i][q] \in Frames \ {f}
    OBVIOUS
  <2>1. <<i, q>> # <<h, p>>
    BY <1>2
  <2>2. k2[i][q] = k[i][q]
    BY <1>2, <2>1
  <2>3. k[i][q] \in Frames
    BY <2>2, NumBufsAssumption DEF IsPool, NoFrame, Frames
  <2>4. k[i][q] # f
    BY <1>3, <2>1, <2>2 DEF IsPool, EntriesLead
  <2> QED
    BY <2>2, <2>3, <2>4
<1>5. EntriesLead(t2, k2)
  <2> HIDE DEF t2, k2
  <2> QED
    BY <1>2, <1>4 DEF IsPool, EntriesLead
<1>6. ASSUME NEW g \in Frames PROVE Hashed(t2, k2, b, g)
  <2>1. CASE g = f
    <3> HIDE DEF t2, k2
    <3> QED
      BY <1>2, <2>1, DescType DEF Hashed
  <2>2. CASE g # f
    <3>1. Hashed(t, k, b, g) /\ t2[g] = t[g]
      BY <1>2, <2>2 DEF IsPool
    <3>2. t[g].valid => <<t[g].file, t[g].pageNo>> # <<h, p>>
      BY <2>2, <3>1 DEF Hashed
    <3> HIDE DEF t2, k2
    <3> QED
      BY <1>2, <3>1, <3>2 DEF Hashed
  <2> QED
    BY <2>1, <2>2
<1>7. \A g \in Frames : ~t2[g].valid => t2[g] = Clear
  <2> HIDE DEF t2
  <2> QED
    BY <1>2 DEF IsPool
<1> HIDE DEF t2, k2
<1>8. IsPool(t2, k2, b)
  BY <1>1, <1>5, <1>6, <1>7 DEF IsPool
<1> QED
  BY <1>8 DEF t2, k2

\* A page that is not in the table may be put into a free frame.
LEMMA InstalledPool ==
    ASSUME NEW t, NEW k, NEW b, IsPool(t, k, b), NEW f \in Frames, t[f] = Clear,
           NEW h \in Handles, NEW p \in PageIds, k[h][p] = NoFrame,
           NEW pg \in Page, pg.num = p
    PROVE  IsPool([t EXCEPT ![f] = Set(h, p)], [k EXCEPT ![h][p] = f],
                  [b EXCEPT ![f] = pg])
<1> DEFINE t2 == [t EXCEPT ![f] = Set(h, p)]
           k2 == [k EXCEPT ![h][p] = f]
           b2 == [b EXCEPT ![f] = pg]
<1>1. /\ t2 \in [Frames -> BufDesc]
      /\ k2 \in [Handles -> [PageIds -> 0..NumBufs]]
      /\ b2 \in [Frames -> Page]
  BY DescType, NoFrameIsNone DEF IsPool
<1>2. /\ t2[f] = Set(h, p) /\ b2[f] = pg
      /\ \A g \in Frames \ {f} : t2[g] = t[g] /\ b2[g] = b[g]
      /\ k2[h][p] = f
      /\ \A i \in Handles, q \in PageIds : <<i, q>> # <<h, p>> => k2[i][q] = k[i][q]
  BY DEF IsPool
<1>3. ~t[f].valid
  BY DescType
<1>4. EntriesLead(t2, k2)
  <2> SUFFICES ASSUME NEW i \in Handles, NEW q \in PageIds, k2[i][q] # NoFrame
               PROVE  /\ t2[k2[i][q]].valid
                      /\ t2[k2[i][q]].file = i
                      /\ t2[k2[i][q]].pageNo = q
    BY DEF EntriesLead
  <2>1. CASE <<i, q>> = <<h, p>>
    <3>1. i = h /\ q = p
      BY <2>1
    <3> HIDE DEF t2, k2, b2
    <3> QED
      BY <1>2, <3>1, DescType
  <2>2. CASE <<i, q>> # <<h, p>>
    <3>1. k2[i][q] = k[i][q]
      BY <1>2, <2>2
    <3>2. /\ t[k[i][q]].valid /\ t[k[i][q]].file = i /\ t[k[i][q]].pageNo = q
      BY <3>1 DEF IsPool, EntriesLead
    <3>3. k[i][q] \in Frames \ {f}
      BY <1>3, <3>1, <3>2, NumBufsAssumption DEF IsPool, NoFrame, Frames
    <3> HIDE DEF t2, k2, b2
    <3> QED
      BY <1>2, <3>1, <3>2, <3>3
  <2> QED
    BY <2>1, <2>2
<1>5. ASSUME NEW g \in Frames PROVE Hashed(t2, k2, b2, g)
  <2>1. CASE g = f
    <3> HIDE DEF t2, k2, b2
    <3> QED
      BY <1>2, <2>1, DescType DEF Hashed
  <2>2. CASE g # f
    <3>1. Hashed(t, k, b, g) /\ t2[g] = t[g] /\ b2[g] = b[g]
      BY <1>2, <2>2 DEF IsPool
    <3>2. t[g].valid => <<t[g].file, t[g].pageNo>> # <<h, p>>
      BY <3>1, NoFrameIsNone DEF Hashed
    <3> HIDE DEF t2, k2, b2
    <3> QED
      BY <1>2, <3>1, <3>2 DEF Hashed
  <2> QED
    BY <2>1, <2>2
<1>6. \A g \in Frames : ~t2[g].valid => t2[g] = Clear
  <2> HIDE DEF t2
  <2> QED
    BY <1>2, DescType DEF IsPool
<1> HIDE DEF t2, k2, b2
<1>7. IsPool(t2, k2, b2)
  BY <1>1, <1>4, <1>5, <1>6 DEF IsPool
<1> QED
  BY <1>7 DEF t2, k2, b2

\* The bytes of a free frame are nobody's.
LEMMA ScribbledPool ==
    ASSUME NEW t, NEW k, NEW b, IsPool(t, k, b), NEW f \in Frames, t[f] = Clear,
           NEW pg \in Page
    PROVE  IsPool(t, k, [b EXCEPT ![f] = pg])
  BY DescType DEF IsPool, Hashed

\* allocBuf picks a frame that is not pinned.
LEMMA VictimIsUnpinned ==
    ASSUME IsPool(bufDescTable, hash, bufPool), clockHand \in Frames, ~Exceeded
    PROVE  /\ victim \in Frames
           /\ bufDescTable[victim].pinCnt = 0
<1>1. Frames \ Busy # {}
  BY DEF Exceeded, Busy
<1>2. victim \in Frames \ Busy
  BY <1>1, VictimIsFirst DEF victim
<1>3. bufDescTable[victim] \in BufDesc
  BY <1>2 DEF IsPool
<1> QED
  BY <1>2, <1>3, DescType DEF Busy, IsPool, BufDesc

\* allocBuf returns a free frame and leaves the pool a pool; every page but
\* the victim's stays where it was, with its pins.
LEMMA FreedPool ==
    ASSUME IsPool(bufDescTable, hash, bufPool), clockHand \in Frames, ~Exceeded
    PROVE  /\ victim \in Frames
           /\ IsPool(TableAfter, HashAfter, bufPool)
           /\ TableAfter[victim] = Clear
           /\ \A h \in Handles, p \in PageIds :
                 hash[h][p] = NoFrame => HashAfter[h][p] = NoFrame
           /\ \A f \in Frames \ {victim} :
                 /\ TableAfter[f].pinCnt = bufDescTable[f].pinCnt
                 /\ TableAfter[f].file = bufDescTable[f].file
                 /\ TableAfter[f].pageNo = bufDescTable[f].pageNo
<1>1. victim \in Frames
  BY VictimIsUnpinned
<1>2. IsPool(SweptTable(victim), hash, bufPool)
  BY <1>1, SweptPool
<1>3. SweptTable(victim) \in [Frames -> BufDesc]
  BY <1>2 DEF IsPool
<1>4. /\ TableAfter[victim] = Clear
      /\ \A f \in Frames \ {victim} : TableAfter[f] = SweptTable(victim)[f]
  BY <1>1, <1>3 DEF TableAfter
<1>5. IsPool(TableAfter, HashAfter, bufPool)
  <2>1. CASE bufDescTable[victim].valid
    <3> DEFINE h == bufDescTable[victim].file
               p == bufDescTable[victim].pageNo
    <3>1. h \in Handles /\ p \in PageIds /\ hash[h][p] = victim
      BY <1>1, <2>1 DEF IsPool, Hashed
    <3>2. /\ TableAfter = [SweptTable(victim) EXCEPT ![victim] = Clear]
          /\ HashAfter = [hash EXCEPT ![h][p] = NoFrame]
      BY <2>1 DEF TableAfter, HashAfter
    <3> HIDE DEF h, p
    <3> QED
      BY <1>1, <1>2, <3>1, <3>2, ClearedPool
  <2>2. CASE ~bufDescTable[victim].valid
    <3>1. ~SweptTable(victim)[victim].valid
      BY <1>1, <2>2, SweptPool
    <3>2. SweptTable(victim)[victim] = Clear
      BY <1>1, <1>2, <3>1 DEF IsPool
    <3>3. TableAfter = SweptTable(victim) /\ HashAfter = hash
      BY <1>3, <2>2, <3>2 DEF TableAfter, HashAfter
    <3> QED
      BY <1>2, <3>3
  <2> QED
    BY <2>1, <2>2
<1>6. ASSUME NEW h \in Handles, NEW p \in PageIds, hash[h][p] = NoFrame
      PROVE  HashAfter[h][p] = NoFrame
  BY <1>6 DEF HashAfter, IsPool
<1> QED
  BY <1>1, <1>4, <1>5, <1>6, SweptPool

-----------------------------------------------------------------------------
(* The parts of a step that several actions share *)

\* A client that gets a page gets a session.
LEMMA PinsType ==
    ASSUME session \in [Clients -> Session], NEW c \in Clients, NEW h \in Handles,
           NEW p \in PageIds, NEW f \in 0..NumBufs, Pins(c, h, p, f)
    PROVE  /\ session' \in [Clients -> Session]
           /\ session'[c] = [file |-> h, page |-> p, frame |-> f, wrote |-> FALSE]
           /\ \A e \in Clients \ {c} : session'[e] = session[e]
  BY PageNumbers DEF Pins, Session

\* A client without a pin has the session of one.
LEMMA IdleType == Idle \in Session /\ Idle.frame = NoFrame /\ ~Idle.wrote
  BY PageNumbers, NoFrameIsNone, NumBufsAssumption DEF Idle, Session, NoFrame

\* A page that a file's readPage returns is a page under its number.
LEMMA ReadablePage ==
    ASSUME NEW d, IsDisk(d), NEW h \in Handles, NEW p \in Readable(d[FileOf[h]])
    PROVE  /\ d[FileOf[h]].page[p] \in Page
           /\ d[FileOf[h]].page[p].num = p
<1>1. d[FileOf[h]] \in FileImage /\ Numbered(d[FileOf[h]])
  BY FileOfAssumption DEF IsDisk
<1>2. p \in PageIds /\ d[FileOf[h]].page[p].num # NoPage
  BY DEF Readable
<1> QED
  BY <1>1, <1>2, FileParts DEF Numbered

\* Changing the pin count and the two flags of a valid frame leaves the pool a pool.
LEMMA RepinnedPool ==
    ASSUME NEW t, NEW k, NEW b, IsPool(t, k, b), NEW f \in Frames, t[f].valid,
           NEW r \in BufDesc, r.valid, r.file = t[f].file, r.pageNo = t[f].pageNo
    PROVE  IsPool([t EXCEPT ![f] = r], k, b)
<1> DEFINE u == [t EXCEPT ![f] = r]
<1>1. /\ u \in [Frames -> BufDesc]
      /\ \A g \in Frames : /\ (u[g].valid <=> t[g].valid)
                           /\ u[g].file = t[g].file
                           /\ u[g].pageNo = t[g].pageNo
                           /\ ~t[g].valid => u[g] = t[g]
  BY DEF IsPool
<1>2. \A h \in Handles, p \in PageIds : k[h][p] # NoFrame => k[h][p] \in Frames
  BY NumBufsAssumption DEF IsPool, NoFrame, Frames
<1> HIDE DEF u
<1>3. EntriesLead(u, k)
  BY <1>1, <1>2 DEF IsPool, EntriesLead
<1>4. \A g \in Frames : Hashed(u, k, b, g)
  BY <1>1 DEF IsPool, Hashed
<1>5. \A g \in Frames : ~u[g].valid => u[g] = Clear
  BY <1>1 DEF IsPool
<1>6. IsPool(u, k, b)
  BY <1>1, <1>3, <1>4, <1>5 DEF IsPool
<1> QED
  BY <1>6 DEF u

\* A frame with a pin is valid.
LEMMA PinnedIsValid ==
    ASSUME IsPool(bufDescTable, hash, bufPool), NEW f \in Frames,
           bufDescTable[f].pinCnt > 0
    PROVE  bufDescTable[f].valid
  BY DescType DEF IsPool

\* allocBuf that throws changes reference bits, and the hand, only.
LEMMA NoFramePool ==
    ASSUME IsPool(bufDescTable, hash, bufPool), clockHand \in Frames, NEW d,
           AllocBufExceeded \/ AllocBufFails(d)
    PROVE  /\ clockHand' \in Frames
           /\ IsPool(bufDescTable', hash', bufPool')
           /\ \A f \in Frames : /\ bufDescTable'[f].pinCnt = bufDescTable[f].pinCnt
                                /\ bufDescTable'[f].file = bufDescTable[f].file
                                /\ bufDescTable'[f].pageNo = bufDescTable[f].pageNo
<1>1. CASE AllocBufExceeded
  BY <1>1, SweptPool DEF AllocBufExceeded
<1>2. CASE AllocBufFails(d)
  BY <1>2, SweptPool, VictimIsUnpinned DEF AllocBufFails
<1> QED
  BY <1>1, <1>2

\* flushFile keeps the pool a pool: frames and entries of the pages written
\* go together.
LEMMA FlushedPool ==
    ASSUME IsPool(bufDescTable, hash, bufPool), NEW h \in Handles, FlushFile(h)
    PROVE  IsPool(bufDescTable', hash', bufPool')
<1> DEFINE S == Flushed(h)
           t == [f \in Frames |-> IF f \in S THEN Clear ELSE bufDescTable[f]]
           row == [p \in PageIds |-> IF \E f \in S : bufDescTable[f].pageNo = p
                                     THEN NoFrame ELSE hash[h][p]]
           k == [hash EXCEPT ![h] = row]
<1>1. bufDescTable' = t /\ hash' = k /\ bufPool' = bufPool
  BY DEF FlushFile
<1>2. /\ bufDescTable \in [Frames -> BufDesc]
      /\ hash \in [Handles -> [PageIds -> 0..NumBufs]]
      /\ bufPool \in [Frames -> Page]
  BY DEF IsPool
<1>3. ASSUME NEW f \in S
      PROVE  /\ f \in Frames
             /\ bufDescTable[f].file = h
             /\ bufDescTable[f].valid
  <2>1. f \in Frames /\ bufDescTable[f].file = h
    BY DEF Flushed, FramesOf
  <2>2. ~StopsFlush(f)
    <3>1. f \in FramesOf(h) /\ (StopsFlush(f) => f < f)
      BY DEF Flushed
    <3>2. ~(f < f)
      BY <2>1, NumBufsAssumption DEF Frames
    <3> QED
      BY <3>1, <3>2
  <2> QED
    BY <2>1, <2>2 DEF StopsFlush
<1> HIDE DEF S
<1>4. /\ t \in [Frames -> BufDesc]
      /\ \A f \in S : t[f] = Clear
      /\ \A f \in Frames \ S : t[f] = bufDescTable[f]
  BY <1>2, <1>3, DescType
<1>5. k \in [Handles -> [PageIds -> 0..NumBufs]]
  <2>1. row \in [PageIds -> 0..NumBufs]
    BY <1>2, NoFrameIsNone
  <2> HIDE DEF row
  <2> QED
    BY <1>2, <2>1
<1>6. \A i \in Handles, p \in PageIds :
          /\ k[i][p] = hash[i][p] \/ k[i][p] = NoFrame
          /\ k[i][p] = NoFrame \/ i # h \/ \A f \in S : bufDescTable[f].pageNo # p
          /\ k[i][p] = hash[i][p] \/ (i = h /\ \E f \in S : bufDescTable[f].pageNo = p)
  BY <1>2
<1> HIDE DEF t, k
<1>7. EntriesLead(t, k)
  <2> SUFFICES ASSUME NEW i \in Handles, NEW p \in PageIds, k[i][p] # NoFrame
               PROVE  /\ t[k[i][p]].valid
                      /\ t[k[i][p]].file = i
                      /\ t[k[i][p]].pageNo = p
    BY DEF EntriesLead
  <2>1. k[i][p] = hash[i][p]
    BY <1>6
  <2>2. /\ bufDescTable[k[i][p]].valid
        /\ bufDescTable[k[i][p]].file = i
        /\ bufDescTable[k[i][p]].pageNo = p
    BY <2>1 DEF IsPool, EntriesLead
  <2>3. k[i][p] \in Frames
    BY <1>2, <2>1, NumBufsAssumption DEF NoFrame, Frames
  <2>4. k[i][p] \notin S
    BY <1>3, <1>6, <2>2
  <2> QED
    BY <1>4, <2>2, <2>3, <2>4
<1>8. ASSUME NEW f \in Frames PROVE Hashed(t, k, bufPool, f)
  <2>1. CASE f \in S
    BY <1>4, <2>1, DescType DEF Hashed
  <2>2. CASE f \notin S
    <3>1. t[f] = bufDescTable[f] /\ Hashed(bufDescTable, hash, bufPool, f)
      BY <1>4, <2>2 DEF IsPool
    <3>2. \A g \in S : Hashed(bufDescTable, hash, bufPool, g)
      BY <1>3 DEF IsPool
    <3>3. ASSUME t[f].valid
          PROVE  k[t[f].file][t[f].pageNo] = f
      <4>1. hash[t[f].file][t[f].pageNo] = f
        BY <3>1, <3>3 DEF Hashed
      <4>2. ~(t[f].file = h /\ \E g \in S : bufDescTable[g].pageNo = t[f].pageNo)
        BY <1>3, <2>2, <3>2, <4>1 DEF Hashed
      <4> QED
        BY <1>6, <3>1, <3>3, <4>1, <4>2 DEF Hashed
    <3> QED
      BY <3>1, <3>3 DEF Hashed
  <2> QED
    BY <2>1, <2>2
<1>9. \A f \in Frames : ~t[f].valid => t[f] = Clear
  BY <1>4 DEF IsPool
<1> QED
  BY <1>1, <1>2, <1>4, <1>5, <1>7, <1>8, <1>9 DEF IsPool

-----------------------------------------------------------------------------
(* Every call keeps the inductive invariant *)

\* A new buffer manager over new files satisfies the inductive invariant.
LEMMA InvInit == Init => IInv
<1> SUFFICES ASSUME Init PROVE IInv
  OBVIOUS
<1>1. clockHand \in Frames
  BY NumBufsAssumption DEF Init, Frames
<1>2. /\ bufDescTable \in [Frames -> BufDesc]
      /\ \A f \in Frames : bufDescTable[f] = Clear
  BY DescType DEF Init
<1>3. /\ hash \in [Handles -> [PageIds -> 0..NumBufs]]
      /\ \A h \in Handles, p \in PageIds : hash[h][p] = NoFrame
  BY NoFrameIsNone DEF Init
<1>4. bufPool \in [Frames -> Page]
  BY PageNumbers, EmptyDataAssumption DEF Init, FreshPage, Page
<1>5. IsPool(bufDescTable, hash, bufPool)
  BY <1>2, <1>3, <1>4, DescType DEF IsPool, EntriesLead, Hashed
<1>6. IsDisk(disk)
  BY NewFileType DEF Init, IsDisk
<1>7. session \in [Clients -> Session]
  BY IdleType DEF Init
<1>8. bufStats \in Counters
  BY StatCapAssumption DEF Init, Counters
<1> QED
  BY <1>1, <1>5, <1>6, <1>7, <1>8 DEF IInv, IsRest

\* A call that leaves the counters' bounds alone keeps them.
LEMMA StatsType ==
    ASSUME IsRest, NEW a \in Nat, NEW r \in Nat, NEW w \in Nat,
           Count(a, r, w) \/ bufStats' = bufStats
    PROVE  bufStats' \in Counters
  BY CountType DEF IsRest

\* The number of frames flushed is a number.
LEMMA FlushedCount ==
    ASSUME NEW S \in SUBSET Frames
    PROVE  Cardinality(S) \in Nat
  BY FramesFinite, FS_Subset, FS_CardinalityType

\* Putting a page under its number into the victim's frame, as readPage and
\* allocPage do, keeps the pool a pool.
LEMMA LoadedPool ==
    ASSUME IInv, ~Exceeded, NEW h \in Handles, NEW p \in PageIds,
           HashAfter[h][p] = NoFrame, NEW pg \in Page, pg.num = p,
           bufDescTable' = [TableAfter EXCEPT ![victim] = Set(h, p)],
           hash' = [HashAfter EXCEPT ![h][p] = victim],
           bufPool' = [bufPool EXCEPT ![victim] = pg]
    PROVE  IsPool(bufDescTable', hash', bufPool')
<1>1. /\ victim \in Frames
      /\ IsPool(TableAfter, HashAfter, bufPool)
      /\ TableAfter[victim] = Clear
  BY FreedPool DEF IInv
<1> QED
  BY <1>1, InstalledPool

\* Every step keeps the inductive invariant.
LEMMA InvNext == IInv /\ [Next]_vars => IInv'
<1> SUFFICES ASSUME IInv, [Next]_vars PROVE IInv'
  OBVIOUS
<1>1. /\ clockHand \in Frames
      /\ IsPool(bufDescTable, hash, bufPool)
      /\ IsDisk(disk)
      /\ IsRest
  BY DEF IInv
<1>2. session \in [Clients -> Session] /\ bufStats \in Counters
  BY <1>1 DEF IsRest
<1>4. ~Exceeded => /\ victim \in Frames /\ victim \in 0..NumBufs
                   /\ IsPool(TableAfter, HashAfter, bufPool)
                   /\ TableAfter[victim] = Clear
  BY <1>1, FreedPool, NoFrameIsNone
<1>5. ASSUME NEW h \in Handles, NEW p \in PageIds, NEW c \in Clients, ReadHit(c, h, p)
      PROVE  IInv'
  <2> DEFINE f == hash[h][p]
             r == [bufDescTable[f] EXCEPT !.refbit = TRUE, !.pinCnt = @ + 1]
  <2>1. f \in Frames /\ f \in 0..NumBufs
    BY <1>1, <1>5, NumBufsAssumption DEF ReadHit, IsPool, NoFrame, Frames
  <2>2. bufDescTable[f] \in BufDesc /\ bufDescTable[f].valid
    BY <1>1, <1>5, <2>1 DEF ReadHit, IsPool, EntriesLead
  <2>3. /\ r \in BufDesc /\ r.valid
        /\ r.file = bufDescTable[f].file /\ r.pageNo = bufDescTable[f].pageNo
    <3> HIDE DEF f
    <3> QED
      BY <2>2, ReadDesc
  <2>4. bufDescTable' = [bufDescTable EXCEPT ![f] = r]
    BY <1>1, <1>5, <2>1 DEF ReadHit, IsPool
  <2>5. IsPool(bufDescTable', hash', bufPool')
    <3> HIDE DEF r, f
    <3>1. IsPool([bufDescTable EXCEPT ![f] = r], hash, bufPool)
      BY <1>1, <2>1, <2>2, <2>3, RepinnedPool
    <3> QED
      BY <1>5, <2>4, <3>1 DEF ReadHit
  <2>6. IsRest'
    BY <1>1, <1>2, <1>5, <2>1, PinsType, CountType DEF ReadHit, IsRest
  <2> QED
    BY <1>1, <1>5, <2>5, <2>6 DEF IInv, ReadHit
<1>6. ASSUME NEW h \in Handles, NEW p \in PageIds, NEW c \in Clients, ReadMiss(c, h, p)
      PROVE  IInv'
  <2>1. ~Exceeded
    BY <1>6 DEF ReadMiss, Allocates
  <2>2. IsDisk(DiskAfter(disk))
    BY <1>1, <1>4, <2>1, DiskAfterType
  <2>3. /\ DiskAfter(disk)[FileOf[h]].page[p] \in Page
        /\ DiskAfter(disk)[FileOf[h]].page[p].num = p
    BY <1>6, <2>2, ReadablePage DEF ReadMiss
  <2>4. HashAfter[h][p] = NoFrame
    BY <1>1, <1>6, <2>1, FreedPool DEF ReadMiss
  <2>5. IsPool(bufDescTable', hash', bufPool')
    BY <1>6, <2>1, <2>3, <2>4, LoadedPool DEF ReadMiss
  <2>6. IsRest'
    <3>1. session' \in [Clients -> Session]
      BY <1>2, <1>4, <1>6, <2>1, PinsType DEF ReadMiss
    <3>2. bufStats' \in Counters
      BY <1>1, <1>6, StatsType DEF ReadMiss
    <3> QED
      BY <3>1, <3>2 DEF IsRest
  <2> QED
    BY <1>4, <1>6, <2>1, <2>2, <2>5, <2>6 DEF IInv, ReadMiss
<1>7. ASSUME NEW h \in Handles, NEW p \in PageIds, ReadInvalid(h, p)
      PROVE  IInv'
  <2>1. ~Exceeded
    BY <1>7 DEF ReadInvalid, Allocates
  <2>2. IsDisk(DiskAfter(disk))
    BY <1>1, <1>4, <2>1, DiskAfterType
  <2>3. bufStats' \in Counters
    BY <1>1, <1>7, StatsType DEF ReadInvalid
  <2> QED
    BY <1>2, <1>4, <1>7, <2>1, <2>2, <2>3 DEF IInv, IsRest, ReadInvalid
<1>8. ASSUME NEW h \in Handles, NEW p \in PageIds, ReadNoFrame(h, p)
      PROVE  IInv'
  <2>1. clockHand' \in Frames /\ IsPool(bufDescTable', hash', bufPool')
    BY <1>1, <1>8, NoFramePool DEF ReadNoFrame
  <2>2. bufStats' \in Counters
    BY <1>2, <1>8, CountType DEF ReadNoFrame
  <2> QED
    BY <1>1, <1>2, <1>8, <2>1, <2>2 DEF IInv, IsRest, ReadNoFrame
<1>9. ASSUME NEW h \in Handles, NEW p \in PageIds, DisposeBuffered(h, p)
      PROVE  IInv'
  <2>1. hash[h][p] \in Frames
    BY <1>1, <1>9, NumBufsAssumption DEF DisposeBuffered, IsPool, NoFrame, Frames
  <2>2. IsPool(bufDescTable', hash', bufPool')
    BY <1>1, <1>9, <2>1, ClearedPool DEF DisposeBuffered
  <2>3. IsDisk(disk')
    BY <1>1, <1>9, ShrunkDiskType DEF DisposeBuffered
  <2> QED
    BY <1>1, <1>9, <2>2, <2>3 DEF IInv, IsRest, DisposeBuffered
<1>10. ASSUME NEW h \in Handles, NEW p \in PageIds, DisposeUnbuffered(h, p)
      PROVE  IInv'
  <2>1. IsDisk(disk')
    BY <1>1, <1>10, ShrunkDiskType DEF DisposeUnbuffered
  <2> QED
    BY <1>1, <1>10, <2>1 DEF IInv, IsRest, DisposeUnbuffered, pool
<1>11. ASSUME NEW h \in Handles, NEW c \in Clients, AllocPage(c, h)
      PROVE  IInv'
  <2>1. ~Exceeded /\ CanAllocate(h)
    BY <1>11 DEF AllocPage, Allocates
  <2>2. /\ IsDisk(GrownDisk(h))
        /\ NewNumber(h) \in PageIds
        /\ NewPage(disk[FileOf[h]]) \in Page
        /\ NewPage(disk[FileOf[h]]).num = NewNumber(h)
    BY <1>1, <2>1, GrownDiskType
  <2>3. IsDisk(DiskAfter(GrownDisk(h)))
    BY <1>1, <1>4, <2>1, <2>2, DiskAfterType
  <2>4. IsPool(bufDescTable', hash', bufPool')
    BY <1>11, <2>1, <2>2, LoadedPool DEF AllocPage
  <2>5. IsRest'
    <3>1. session' \in [Clients -> Session]
      BY <1>2, <1>4, <1>11, <2>1, <2>2, PinsType DEF AllocPage
    <3> QED
      BY <1>2, <1>11, <3>1 DEF IsRest, AllocPage
  <2> QED
    BY <1>4, <1>11, <2>1, <2>3, <2>4, <2>5 DEF IInv, AllocPage
<1>12. ASSUME NEW h \in Handles, AllocPagePresent(h)
      PROVE  IInv'
  <2>1. ~Exceeded /\ CanAllocate(h)
    BY <1>12 DEF AllocPagePresent, Allocates
  <2>2. IsDisk(GrownDisk(h)) /\ NewPage(disk[FileOf[h]]) \in Page
    BY <1>1, <2>1, GrownDiskType
  <2>3. IsDisk(DiskAfter(GrownDisk(h)))
    BY <1>1, <1>4, <2>1, <2>2, DiskAfterType
  <2>4. IsPool(bufDescTable', hash', bufPool')
    BY <1>4, <1>12, <2>1, <2>2, ScribbledPool DEF AllocPagePresent
  <2> QED
    BY <1>2, <1>4, <1>12, <2>1, <2>3, <2>4 DEF IInv, IsRest, AllocPagePresent
<1>13. ASSUME NEW h \in Handles, AllocPageNoFrame(h)
      PROVE  IInv'
  <2>1. clockHand' \in Frames /\ IsPool(bufDescTable', hash', bufPool')
    BY <1>1, <1>13, NoFramePool DEF AllocPageNoFrame
  <2>2. IsDisk(GrownDisk(h))
    BY <1>1, <1>13, GrownDiskType DEF AllocPageNoFrame
  <2> QED
    BY <1>2, <1>13, <2>1, <2>2 DEF IInv, IsRest, AllocPageNoFrame
<1>14. ASSUME NEW h \in Handles, FlushFile(h)
      PROVE  IInv'
  <2> DEFINE dirty == {f \in Flushed(h) : bufDescTable[f].dirty}
  <2>1. dirty \in SUBSET Frames
    BY DEF Flushed, FramesOf
  <2>2. \A f \in dirty : bufDescTable[f].valid
    <3> SUFFICES ASSUME NEW f \in dirty PROVE bufDescTable[f].valid
      OBVIOUS
    <3>1. f \in FramesOf(h) /\ (StopsFlush(f) => f < f)
      BY DEF Flushed
    <3>2. ~(f < f)
      BY <3>1, NumBufsAssumption DEF FramesOf, Frames
    <3> QED
      BY <3>1, <3>2 DEF StopsFlush
  <2>3. Cardinality(dirty) \in Nat
    BY <2>1, FlushedCount
  <2> HIDE DEF dirty
  <2>4. IsDisk(WrittenBack(disk, dirty))
    BY <1>1, <2>1, <2>2, WrittenBackType
  <2>5. /\ disk' = WrittenBack(disk, dirty)
        /\ Count(0, 0, Cardinality(dirty))
        /\ UNCHANGED <<clockHand, bufPool, session>>
    BY <1>14 DEF FlushFile, dirty
  <2>6. IsPool(bufDescTable', hash', bufPool')
    BY <1>1, <1>14, FlushedPool
  <2>7. bufStats' \in Counters
    BY <1>1, <2>3, <2>5, StatsType
  <2> QED
    BY <1>1, <1>2, <2>4, <2>5, <2>6, <2>7 DEF IInv, IsRest
<1>15. ASSUME NEW c \in Clients, NEW d \in Data, WritePinned(c, d)
      PROVE  IInv'
  <2>1. session' \in [Clients -> Session]
    BY <1>2, <1>15 DEF WritePinned, Session
  <2>2. /\ bufPool' \in [Frames -> Page]
        /\ \A f \in Frames : bufPool'[f].num = bufPool[f].num
    BY <1>1, <1>15 DEF WritePinned, IsPool, Page
  <2>3. IsPool(bufDescTable, hash, bufPool')
    BY <1>1, <2>2 DEF IsPool, Hashed
  <2> QED
    BY <1>1, <1>2, <1>15, <2>1, <2>3 DEF IInv, IsRest, WritePinned
<1>16. ASSUME NEW c \in Clients, NEW dirty \in BOOLEAN, UnPin(c, dirty)
      PROVE  IInv'
  <2> DEFINE f == PinnedFrame(c)
             r == [bufDescTable[f] EXCEPT !.pinCnt = @ - 1, !.dirty = @ \/ dirty]
  <2>1. session' \in [Clients -> Session]
    BY <1>2, <1>16, IdleType DEF UnPin
  <2>2. IsPool(bufDescTable', hash', bufPool')
    <3>1. CASE f \in Frames
      <4>1. bufDescTable[f] \in BufDesc /\ bufDescTable[f].valid
        BY <1>1, <1>16, <3>1, PinnedIsValid DEF UnPin, IsPool
      <4>2. /\ r \in BufDesc /\ r.valid
            /\ r.file = bufDescTable[f].file /\ r.pageNo = bufDescTable[f].pageNo
        <5>1. bufDescTable[f].pinCnt > 0
          BY <1>16 DEF UnPin
        <5> HIDE DEF f
        <5> QED
          BY <4>1, <5>1, UnPinDesc
      <4>3. bufDescTable' = [bufDescTable EXCEPT ![f] = r]
        BY <1>1, <1>16, <3>1 DEF UnPin, IsPool
      <4>4. UNCHANGED <<bufPool, hash>>
        BY <1>16 DEF UnPin
      <4> HIDE DEF r, f
      <4> QED
        BY <1>1, <3>1, <4>1, <4>2, <4>3, <4>4, RepinnedPool
    <3>2. CASE f \notin Frames
      <4>1. bufDescTable \in [Frames -> BufDesc]
        BY <1>1 DEF IsPool
      <4>2. bufDescTable' = bufDescTable
        BY <1>16, <3>2, <4>1 DEF UnPin
      <4> QED
        BY <1>1, <1>16, <4>2 DEF UnPin
    <3> QED
      BY <3>1, <3>2
  <2> QED
    BY <1>1, <1>2, <1>16, <2>1, <2>2 DEF IInv, IsRest, UnPin
<1>17. ASSUME NEW c \in Clients, UnPinLost(c)
      PROVE  IInv'
  BY <1>1, <1>2, <1>17, IdleType DEF IInv, IsRest, UnPinLost, pool
<1>18. CASE Restart
  <2>1. IsDisk(disk')
    BY <1>1, <1>18, WrittenBackType DEF Restart, Saved, DirtyFrames
  <2>2. IsPool(bufDescTable', hash', bufPool')
    <3>1. /\ bufDescTable' \in [Frames -> BufDesc]
          /\ \A f \in Frames : bufDescTable'[f] = Clear
      BY <1>18, DescType DEF Restart
    <3>2. /\ hash' \in [Handles -> [PageIds -> 0..NumBufs]]
          /\ \A h \in Handles, p \in PageIds : hash'[h][p] = NoFrame
      BY <1>18, NoFrameIsNone DEF Restart
    <3>3. bufPool' \in [Frames -> Page]
      BY <1>18, PageNumbers, EmptyDataAssumption DEF Restart, FreshPage, Page
    <3> QED
      BY <3>1, <3>2, <3>3, DescType DEF IsPool, EntriesLead, Hashed
  <2>3. clockHand' \in Frames
    BY <1>18, NumBufsAssumption DEF Restart, Frames
  <2>4. IsRest'
    BY <1>18, IdleType, StatCapAssumption DEF Restart, IsRest, Counters
  <2> QED
    BY <2>1, <2>2, <2>3, <2>4 DEF IInv
<1>19. CASE UNCHANGED vars
  BY <1>1, <1>2, <1>19 DEF IInv, IsRest, vars, pool
<1> QED
  BY <1>5, <1>6, <1>7, <1>8, <1>9, <1>10, <1>11, <1>12, <1>13, <1>14, <1>15,
     <1>16, <1>17, <1>18, <1>19 DEF Next

\* Every state of the buffer manager is typed: no call leaves a descriptor, an
\* entry of the hash table, or a file outside what the code can represent.
THEOREM PoolIsTyped == Spec => []TypeOK
<1>1. Spec => []IInv
  BY InvInit, InvNext, PTL DEF Spec
<1> QED
  BY <1>1, InvImplies, PTL

\* The descriptors and the hash table describe the same pool, after every
\* sequence of the calls of buffer.cpp, failing ones and calls of undisciplined
\* clients included.
THEOREM PoolIsConsistent == Spec => []PoolConsistent
<1>1. Spec => []IInv
  BY InvInit, InvNext, PTL DEF Spec
<1> QED
  BY <1>1, InvImplies, PTL

-----------------------------------------------------------------------------
(* Pins *)

\* The clients whose pointer goes into frame f.
Owners(f) == {c \in Clients : session[c].frame = f}

PinInv == IInv /\ PinsCounted /\ PinnedPageStays

\* A client with a pin finds its frame under the name of its page.
LEMMA PinnedSession ==
    ASSUME PinInv, NEW c \in Clients, Active(c)
    PROVE  /\ session[c].frame \in Frames
           /\ bufDescTable[session[c].frame].valid
           /\ PinnedFrame(c) = session[c].frame
           /\ PinnedFrame(c) # NoFrame
           /\ bufDescTable[PinnedFrame(c)].pinCnt > 0
<1> DEFINE f == session[c].frame
<1>1. /\ f \in Frames
      /\ bufDescTable[f].pinCnt > 0
      /\ bufDescTable[f].file = session[c].file
      /\ bufDescTable[f].pageNo = session[c].page
  BY DEF PinInv, PinnedPageStays
<1>2. IsPool(bufDescTable, hash, bufPool)
  BY DEF PinInv, IInv
<1>3. bufDescTable[f].valid
  BY <1>1, <1>2, PinnedIsValid
<1>4. Hashed(bufDescTable, hash, bufPool, f)
  BY <1>1, <1>2 DEF IsPool
<1> QED
  BY <1>1, <1>3, <1>4, NoFrameIsNone DEF Hashed, PinnedFrame

\* A client whose pointer goes into a frame has a pin.
LEMMA OwnerIsActive ==
    ASSUME NEW c \in Clients, session[c].frame \in Frames
    PROVE  Active(c)
  BY IdleType, NoFrameIsNone DEF Active

\* A client without a pin points into no frame.
LEMMA IdleOwnsNothing ==
    ASSUME NEW c \in Clients, ~Active(c)
    PROVE  session[c].frame \notin Frames
  BY IdleType, NoFrameIsNone DEF Active

\* The clients of a frame are finitely many.
LEMMA OwnersFinite ==
    ASSUME NEW f
    PROVE  IsFiniteSet(Owners(f)) /\ Cardinality(Owners(f)) \in Nat
  BY ClientsAssumption, FS_Subset, FS_CardinalityType DEF Owners

\* A frame without a pin has no clients.
LEMMA UnpinnedHasNoOwner ==
    ASSUME PinsCounted, NEW f \in Frames, bufDescTable[f].pinCnt = 0
    PROVE  Owners(f) = {}
<1>1. Cardinality(Owners(f)) = 0
  BY DEF PinsCounted, Owners
<1> QED
  BY <1>1, OwnersFinite, FS_EmptySet

\* A call that pins nothing keeps pins counted and pointers valid, if it
\* changes only frames without a pin and leaves them without one.
LEMMA KeptPins ==
    ASSUME PinInv,
           session' \in [Clients -> Session],
           \A c \in Clients : /\ session'[c].frame = session[c].frame
                              /\ session'[c].file = session[c].file
                              /\ session'[c].page = session[c].page
                              /\ Active(c)' => Active(c),
           \A f \in Frames :
              /\ bufDescTable'[f].pinCnt = bufDescTable[f].pinCnt
              /\ bufDescTable[f].pinCnt # 0 =>
                    /\ bufDescTable'[f].file = bufDescTable[f].file
                    /\ bufDescTable'[f].pageNo = bufDescTable[f].pageNo
    PROVE  PinsCounted' /\ PinnedPageStays'
<1>1. ASSUME NEW f \in Frames
      PROVE  bufDescTable'[f].pinCnt = Cardinality({c \in Clients : session'[c].frame = f})
  <2>1. {c \in Clients : session'[c].frame = f} = {c \in Clients : session[c].frame = f}
    OBVIOUS
  <2> QED
    BY <2>1 DEF PinInv, PinsCounted
<1>2. ASSUME NEW c \in Clients, Active(c)'
      PROVE  /\ session'[c].frame \in Frames
             /\ bufDescTable'[session'[c].frame].pinCnt > 0
             /\ bufDescTable'[session'[c].frame].file = session'[c].file
             /\ bufDescTable'[session'[c].frame].pageNo = session'[c].page
  <2>1. /\ session[c].frame \in Frames
        /\ bufDescTable[session[c].frame].pinCnt > 0
        /\ bufDescTable[session[c].frame].file = session[c].file
        /\ bufDescTable[session[c].frame].pageNo = session[c].page
    BY <1>2 DEF PinInv, PinnedPageStays
  <2>2. bufDescTable[session[c].frame].pinCnt # 0
    BY <2>1
  <2> QED
    BY <2>1, <2>2
<1> QED
  BY <1>1, <1>2 DEF PinsCounted, PinnedPageStays

\* A call that gives client c a pin on frame f counts it.
LEMMA AddedPin ==
    ASSUME PinInv, NEW c \in Clients, ~Active(c),
           NEW f \in Frames, NEW h \in Handles, NEW p \in PageIds,
           session'[c] = [file |-> h, page |-> p, frame |-> f, wrote |-> FALSE],
           \A e \in Clients \ {c} : session'[e] = session[e],
           bufDescTable'[f].pinCnt = bufDescTable[f].pinCnt + 1,
           bufDescTable'[f].file = h, bufDescTable'[f].pageNo = p,
           bufDescTable[f].pinCnt # 0 =>
              bufDescTable[f].file = h /\ bufDescTable[f].pageNo = p,
           \A g \in Frames \ {f} :
              /\ bufDescTable'[g].pinCnt = bufDescTable[g].pinCnt
              /\ bufDescTable[g].pinCnt # 0 =>
                    /\ bufDescTable'[g].file = bufDescTable[g].file
                    /\ bufDescTable'[g].pageNo = bufDescTable[g].pageNo
    PROVE  PinsCounted' /\ PinnedPageStays'
<1>1. session[c].frame \notin Frames
  BY IdleOwnsNothing
<1>2. ASSUME NEW g \in Frames
      PROVE  bufDescTable'[g].pinCnt = Cardinality({e \in Clients : session'[e].frame = g})
  <2>1. CASE g = f
    <3>1. {e \in Clients : session'[e].frame = g} = Owners(f) \cup {c}
      BY <2>1 DEF Owners
    <3>2. c \notin Owners(f)
      BY <1>1 DEF Owners
    <3>3. Cardinality(Owners(f) \cup {c}) = Cardinality(Owners(f)) + 1
      BY <3>2, OwnersFinite, FS_AddElement
    <3> QED
      BY <2>1, <3>1, <3>3 DEF PinInv, PinsCounted, Owners
  <2>2. CASE g # f
    <3>1. {e \in Clients : session'[e].frame = g} = {e \in Clients : session[e].frame = g}
      BY <1>1, <2>2
    <3> QED
      BY <2>2, <3>1 DEF PinInv, PinsCounted
  <2> QED
    BY <2>1, <2>2
<1>3. bufDescTable[f].pinCnt \in Nat
  BY OwnersFinite DEF PinInv, PinsCounted, Owners
<1>4. ASSUME NEW e \in Clients, Active(e)'
      PROVE  /\ session'[e].frame \in Frames
             /\ bufDescTable'[session'[e].frame].pinCnt > 0
             /\ bufDescTable'[session'[e].frame].file = session'[e].file
             /\ bufDescTable'[session'[e].frame].pageNo = session'[e].page
  <2>1. CASE e = c
    BY <1>3, <2>1
  <2>2. CASE e # c
    <3>1. session'[e] = session[e] /\ Active(e)
      BY <1>4, <2>2 DEF Active
    <3>2. /\ session[e].frame \in Frames
          /\ bufDescTable[session[e].frame].pinCnt > 0
          /\ bufDescTable[session[e].frame].file = session[e].file
          /\ bufDescTable[session[e].frame].pageNo = session[e].page
      BY <3>1 DEF PinInv, PinnedPageStays
    <3>3. bufDescTable[session[e].frame].pinCnt # 0
      BY <3>2
    <3>4. CASE session[e].frame = f
      BY <1>3, <3>1, <3>2, <3>3, <3>4
    <3>5. CASE session[e].frame # f
      BY <3>1, <3>2, <3>3, <3>5
    <3> QED
      BY <3>4, <3>5
  <2> QED
    BY <2>1, <2>2
<1> QED
  BY <1>2, <1>4 DEF PinsCounted, PinnedPageStays

\* unPinPage takes back one pin, the caller's.
LEMMA RemovedPin ==
    ASSUME PinInv, NEW c \in Clients, NEW dirty \in BOOLEAN, UnPin(c, dirty)
    PROVE  PinsCounted' /\ PinnedPageStays'
<1> DEFINE f == session[c].frame
<1>1. /\ f \in Frames /\ PinnedFrame(c) = f
      /\ bufDescTable[f] \in BufDesc
      /\ bufDescTable \in [Frames -> BufDesc]
  BY PinnedSession DEF UnPin, PinInv, IInv, IsPool
<1>2. /\ bufDescTable'[f].pinCnt = bufDescTable[f].pinCnt - 1
      /\ bufDescTable'[f].file = bufDescTable[f].file
      /\ bufDescTable'[f].pageNo = bufDescTable[f].pageNo
      /\ \A g \in Frames \ {f} : bufDescTable'[g] = bufDescTable[g]
  <2> DEFINE r == [bufDescTable[f] EXCEPT !.pinCnt = @ - 1, !.dirty = @ \/ dirty]
  <2>1. bufDescTable' = [bufDescTable EXCEPT ![f] = r]
    BY <1>1 DEF UnPin
  <2>2. bufDescTable[f].valid /\ bufDescTable[f].pinCnt > 0
    BY <1>1, PinnedSession DEF UnPin
  <2>3. /\ r.file = bufDescTable[f].file /\ r.pageNo = bufDescTable[f].pageNo
        /\ r.pinCnt = bufDescTable[f].pinCnt - 1
    <3> HIDE DEF f
    <3> QED
      BY <1>1, <2>2, UnPinDesc
  <2> HIDE DEF r, f
  <2> QED
    BY <1>1, <2>1, <2>3
<1>3. /\ session'[c] = Idle
      /\ \A e \in Clients \ {c} : session'[e] = session[e]
  BY DEF UnPin, PinInv, IInv, IsRest
<1>4. f # NoFrame /\ Idle.frame = NoFrame /\ NoFrame \notin Frames
  BY <1>1, IdleType, NoFrameIsNone
<1>5. ASSUME NEW g \in Frames
      PROVE  bufDescTable'[g].pinCnt = Cardinality({e \in Clients : session'[e].frame = g})
  <2>1. CASE g = f
    <3>1. {e \in Clients : session'[e].frame = g} = Owners(f) \ {c}
      BY <1>3, <1>4, <2>1 DEF Owners
    <3>2. Cardinality(Owners(f) \ {c}) = Cardinality(Owners(f)) - 1
      <4>1. c \in Owners(f)
        BY DEF Owners
      <4>2. IsFiniteSet(Owners(f))
        BY OwnersFinite
      <4> HIDE DEF f
      <4> QED
        BY <4>1, <4>2, FS_RemoveElement
    <3> QED
      BY <1>1, <1>2, <2>1, <3>1, <3>2 DEF PinInv, PinsCounted, Owners
  <2>2. CASE g # f
    <3>1. {e \in Clients : session'[e].frame = g} = {e \in Clients : session[e].frame = g}
      BY <1>3, <1>4, <2>2
    <3> QED
      BY <1>2, <2>2, <3>1 DEF PinInv, PinsCounted
  <2> QED
    BY <2>1, <2>2
<1>6. ASSUME NEW e \in Clients, Active(e)'
      PROVE  /\ session'[e].frame \in Frames
             /\ bufDescTable'[session'[e].frame].pinCnt > 0
             /\ bufDescTable'[session'[e].frame].file = session'[e].file
             /\ bufDescTable'[session'[e].frame].pageNo = session'[e].page
  <2>1. e # c
    BY <1>3, <1>6 DEF Active
  <2>2. session'[e] = session[e] /\ Active(e)
    BY <1>3, <1>6, <2>1 DEF Active
  <2>3. /\ session[e].frame \in Frames
        /\ bufDescTable[session[e].frame].pinCnt > 0
        /\ bufDescTable[session[e].frame].file = session[e].file
        /\ bufDescTable[session[e].frame].pageNo = session[e].page
    BY <2>2 DEF PinInv, PinnedPageStays
  <2>4. bufDescTable'[session[e].frame].pinCnt > 0
    <3>1. e \in {x \in Clients : session'[x].frame = session[e].frame}
      BY <2>2
    <3>2. IsFiniteSet({x \in Clients : session'[x].frame = session[e].frame})
      BY ClientsAssumption, FS_Subset
    <3>3. /\ Cardinality({x \in Clients : session'[x].frame = session[e].frame}) # 0
          /\ Cardinality({x \in Clients : session'[x].frame = session[e].frame}) \in Nat
      BY <3>1, <3>2, FS_EmptySet, FS_CardinalityType
    <3> QED
      BY <1>5, <2>3, <3>3
  <2>5. /\ bufDescTable'[session[e].frame].file = bufDescTable[session[e].frame].file
        /\ bufDescTable'[session[e].frame].pageNo = bufDescTable[session[e].frame].pageNo
    BY <1>2, <2>3
  <2> QED
    BY <2>2, <2>3, <2>4, <2>5
<1> QED
  BY <1>5, <1>6 DEF PinsCounted, PinnedPageStays

-----------------------------------------------------------------------------

\* A step that does not take a page out of the pool for good.
KeepingNext ==
    \/ \E h \in Handles, p \in PageIds :
          \/ \E c \in Clients : ReadHit(c, h, p) \/ ReadMiss(c, h, p)
          \/ ReadInvalid(h, p)
          \/ ReadNoFrame(h, p)
          \/ DisposeUnbuffered(h, p)
    \/ \E h \in Handles :
          \/ \E c \in Clients : AllocPage(c, h)
          \/ AllocPagePresent(h)
          \/ AllocPageNoFrame(h)
          \/ FlushFile(h)
    \/ \E c \in Clients :
          \/ \E d \in Data : WritePinned(c, d)
          \/ \E dirty \in BOOLEAN : UnPin(c, dirty)
          \/ UnPinLost(c)
    \/ Restart

\* Such a step keeps pins counted and pointers valid, whatever the clients do.
LEMMA PinKept ==
    ASSUME PinInv, [KeepingNext]_vars
    PROVE  PinInv'
<1>1. IInv'
  BY InvNext DEF PinInv, KeepingNext, Next
<1>2. /\ IInv /\ clockHand \in Frames
      /\ IsPool(bufDescTable, hash, bufPool)
      /\ IsDisk(disk)
      /\ session \in [Clients -> Session] /\ session' \in [Clients -> Session]
      /\ bufDescTable \in [Frames -> BufDesc]
  BY <1>1 DEF PinInv, IInv, IsRest, IsPool
<1>3. ~Exceeded => /\ victim \in Frames
                   /\ bufDescTable[victim].pinCnt = 0
                   /\ TableAfter[victim] = Clear
                   /\ TableAfter \in [Frames -> BufDesc]
                   /\ \A f \in Frames \ {victim} :
                         /\ TableAfter[f].pinCnt = bufDescTable[f].pinCnt
                         /\ TableAfter[f].file = bufDescTable[f].file
                         /\ TableAfter[f].pageNo = bufDescTable[f].pageNo
  BY <1>2, VictimIsUnpinned, FreedPool DEF IsPool
<1>4. Clear.pinCnt = 0
  BY DescType
<1>5. ASSUME NEW h \in Handles, NEW p \in PageIds, NEW c \in Clients, ReadHit(c, h, p)
      PROVE  PinsCounted' /\ PinnedPageStays'
  <2> DEFINE f == hash[h][p]
             r == [bufDescTable[f] EXCEPT !.refbit = TRUE, !.pinCnt = @ + 1]
  <2>1. /\ f \in Frames /\ f \in 0..NumBufs
        /\ bufDescTable[f].valid
        /\ bufDescTable[f].file = h /\ bufDescTable[f].pageNo = p
    BY <1>2, <1>5, NumBufsAssumption DEF ReadHit, IsPool, EntriesLead, NoFrame, Frames
  <2>2. bufDescTable' = [bufDescTable EXCEPT ![f] = r]
    BY <1>2, <1>5, <2>1 DEF ReadHit
  <2>3. /\ ~Active(c)
        /\ session'[c] = [file |-> h, page |-> p, frame |-> f, wrote |-> FALSE]
        /\ \A e \in Clients \ {c} : session'[e] = session[e]
    BY <1>2, <1>5, <2>1, PinsType DEF ReadHit
  <2> HIDE DEF f
  <2>4. /\ r.file = h /\ r.pageNo = p
        /\ r.pinCnt = bufDescTable[f].pinCnt + 1
    BY <1>2, <2>1, ReadDesc
  <2> HIDE DEF r
  <2>5. /\ bufDescTable'[f].pinCnt = bufDescTable[f].pinCnt + 1
        /\ bufDescTable'[f].file = h /\ bufDescTable'[f].pageNo = p
        /\ \A g \in Frames \ {f} : bufDescTable'[g] = bufDescTable[g]
    BY <1>2, <2>1, <2>2, <2>4
  <2> QED
    BY <2>1, <2>3, <2>5, AddedPin
<1>6. ASSUME ~Exceeded, NEW h \in Handles, NEW p \in PageIds, NEW c \in Clients,
             ~Active(c), Pins(c, h, p, victim),
             bufDescTable' = [TableAfter EXCEPT ![victim] = Set(h, p)]
      PROVE  PinsCounted' /\ PinnedPageStays'
  <2>1. victim \in 0..NumBufs
    BY <1>3, <1>6, NoFrameIsNone
  <2>2. /\ session'[c] = [file |-> h, page |-> p, frame |-> victim, wrote |-> FALSE]
        /\ \A e \in Clients \ {c} : session'[e] = session[e]
    BY <1>2, <1>6, <2>1, PinsType
  <2>3. /\ bufDescTable'[victim] = Set(h, p)
        /\ \A g \in Frames \ {victim} : bufDescTable'[g] = TableAfter[g]
    BY <1>3, <1>6
  <2>4. /\ bufDescTable'[victim].pinCnt = bufDescTable[victim].pinCnt + 1
        /\ bufDescTable'[victim].file = h /\ bufDescTable'[victim].pageNo = p
    BY <1>3, <1>6, <2>3, DescType
  <2> QED
    BY <1>3, <1>6, <2>2, <2>3, <2>4, AddedPin
<1>7. ASSUME NEW h \in Handles, NEW p \in PageIds, NEW c \in Clients, ReadMiss(c, h, p)
      PROVE  PinsCounted' /\ PinnedPageStays'
  BY <1>6, <1>7 DEF ReadMiss, Allocates
<1>8. ASSUME NEW h \in Handles, NEW c \in Clients, AllocPage(c, h)
      PROVE  PinsCounted' /\ PinnedPageStays'
  <2>1. NewNumber(h) \in PageIds
    BY <1>8 DEF AllocPage, CanAllocate, NewNumber
  <2> QED
    BY <1>6, <1>8, <2>1 DEF AllocPage, Allocates
<1>9. ASSUME ~Exceeded, session' = session, bufDescTable' = TableAfter
      PROVE  PinsCounted' /\ PinnedPageStays'
  <2>1. \A f \in Frames :
           /\ bufDescTable'[f].pinCnt = bufDescTable[f].pinCnt
           /\ bufDescTable[f].pinCnt # 0 =>
                 /\ bufDescTable'[f].file = bufDescTable[f].file
                 /\ bufDescTable'[f].pageNo = bufDescTable[f].pageNo
    BY <1>3, <1>4, <1>9
  <2> QED
    BY <1>2, <1>9, <2>1, KeptPins DEF PinInv, Active
<1>10. ASSUME NEW d, AllocBufExceeded \/ AllocBufFails(d), session' = session
       PROVE  PinsCounted' /\ PinnedPageStays'
  <2>1. \A f \in Frames :
           /\ bufDescTable'[f].pinCnt = bufDescTable[f].pinCnt
           /\ bufDescTable'[f].file = bufDescTable[f].file
           /\ bufDescTable'[f].pageNo = bufDescTable[f].pageNo
    BY <1>2, <1>10, NoFramePool
  <2> QED
    BY <1>2, <1>10, <2>1, KeptPins DEF PinInv, Active
<1>11. ASSUME NEW h \in Handles, NEW p \in PageIds,
              ReadInvalid(h, p) \/ ReadNoFrame(h, p)
       PROVE  PinsCounted' /\ PinnedPageStays'
  <2>1. CASE ReadInvalid(h, p)
    BY <1>9, <2>1 DEF ReadInvalid, Allocates
  <2>2. CASE ReadNoFrame(h, p)
    BY <1>10, <2>2 DEF ReadNoFrame
  <2> QED
    BY <1>11, <2>1, <2>2
<1>12. ASSUME NEW h \in Handles, AllocPagePresent(h) \/ AllocPageNoFrame(h)
       PROVE  PinsCounted' /\ PinnedPageStays'
  <2>1. CASE AllocPagePresent(h)
    BY <1>9, <2>1 DEF AllocPagePresent, Allocates
  <2>2. CASE AllocPageNoFrame(h)
    BY <1>10, <2>2 DEF AllocPageNoFrame
  <2> QED
    BY <1>12, <2>1, <2>2
<1>13. ASSUME session' = session, bufDescTable' = bufDescTable
       PROVE  PinsCounted' /\ PinnedPageStays'
  BY <1>2, <1>13, KeptPins DEF PinInv, Active
<1>14. ASSUME NEW h \in Handles, FlushFile(h)
       PROVE  PinsCounted' /\ PinnedPageStays'
  <2>1. ASSUME NEW f \in Flushed(h)
        PROVE  f \in Frames /\ bufDescTable[f].pinCnt = 0
    <3>1. f \in Frames /\ f \in FramesOf(h) /\ (StopsFlush(f) => f < f)
      BY DEF Flushed, FramesOf
    <3>2. ~(f < f)
      BY <3>1, NumBufsAssumption DEF Frames
    <3>3. bufDescTable[f].pinCnt \in Nat
      BY <1>2, <3>1 DEF BufDesc
    <3> QED
      BY <3>1, <3>2, <3>3 DEF StopsFlush
  <2>2. /\ session' = session
        /\ bufDescTable' = [f \in Frames |->
                               IF f \in Flushed(h) THEN Clear ELSE bufDescTable[f]]
    BY <1>14 DEF FlushFile
  <2>3. \A g \in Frames :
           /\ bufDescTable'[g].pinCnt = bufDescTable[g].pinCnt
           /\ bufDescTable[g].pinCnt # 0 =>
                 /\ bufDescTable'[g].file = bufDescTable[g].file
                 /\ bufDescTable'[g].pageNo = bufDescTable[g].pageNo
    BY <1>4, <2>1, <2>2
  <2> QED
    BY <1>2, <2>2, <2>3, KeptPins DEF PinInv, Active
<1>15. ASSUME NEW c \in Clients, NEW d \in Data, WritePinned(c, d)
       PROVE  PinsCounted' /\ PinnedPageStays'
  <2>1. \A e \in Clients : /\ session'[e].frame = session[e].frame
                            /\ session'[e].file = session[e].file
                            /\ session'[e].page = session[e].page
    BY <1>2, <1>15 DEF WritePinned, Session
  <2>2. \A e \in Clients : Active(e)' => Active(e)
    BY <1>2, <1>15 DEF WritePinned, Active
  <2>3. bufDescTable' = bufDescTable
    BY <1>15 DEF WritePinned
  <2> QED
    BY <1>2, <2>1, <2>2, <2>3, KeptPins DEF PinInv
<1>16. ASSUME NEW c \in Clients, UnPinLost(c)
       PROVE  PinsCounted' /\ PinnedPageStays'
  BY <1>16, PinnedSession DEF UnPinLost
<1>17. ASSUME Restart
       PROVE  PinsCounted' /\ PinnedPageStays'
  <2>1. \A c \in Clients : session'[c] = Idle
    BY <1>17 DEF Restart
  <2>2. \A f \in Frames : bufDescTable'[f].pinCnt = 0
    BY <1>4, <1>17 DEF Restart
  <2>3. ASSUME NEW f \in Frames
        PROVE  {c \in Clients : session'[c].frame = f} = {}
    BY <2>1, IdleType, NoFrameIsNone
  <2> QED
    BY <2>1, <2>2, <2>3, FS_EmptySet DEF PinsCounted, PinnedPageStays, Active
<1>18. PinsCounted' /\ PinnedPageStays'
  <2>1. CASE UNCHANGED vars
    BY <1>13, <2>1 DEF vars, pool
  <2>2. ASSUME NEW h \in Handles, NEW p \in PageIds, DisposeUnbuffered(h, p)
        PROVE  PinsCounted' /\ PinnedPageStays'
    BY <1>13, <2>2 DEF DisposeUnbuffered, pool
  <2>3. ASSUME NEW c \in Clients, NEW dirty \in BOOLEAN, UnPin(c, dirty)
        PROVE  PinsCounted' /\ PinnedPageStays'
    BY <2>3, RemovedPin
  <2> QED
    BY <1>5, <1>7, <1>8, <1>11, <1>12, <1>14, <1>15, <1>16, <1>17,
       <2>1, <2>2, <2>3 DEF KeepingNext
<1> QED
  BY <1>1, <1>18 DEF PinInv

\* With disciplined clients, every step keeps pins counted and pointers valid.
LEMMA PinNext ==
    ASSUME Disciplined, PinInv, [Next]_vars
    PROVE  PinInv'
<1>1. IInv'
  BY InvNext DEF PinInv
<1>2. /\ IsPool(bufDescTable, hash, bufPool)
      /\ session' \in [Clients -> Session]
      /\ bufDescTable \in [Frames -> BufDesc]
  BY <1>1 DEF PinInv, IInv, IsRest, IsPool
<1>3. Clear.pinCnt = 0
  BY DescType
<1>4. ASSUME NEW h \in Handles, NEW p \in PageIds, DisposeBuffered(h, p)
       PROVE  PinsCounted' /\ PinnedPageStays'
  <2> DEFINE f == hash[h][p]
  <2>1. /\ f \in Frames
        /\ bufDescTable[f].file = h /\ bufDescTable[f].pageNo = p
    BY <1>2, <1>4, NumBufsAssumption
    DEF DisposeBuffered, IsPool, EntriesLead, NoFrame, Frames
  <2>2. Owners(f) = {}
    <3> SUFFICES ASSUME NEW c \in Owners(f) PROVE FALSE
      OBVIOUS
    <3>1. c \in Clients /\ session[c].frame = f
      BY DEF Owners
    <3>2. Active(c)
      BY <2>1, <3>1, OwnerIsActive
    <3>3. session[c].file = h /\ session[c].page = p
      BY <2>1, <3>1, <3>2 DEF PinInv, PinnedPageStays
    <3> QED
      BY <1>4, <3>1, <3>2, <3>3 DEF DisposeBuffered, MayDispose
  <2>3. bufDescTable[f].pinCnt = 0
    BY <2>1, <2>2, FS_EmptySet DEF PinInv, PinsCounted, Owners
  <2>4. bufDescTable' = [bufDescTable EXCEPT ![f] = Clear] /\ session' = session
    BY <1>4 DEF DisposeBuffered
  <2> HIDE DEF f
  <2>5. \A g \in Frames :
           /\ bufDescTable'[g].pinCnt = bufDescTable[g].pinCnt
           /\ bufDescTable[g].pinCnt # 0 =>
                 /\ bufDescTable'[g].file = bufDescTable[g].file
                 /\ bufDescTable'[g].pageNo = bufDescTable[g].pageNo
    BY <1>2, <1>3, <2>1, <2>3, <2>4
  <2> QED
    BY <1>2, <2>4, <2>5, KeptPins DEF PinInv, Active
<1>5. CASE [KeepingNext]_vars
  BY <1>5, PinKept
<1> QED
  BY <1>1, <1>4, <1>5 DEF PinInv, Next, KeepingNext

\* In a new buffer manager nobody has a pin, and no frame counts one.
LEMMA PinInit == Init => PinInv
<1> SUFFICES ASSUME Init PROVE PinInv
  OBVIOUS
<1>1. IInv
  BY InvInit
<1>2. \A c \in Clients : session[c] = Idle
  BY DEF Init
<1>3. \A f \in Frames : bufDescTable[f].pinCnt = 0
  BY DescType DEF Init
<1>4. \A f \in Frames : {c \in Clients : session[c].frame = f} = {}
  BY <1>2, IdleType, NoFrameIsNone
<1> QED
  BY <1>1, <1>2, <1>3, <1>4, FS_EmptySet DEF PinInv, PinsCounted, PinnedPageStays, Active

\* If clients dispose of no pinned page, pinCnt is the number of clients that
\* hold the page: no frame stays pinned, and lost to allocBuf, when its clients
\* are gone, and none is free while it has clients.
THEOREM PinsAreCounted ==
    ASSUME Disciplined
    PROVE  Spec => []PinsCounted
<1>1. PinInv /\ [Next]_vars => PinInv'
  BY PinNext
<1>2. Spec => []PinInv
  BY <1>1, PinInit, PTL DEF Spec
<1>3. PinInv => PinsCounted
  BY DEF PinInv
<1> QED
  BY <1>2, <1>3, PTL

\* If clients dispose of no pinned page, a client's page pointer points at its
\* page, until it unpins it: no sequence of reads, allocations, flushes,
\* evictions and disposals, failing ones included, takes the page away.
THEOREM PinsKeepPages ==
    ASSUME Disciplined
    PROVE  Spec => []PinnedPageStays
<1>1. PinInv /\ [Next]_vars => PinInv'
  BY PinNext
<1>2. Spec => []PinInv
  BY <1>1, PinInit, PTL DEF Spec
<1>3. PinInv => PinnedPageStays
  BY DEF PinInv
<1> QED
  BY <1>2, <1>3, PTL

-----------------------------------------------------------------------------
(* The pool as a cache *)

\* Each file has one File object.
OneHandle == \A h, i \in Handles : FileOf[h] = FileOf[i] => h = i

-----------------------------------------------------------------------------
(* The inductive invariant of the cache *)

\* The files of disk d have exact lists.
SoundDisk(d) == IsDisk(d) /\ \A n \in Files : ListsExact(d[n])

\* The valid frame f, by the descriptors t, holds page p of file n.
Holds(t, f, n, p) == t[f].valid /\ FileOf[t[f].file] = n /\ t[f].pageNo = p

\* Every page in a frame is in use on the disk d.
Stored(t, d) ==
    \A f \in Frames : t[f].valid => t[f].pageNo \in InUse(d[FileOf[t[f].file]])

\* No client of sessions s that has frame f has written to it.
Unwritten(s, f) == \A c \in Clients : s[c].frame = f => ~s[c].wrote

\* Frame f has the content that its page has on the disk d.
Same(t, b, d, f) == b[f].data = d[FileOf[t[f].file]].page[t[f].pageNo].data

\* Every clean frame has the content of its page.
CleanSame(t, b, d, s) ==
    \A f \in Frames : t[f].valid /\ ~t[f].dirty /\ Unwritten(s, f) => Same(t, b, d, f)

SoundCache == /\ SoundDisk(disk)
              /\ Stored(bufDescTable, disk)
              /\ CleanSame(bufDescTable, bufPool, disk, session)

CacheInv == PinInv /\ SoundCache

\* The inductive invariant says that clean frames match the disk.
LEMMA CacheInvImplies == CacheInv => CleanMatchesDisk
  BY DEF CacheInv, SoundCache, CleanSame, Unwritten, Same, CleanMatchesDisk, FileIn

-----------------------------------------------------------------------------
(* Frames and pages *)

\* With one File object for a file, one frame at most holds a page.
LEMMA OneFrame ==
    ASSUME OneHandle, NEW t, NEW k, NEW b, IsPool(t, k, b),
           NEW f \in Frames, NEW g \in Frames, NEW n, NEW p,
           Holds(t, f, n, p), Holds(t, g, n, p)
    PROVE  f = g
  BY DEF OneHandle, IsPool, Hashed, Holds

\* The page of a valid frame.
LEMMA FramePage ==
    ASSUME NEW t, NEW k, NEW b, IsPool(t, k, b), NEW f \in Frames, t[f].valid
    PROVE  /\ t[f].file \in Handles /\ FileOf[t[f].file] \in Files
           /\ t[f].pageNo \in PageIds
           /\ b[f] \in Page /\ b[f].num = t[f].pageNo
           /\ Holds(t, f, FileOf[t[f].file], t[f].pageNo)
  BY FileOfAssumption DEF IsPool, Hashed, Holds

\* The entry of a page leads to the frame that holds it.
LEMMA EntryHolds ==
    ASSUME NEW t, NEW k, NEW b, IsPool(t, k, b), NEW h \in Handles, NEW p \in PageIds,
           k[h][p] # NoFrame
    PROVE  k[h][p] \in Frames /\ Holds(t, k[h][p], FileOf[h], p)
<1>1. k[h][p] \in Frames
  BY NumBufsAssumption DEF IsPool, NoFrame, Frames
<1> QED
  BY <1>1 DEF IsPool, EntriesLead, Holds

\* A page without an entry is in no frame.
LEMMA NoEntryHoldsNot ==
    ASSUME OneHandle, NEW t, NEW k, NEW b, IsPool(t, k, b), NEW h \in Handles,
           NEW p \in PageIds, k[h][p] = NoFrame, NEW f \in Frames
    PROVE  ~Holds(t, f, FileOf[h], p)
  BY NoFrameIsNone DEF OneHandle, IsPool, Hashed, Holds

-----------------------------------------------------------------------------
(* Frames written back *)

\* Disk e is disk d with the pages in the frames of S written.
Rewritten(d, e, S) ==
    /\ IsDisk(e)
    /\ \A n \in Files :
          /\ e[n].hdr = d[n].hdr
          /\ \A p \in PageIds :
                /\ e[n].page[p].num = d[n].page[p].num
                /\ e[n].page[p].next = d[n].page[p].next
                /\ \A f \in S : Holds(bufDescTable, f, n, p)
                                => e[n].page[p].data = bufPool[f].data
                /\ (\A f \in S : ~Holds(bufDescTable, f, n, p))
                   => e[n].page[p].data = d[n].page[p].data

\* WrittenBack writes each page from the frame that holds it.
LEMMA WrittenBackWrites ==
    ASSUME OneHandle, NEW d, IsDisk(d), IsPool(bufDescTable, hash, bufPool),
           Stored(bufDescTable, d),
           NEW S \in SUBSET Frames, \A f \in S : bufDescTable[f].valid
    PROVE  Rewritten(d, WrittenBack(d, S), S)
<1> DEFINE W(n, p) == {f \in S : FileIn(f) = n /\ bufPool[f].num = p}
           last(n, p) == CHOOSE f \in W(n, p) : \A g \in W(n, p) : g <= f
           pg(n, p) == IF W(n, p) = {} THEN d[n].page[p]
                       ELSE [bufPool[last(n, p)] EXCEPT !.next = d[n].page[p].next]
           e == WrittenBack(d, S)
<1>1. IsDisk(e)
  BY WrittenBackType
<1>2. ASSUME NEW n \in Files
      PROVE  /\ e[n].hdr = d[n].hdr
             /\ \A p \in PageIds : e[n].page[p] = pg(n, p)
  <2>1. d[n] \in FileImage
    BY DEF IsDisk
  <2>2. e[n] = [d[n] EXCEPT !.page = [p \in PageIds |-> pg(n, p)]]
    BY DEF WrittenBack
  <2> HIDE DEF pg, e
  <2> QED
    BY <2>1, <2>2 DEF FileImage
<1>3. ASSUME NEW n \in Files, NEW p \in PageIds
      PROVE  /\ pg(n, p).num = d[n].page[p].num
             /\ pg(n, p).next = d[n].page[p].next
             /\ \A f \in S : Holds(bufDescTable, f, n, p) => pg(n, p).data = bufPool[f].data
             /\ (\A f \in S : ~Holds(bufDescTable, f, n, p)) => pg(n, p).data = d[n].page[p].data
  <2>1. \A f \in S : f \in W(n, p) <=> Holds(bufDescTable, f, n, p)
    BY DEF FileIn, IsPool, Hashed, Holds
  <2>2. CASE W(n, p) = {}
    <3>1. pg(n, p) = d[n].page[p]
      BY <2>2
    <3>2. \A f \in S : ~Holds(bufDescTable, f, n, p)
      BY <2>1, <2>2
    <3> HIDE DEF pg, W
    <3> QED
      BY <3>1, <3>2
  <2>3. CASE W(n, p) # {}
    <3> DEFINE l == last(n, p)
    <3>1. W(n, p) \in SUBSET Frames
      OBVIOUS
    <3>2. l \in W(n, p)
      <4> HIDE DEF W
      <4> QED
        BY <2>3, <3>1, LastFrame
    <3>3. pg(n, p) = [bufPool[l] EXCEPT !.next = d[n].page[p].next]
      BY <2>3
    <3>4. l \in S /\ l \in Frames /\ Holds(bufDescTable, l, n, p)
      <4>1. l \in S
        BY <3>2
      <4> HIDE DEF l, W
      <4> QED
        BY <2>1, <3>2, <4>1
    <3> HIDE DEF l, pg, W
    <3>5. bufPool[l] \in Page /\ bufPool[l].num = p
      BY <3>4, FramePage DEF Holds
    <3>6. d[n].page[p].num = p
      <4>1. p \in InUse(d[n])
        BY <3>4 DEF Stored, Holds
      <4> QED
        BY <4>1 DEF IsDisk, Numbered, InUse
    <3>7. \A f \in S : Holds(bufDescTable, f, n, p) => f = l
      BY <3>4, OneFrame
    <3>8. pg(n, p).num = p /\ pg(n, p).data = bufPool[l].data /\ pg(n, p).next = d[n].page[p].next
      BY <3>3, <3>5 DEF Page
    <3> QED
      BY <3>4, <3>6, <3>7, <3>8
  <2> QED
    BY <2>2, <2>3
<1> HIDE DEF pg, e
<1>4. Rewritten(d, e, S)
  BY <1>1, <1>2, <1>3 DEF Rewritten
<1> QED
  BY <1>4 DEF e

\* Writing no frame is writing nothing.
LEMMA NothingWritten ==
    ASSUME NEW d, IsDisk(d)
    PROVE  Rewritten(d, d, {})
  BY DEF Rewritten

\* Written pages keep every file's lists, and its pages in use.
LEMMA RewrittenDisk ==
    ASSUME NEW d, SoundDisk(d), Stored(bufDescTable, d),
           NEW S \in SUBSET Frames, NEW e, Rewritten(d, e, S)
    PROVE  SoundDisk(e) /\ \A n \in Files : InUse(e[n]) = InUse(d[n])
<1>1. ASSUME NEW n \in Files
      PROVE  ListsExact(e[n]) /\ InUse(e[n]) = InUse(d[n])
  <2>1. d[n] \in FileImage /\ e[n] \in FileImage /\ ListsExact(d[n])
    BY DEF SoundDisk, Rewritten, IsDisk
  <2>2. ASSUME NEW p \in PageIds, p \notin InUse(d[n])
        PROVE  e[n].page[p].data = d[n].page[p].data
    <3>1. \A f \in S : ~Holds(bufDescTable, f, n, p)
      BY <2>2 DEF Stored, Holds
    <3> QED
      BY <3>1 DEF Rewritten
  <2>3. /\ e[n].hdr = d[n].hdr
        /\ \A p \in PageIds : /\ e[n].page[p].num = d[n].page[p].num
                              /\ e[n].page[p].next = d[n].page[p].next
    BY DEF Rewritten
  <2> QED
    BY <2>1, <2>2, <2>3, ContentKeepsLists
<1> QED
  BY <1>1 DEF SoundDisk, Rewritten

\* Giving up the victim writes it if it is dirty, and no other frame.
LEMMA VictimWritten ==
    ASSUME OneHandle, NEW d, IsDisk(d), IsPool(bufDescTable, hash, bufPool),
           Stored(bufDescTable, d), victim \in Frames
    PROVE  Rewritten(d, DiskAfter(d), IF VictimDirty THEN {victim} ELSE {})
<1>1. CASE VictimDirty
  <2>1. Rewritten(d, WrittenBack(d, {victim}), {victim})
    BY <1>1, WrittenBackWrites DEF VictimDirty
  <2> QED
    BY <1>1, <2>1 DEF DiskAfter
<1>2. CASE ~VictimDirty
  BY <1>2, NothingWritten DEF DiskAfter
<1> QED
  BY <1>1, <1>2

-----------------------------------------------------------------------------
(* What clients find *)

\* The content of page p of file n, by descriptors t, frames b and disk d.
Value(t, b, d, n, p) ==
    LET held == {f \in Frames : Holds(t, f, n, p)}
    IN  IF p \notin InUse(d[n]) THEN NoData
        ELSE IF held = {} THEN d[n].page[p].data
        ELSE b[CHOOSE f \in held : TRUE].data

\* A page in a frame has the content of the frame.
LEMMA ValueInFrame ==
    ASSUME OneHandle, NEW t, NEW k, NEW b, IsPool(t, k, b), NEW d,
           NEW f \in Frames, NEW n, NEW p, Holds(t, f, n, p), p \in InUse(d[n])
    PROVE  Value(t, b, d, n, p) = b[f].data
<1> DEFINE held == {g \in Frames : Holds(t, g, n, p)}
           m == CHOOSE g \in held : TRUE
<1>1. f \in held
  OBVIOUS
<1>2. m \in held
  BY <1>1
<1>3. Value(t, b, d, n, p) = b[m].data
  BY <1>1 DEF Value
<1>4. m \in Frames /\ Holds(t, m, n, p)
  BY <1>2
<1> HIDE DEF m, held
<1> QED
  BY <1>3, <1>4, OneFrame

\* A page in no frame has the content it has on the disk.
LEMMA ValueOnDisk ==
    ASSUME NEW t, NEW b, NEW d, NEW n, NEW p,
           \A f \in Frames : ~Holds(t, f, n, p)
    PROVE  Value(t, b, d, n, p) = IF p \in InUse(d[n]) THEN d[n].page[p].data ELSE NoData
<1>1. {f \in Frames : Holds(t, f, n, p)} = {}
  OBVIOUS
<1> QED
  BY <1>1 DEF Value

\* Two states in which a page is in the same frame, with the same bytes, or on
\* the disk with the same content, give it the same value.
LEMMA SameValue ==
    ASSUME NEW t, NEW b, NEW d, NEW u, NEW c, NEW e, NEW n, NEW p,
           \A f \in Frames : Holds(t, f, n, p) <=> Holds(u, f, n, p),
           \A f \in Frames : Holds(t, f, n, p) => b[f] = c[f],
           p \in InUse(d[n]) <=> p \in InUse(e[n]),
           d[n].page[p].data = e[n].page[p].data
    PROVE  Value(t, b, d, n, p) = Value(u, c, e, n, p)
<1> DEFINE held == {f \in Frames : Holds(t, f, n, p)}
           also == {f \in Frames : Holds(u, f, n, p)}
           x == CHOOSE f \in held : TRUE
           y == CHOOSE f \in also : TRUE
<1>1. held = also
  OBVIOUS
<1>2. x = y
  BY <1>1
<1>3. held # {} => x \in Frames /\ Holds(t, x, n, p)
  OBVIOUS
<1>4. Value(t, b, d, n, p) = IF p \notin InUse(d[n]) THEN NoData
                             ELSE IF held = {} THEN d[n].page[p].data ELSE b[x].data
  BY DEF Value
<1>5. Value(u, c, e, n, p) = IF p \notin InUse(e[n]) THEN NoData
                             ELSE IF also = {} THEN e[n].page[p].data ELSE c[y].data
  BY DEF Value
<1> HIDE DEF held, also, x, y
<1> QED
  BY <1>1, <1>2, <1>3, <1>4, <1>5

\* Content is the value by the state of the buffer manager.
LEMMA ContentIsValue ==
    ASSUME OneHandle, NEW t, NEW k, NEW b, IsPool(t, k, b), NEW d,
           NEW n \in Files, NEW p \in PageIds,
           NEW cached, cached = {h \in Handles : FileOf[h] = n /\ k[h][p] # NoFrame}
    PROVE  Value(t, b, d, n, p) =
              IF d[n].page[p].num = NoPage THEN NoData
              ELSE IF cached = {} THEN d[n].page[p].data
              ELSE b[k[CHOOSE h \in cached : TRUE][p]].data
<1>1. p \in InUse(d[n]) <=> d[n].page[p].num # NoPage
  BY DEF InUse
<1>2. CASE cached = {}
  <2>1. ASSUME NEW f \in Frames, Holds(t, f, n, p) PROVE FALSE
    <3>1. t[f].file \in Handles /\ FileOf[t[f].file] = n /\ k[t[f].file][p] = f
      BY <2>1 DEF IsPool, Hashed, Holds
    <3> QED
      BY <1>2, <3>1, NoFrameIsNone
  <2>2. Value(t, b, d, n, p) = IF p \in InUse(d[n]) THEN d[n].page[p].data ELSE NoData
    BY <2>1, ValueOnDisk
  <2> QED
    BY <1>1, <1>2, <2>2
<1>3. CASE cached # {}
  <2> DEFINE h == CHOOSE h \in cached : TRUE
  <2>1. h \in cached
    BY <1>3
  <2>2. h \in Handles /\ FileOf[h] = n /\ k[h][p] # NoFrame
    BY <2>1
  <2> HIDE DEF h
  <2>3. k[h][p] \in Frames /\ Holds(t, k[h][p], n, p)
    BY <2>2, EntryHolds
  <2>4. p \in InUse(d[n]) => Value(t, b, d, n, p) = b[k[h][p]].data
    BY <2>3, ValueInFrame
  <2>5. p \notin InUse(d[n]) => Value(t, b, d, n, p) = NoData
    BY DEF Value
  <2> QED
    BY <1>1, <1>3, <2>4, <2>5 DEF h
<1> QED
  BY <1>2, <1>3

-----------------------------------------------------------------------------
(* Frames given up *)

\* The valid frames by the descriptors t are frames that were valid, unchanged.
Keeps(t) ==
    \A f \in Frames : t[f].valid =>
        /\ bufDescTable[f].valid
        /\ t[f].file = bufDescTable[f].file
        /\ t[f].pageNo = bufDescTable[f].pageNo
        /\ (t[f].dirty <=> bufDescTable[f].dirty)

\* Frames that are given up after they were written, or that had the content
\* of the disk, are not missed.
LEMMA GivenUp ==
    ASSUME OneHandle, IsPool(bufDescTable, hash, bufPool),
           NEW d, SoundDisk(d), Stored(bufDescTable, d),
           CleanSame(bufDescTable, bufPool, d, session),
           NEW S \in SUBSET Frames, NEW e, Rewritten(d, e, S),
           NEW t, Keeps(t),
           \A f \in Frames : bufDescTable[f].valid /\ ~t[f].valid =>
                f \in S \/ Same(bufDescTable, bufPool, d, f)
    PROVE  /\ SoundDisk(e)
           /\ Stored(t, e)
           /\ CleanSame(t, bufPool, e, session)
           /\ \A n \in Files, p \in PageIds :
                 Value(t, bufPool, e, n, p) = Value(bufDescTable, bufPool, d, n, p)
<1>1. SoundDisk(e) /\ \A n \in Files : InUse(e[n]) = InUse(d[n])
  BY RewrittenDisk
<1>2. \A f \in Frames : \A n, p : Holds(t, f, n, p) => Holds(bufDescTable, f, n, p)
  BY DEF Keeps, Holds
<1>3. Stored(t, e)
  <2> SUFFICES ASSUME NEW f \in Frames, t[f].valid
               PROVE  t[f].pageNo \in InUse(e[FileOf[t[f].file]])
    BY DEF Stored
  <2>1. /\ bufDescTable[f].valid
        /\ t[f].file = bufDescTable[f].file /\ t[f].pageNo = bufDescTable[f].pageNo
    BY DEF Keeps
  <2>2. FileOf[bufDescTable[f].file] \in Files
    BY <2>1, FramePage
  <2> QED
    BY <1>1, <2>1, <2>2 DEF Stored
<1>4. ASSUME NEW f \in Frames, NEW n \in Files, NEW p \in PageIds,
             Holds(bufDescTable, f, n, p),
             f \in S \/ Same(bufDescTable, bufPool, d, f)
      PROVE  e[n].page[p].data = bufPool[f].data
  <2>1. CASE f \in S
    BY <1>4, <2>1 DEF Rewritten
  <2>2. CASE f \notin S
    <3>1. \A g \in S : ~Holds(bufDescTable, g, n, p)
      BY <1>4, <2>2, OneFrame
    <3>2. e[n].page[p].data = d[n].page[p].data
      BY <3>1 DEF Rewritten
    <3> QED
      BY <1>4, <2>2, <3>2 DEF Same, Holds
  <2> QED
    BY <2>1, <2>2
<1>5. CleanSame(t, bufPool, e, session)
  <2> SUFFICES ASSUME NEW f \in Frames, t[f].valid, ~t[f].dirty, Unwritten(session, f)
               PROVE  Same(t, bufPool, e, f)
    BY DEF CleanSame
  <2>1. /\ bufDescTable[f].valid /\ ~bufDescTable[f].dirty
        /\ t[f].file = bufDescTable[f].file /\ t[f].pageNo = bufDescTable[f].pageNo
    BY DEF Keeps
  <2>2. Same(bufDescTable, bufPool, d, f)
    BY <2>1 DEF CleanSame
  <2>3. /\ FileOf[bufDescTable[f].file] \in Files
        /\ bufDescTable[f].pageNo \in PageIds
        /\ Holds(bufDescTable, f, FileOf[bufDescTable[f].file], bufDescTable[f].pageNo)
    BY <2>1, FramePage
  <2> DEFINE n == FileOf[bufDescTable[f].file]
             p == bufDescTable[f].pageNo
  <2>4. e[n].page[p].data = bufPool[f].data
    <3> HIDE DEF n, p
    <3> QED
      BY <1>4, <2>2, <2>3 DEF n, p
  <2> QED
    BY <2>1, <2>4 DEF Same
<1>6. ASSUME NEW n \in Files, NEW p \in PageIds
      PROVE  Value(t, bufPool, e, n, p) = Value(bufDescTable, bufPool, d, n, p)
  <2>1. InUse(e[n]) = InUse(d[n])
    BY <1>1
  <2>2. CASE p \notin InUse(d[n])
    BY <2>1, <2>2 DEF Value
  <2>3. CASE p \in InUse(d[n]) /\ \A f \in Frames : ~Holds(bufDescTable, f, n, p)
    <3>1. \A f \in Frames : ~Holds(t, f, n, p)
      BY <1>2, <2>3
    <3>2. e[n].page[p].data = d[n].page[p].data
      BY <2>3 DEF Rewritten
    <3> QED
      BY <2>1, <2>3, <3>1, <3>2, ValueOnDisk
  <2>4. ASSUME p \in InUse(d[n]), NEW f \in Frames, Holds(bufDescTable, f, n, p)
        PROVE  Value(t, bufPool, e, n, p) = Value(bufDescTable, bufPool, d, n, p)
    <3>1. Value(bufDescTable, bufPool, d, n, p) = bufPool[f].data
      BY <2>4, ValueInFrame
    <3>2. \A g \in Frames : Holds(t, g, n, p) => g = f
      BY <1>2, <2>4, OneFrame
    <3>3. CASE t[f].valid
      <4>1. Holds(t, f, n, p)
        BY <2>4, <3>3 DEF Keeps, Holds
      <4>2. {g \in Frames : Holds(t, g, n, p)} = {f}
        BY <3>2, <4>1
      <4>3. (CHOOSE g \in {f} : TRUE) = f
        OBVIOUS
      <4> QED
        BY <2>1, <2>4, <3>1, <4>2, <4>3 DEF Value
    <3>4. CASE ~t[f].valid
      <4>1. \A g \in Frames : ~Holds(t, g, n, p)
        BY <3>2, <3>4 DEF Holds
      <4>2. e[n].page[p].data = bufPool[f].data
        BY <1>4, <2>4, <3>4 DEF Holds
      <4> QED
        BY <2>1, <2>4, <3>1, <4>1, <4>2, ValueOnDisk
    <3> QED
      BY <3>3, <3>4
  <2> QED
    BY <2>2, <2>3, <2>4
<1> QED
  BY <1>1, <1>3, <1>5, <1>6

\* allocBuf's victim is not missed.
LEMMA VictimGivenUp ==
    ASSUME OneHandle, PinInv, ~Exceeded,
           NEW d, SoundDisk(d), Stored(bufDescTable, d),
           CleanSame(bufDescTable, bufPool, d, session)
    PROVE  /\ SoundDisk(DiskAfter(d))
           /\ Stored(TableAfter, DiskAfter(d))
           /\ CleanSame(TableAfter, bufPool, DiskAfter(d), session)
           /\ \A n \in Files, p \in PageIds :
                 Value(TableAfter, bufPool, DiskAfter(d), n, p)
                     = Value(bufDescTable, bufPool, d, n, p)
<1> DEFINE S == IF VictimDirty THEN {victim} ELSE {}
<1>1. IsPool(bufDescTable, hash, bufPool) /\ clockHand \in Frames
  BY DEF PinInv, IInv
<1>2. victim \in Frames /\ bufDescTable[victim].pinCnt = 0
  BY <1>1, VictimIsUnpinned
<1>3. Rewritten(d, DiskAfter(d), S)
  BY <1>1, <1>2, VictimWritten DEF SoundDisk
<1>4. /\ TableAfter[victim] = Clear
      /\ \A f \in Frames \ {victim} : TableAfter[f] = SweptTable(victim)[f]
  <2>1. SweptTable(victim) \in [Frames -> BufDesc]
    BY <1>1, <1>2, SweptPool DEF IsPool
  <2> QED
    BY <1>2, <2>1 DEF TableAfter
<1>5. Keeps(TableAfter)
  BY <1>1, <1>2, <1>4, SweptPool, DescType DEF Keeps
<1>6. ASSUME NEW f \in Frames, bufDescTable[f].valid, ~TableAfter[f].valid
      PROVE  f \in S \/ Same(bufDescTable, bufPool, d, f)
  <2>1. f = victim
    BY <1>1, <1>2, <1>4, <1>6, SweptPool
  <2>2. Unwritten(session, f)
    <3>1. Owners(f) = {}
      BY <1>2, <2>1, UnpinnedHasNoOwner DEF PinInv
    <3> QED
      BY <3>1 DEF Owners, Unwritten
  <2>3. CASE bufDescTable[victim].dirty
    BY <1>6, <2>1, <2>3 DEF VictimDirty
  <2>4. CASE ~bufDescTable[victim].dirty
    BY <1>6, <2>1, <2>2, <2>4 DEF CleanSame
  <2> QED
    BY <2>3, <2>4
<1>7. S \in SUBSET Frames
  BY <1>2
<1> DEFINE e == DiskAfter(d)
           t == TableAfter
<1>8. /\ Rewritten(d, e, S) /\ Keeps(t)
      /\ \A f \in Frames : bufDescTable[f].valid /\ ~t[f].valid =>
             f \in S \/ Same(bufDescTable, bufPool, d, f)
  BY <1>3, <1>5, <1>6
<1> HIDE DEF S, e, t
<1>9. /\ SoundDisk(e) /\ Stored(t, e) /\ CleanSame(t, bufPool, e, session)
      /\ \A n \in Files, p \in PageIds :
            Value(t, bufPool, e, n, p) = Value(bufDescTable, bufPool, d, n, p)
  BY <1>1, <1>7, <1>8, GivenUp
<1> QED
  BY <1>9 DEF e, t

-----------------------------------------------------------------------------
(* Pages that come and go *)

\* A page added to a file is empty, and changes no other page.
LEMMA GrownDiskSound ==
    ASSUME CacheInv, NEW h \in Handles, CanAllocate(h)
    PROVE  /\ FileOf[h] \in Files /\ NewNumber(h) \in PageIds
           /\ NewNumber(h) \notin InUse(disk[FileOf[h]])
           /\ NewPage(disk[FileOf[h]]).data = EmptyData
           /\ SoundDisk(GrownDisk(h))
           /\ Stored(bufDescTable, GrownDisk(h))
           /\ CleanSame(bufDescTable, bufPool, GrownDisk(h), session)
           /\ NewNumber(h) \in InUse(GrownDisk(h)[FileOf[h]])
           /\ \A n \in Files, p \in PageIds :
                 Value(bufDescTable, bufPool, GrownDisk(h), n, p)
                     = IF n = FileOf[h] /\ p = NewNumber(h) THEN EmptyData
                       ELSE Value(bufDescTable, bufPool, disk, n, p)
<1> DEFINE m == FileOf[h]
           q == NewNumber(h)
           e == GrownDisk(h)
<1>1. IsPool(bufDescTable, hash, bufPool) /\ IsDisk(disk) /\ SoundDisk(disk)
  BY DEF CacheInv, SoundCache, PinInv, IInv
<1>2. /\ m \in Files /\ q \in PageIds /\ IsDisk(e)
      /\ NewPage(disk[m]).num = q
  BY <1>1, FileOfAssumption, GrownDiskType
<1>3. /\ disk[m] \in FileImage /\ ListsExact(disk[m])
      /\ ~AllocateFails(disk[m]) /\ NewPageNumber(disk[m]) = q
  BY <1>1, <1>2 DEF SoundDisk, IsDisk, CanAllocate, NewNumber
<1>4. /\ q \notin InUse(disk[m]) /\ disk[m].page[q].num = NoPage
      /\ NewPage(disk[m]).data = EmptyData
  BY <1>2, <1>3, NewNumberIsFree DEF ListsExact
<1>5. /\ e[m] = Allocated(disk[m])
      /\ \A n \in Files \ {m} : e[n] = disk[n]
  BY <1>1, <1>2 DEF GrownDisk, IsDisk
<1>6. /\ e[m].page[q].data = EmptyData
      /\ \A p \in PageIds \ {q} : e[m].page[p].data = disk[m].page[p].data
      /\ InUse(e[m]) = InUse(disk[m]) \cup {q}
  BY <1>2, <1>3, <1>4, <1>5, AllocatedParts
<1>7. SoundDisk(e)
  <2>1. ListsExact(e[m])
    BY <1>2, <1>3, <1>5, AllocatedLists
  <2> QED
    BY <1>1, <1>2, <1>5, <2>1 DEF SoundDisk
<1> HIDE DEF e, m, q
<1>8. \A f \in Frames, n \in Files, p \in PageIds :
         Holds(bufDescTable, f, n, p) =>
            /\ p \in InUse(disk[n]) /\ p \in InUse(e[n])
            /\ e[n].page[p].data = disk[n].page[p].data
  <2> SUFFICES ASSUME NEW f \in Frames, NEW n \in Files, NEW p \in PageIds,
                      Holds(bufDescTable, f, n, p)
               PROVE  /\ p \in InUse(disk[n]) /\ p \in InUse(e[n])
                      /\ e[n].page[p].data = disk[n].page[p].data
    OBVIOUS
  <2>1. p \in InUse(disk[n])
    BY DEF CacheInv, SoundCache, Stored, Holds
  <2> QED
    BY <1>4, <1>5, <1>6, <2>1
<1>9. Stored(bufDescTable, e) /\ CleanSame(bufDescTable, bufPool, e, session)
  <2>1. ASSUME NEW f \in Frames, bufDescTable[f].valid
        PROVE  /\ bufDescTable[f].pageNo \in InUse(e[FileOf[bufDescTable[f].file]])
               /\ Same(bufDescTable, bufPool, disk, f) => Same(bufDescTable, bufPool, e, f)
    <3> DEFINE n == FileOf[bufDescTable[f].file]
               p == bufDescTable[f].pageNo
    <3>1. n \in Files /\ p \in PageIds /\ Holds(bufDescTable, f, n, p)
      BY <1>1, <2>1, FramePage
    <3>2. p \in InUse(e[n]) /\ e[n].page[p].data = disk[n].page[p].data
      <4> HIDE DEF n, p
      <4> QED
        BY <1>8, <3>1
    <3> QED
      BY <3>2 DEF Same
  <2> QED
    BY <2>1 DEF CacheInv, SoundCache, Stored, CleanSame
<1>10. ASSUME NEW n \in Files, NEW p \in PageIds
       PROVE  Value(bufDescTable, bufPool, e, n, p)
                 = IF n = m /\ p = q THEN EmptyData
                   ELSE Value(bufDescTable, bufPool, disk, n, p)
  <2>1. CASE n = m /\ p = q
    <3>1. \A f \in Frames : ~Holds(bufDescTable, f, n, p)
      BY <1>4, <1>8, <2>1
    <3> QED
      BY <1>6, <2>1, <3>1, ValueOnDisk
  <2>2. CASE ~(n = m /\ p = q)
    <3>1. /\ p \in InUse(e[n]) <=> p \in InUse(disk[n])
          /\ e[n].page[p].data = disk[n].page[p].data
      BY <1>5, <1>6, <2>2
    <3> QED
      BY <2>2, <3>1 DEF Value
  <2> QED
    BY <2>1, <2>2
<1> QED
  BY <1>2, <1>4, <1>6, <1>7, <1>9, <1>10 DEF e, m, q

\* A page deleted from a file and from its frame changes no other page.
LEMMA ShrunkDiskSound ==
    ASSUME OneHandle, CacheInv, NEW h \in Handles, NEW p \in PageIds, MayDispose(h, p),
           ~DeleteFails(disk[FileOf[h]], p),
           NEW e, IsDisk(e), e[FileOf[h]] = Deleted(disk[FileOf[h]], p),
           \A n \in Files \ {FileOf[h]} : e[n] = disk[n],
           NEW t, Keeps(t), \A f \in Frames : ~Holds(t, f, FileOf[h], p),
           \A f \in Frames : bufDescTable[f].valid /\ ~t[f].valid =>
                Holds(bufDescTable, f, FileOf[h], p)
    PROVE  /\ FileOf[h] \in Files
           /\ p \in InUse(disk[FileOf[h]])
           /\ SoundDisk(e)
           /\ Stored(t, e)
           /\ CleanSame(t, bufPool, e, session)
           /\ \A n \in Files, r \in PageIds :
                 Value(t, bufPool, e, n, r)
                     = IF n = FileOf[h] /\ r = p THEN NoData
                       ELSE Value(bufDescTable, bufPool, disk, n, r)
<1> DEFINE m == FileOf[h]
<1>1. IsPool(bufDescTable, hash, bufPool) /\ IsDisk(disk) /\ SoundDisk(disk)
  BY DEF CacheInv, SoundCache, PinInv, IInv
<1>2. m \in Files
  BY FileOfAssumption
<1>3. /\ disk[m] \in FileImage /\ ListsExact(disk[m])
      /\ ~DeleteFails(disk[m], p)
      /\ Readable(disk[m]) # {p} \/ disk[m].hdr.num_free_pages = 0
  BY <1>1, <1>2 DEF SoundDisk, IsDisk, MayDispose
<1>4. p \in InUse(disk[m])
  BY <1>3 DEF DeleteFails, Readable, InUse
<1>5. /\ e[m] = Deleted(disk[m], p) /\ IsDisk(e)
      /\ \A n \in Files \ {m} : e[n] = disk[n]
  OBVIOUS
<1>6. /\ \A r \in PageIds \ {p} : e[m].page[r].data = disk[m].page[r].data
      /\ InUse(e[m]) = InUse(disk[m]) \ {p}
  <2>1. /\ \A r \in PageIds \ {p} : Deleted(disk[m], p).page[r].data = disk[m].page[r].data
        /\ InUse(Deleted(disk[m], p)) = InUse(disk[m]) \ {p}
    <3> HIDE DEF m
    <3> QED
      BY <1>3, DeletedParts
  <2> QED
    BY <1>5, <2>1
<1>7. SoundDisk(e)
  <2>1. ListsExact(e[m])
    BY <1>3, <1>5, DeletedLists
  <2> QED
    BY <1>1, <1>2, <1>5, <2>1 DEF SoundDisk
<1>0. /\ \A f \in Frames : ~Holds(t, f, m, p)
      /\ \A f \in Frames : bufDescTable[f].valid /\ ~t[f].valid => Holds(bufDescTable, f, m, p)
  OBVIOUS
<1> HIDE DEF m
<1>8. ASSUME NEW f \in Frames, t[f].valid
      PROVE  /\ t[f].pageNo \in InUse(e[FileOf[t[f].file]])
             /\ Same(bufDescTable, bufPool, disk, f) => Same(t, bufPool, e, f)
  <2> DEFINE n == FileOf[bufDescTable[f].file]
             r == bufDescTable[f].pageNo
  <2>1. /\ bufDescTable[f].valid
        /\ t[f].file = bufDescTable[f].file /\ t[f].pageNo = r
    BY <1>8 DEF Keeps
  <2>2. n \in Files /\ r \in PageIds /\ r \in InUse(disk[n])
    BY <1>1, <2>1, FramePage DEF CacheInv, SoundCache, Stored
  <2>3. ~(n = m /\ r = p)
    BY <1>0, <1>8, <2>1 DEF Holds
  <2>4. r \in InUse(e[n]) /\ e[n].page[r].data = disk[n].page[r].data
    <3> HIDE DEF n, r
    <3> QED
      BY <1>5, <1>6, <2>2, <2>3
  <2> QED
    BY <2>1, <2>4 DEF Same
<1>9. Stored(t, e) /\ CleanSame(t, bufPool, e, session)
  BY <1>8 DEF CacheInv, SoundCache, Stored, CleanSame, Keeps
<1>10. ASSUME NEW n \in Files, NEW r \in PageIds
       PROVE  Value(t, bufPool, e, n, r)
                 = IF n = m /\ r = p THEN NoData
                   ELSE Value(bufDescTable, bufPool, disk, n, r)
  <2>1. CASE n = m /\ r = p
    BY <1>6, <2>1 DEF Value
  <2>2. CASE ~(n = m /\ r = p)
    <3>1. /\ r \in InUse(e[n]) <=> r \in InUse(disk[n])
          /\ e[n].page[r].data = disk[n].page[r].data
      BY <1>5, <1>6, <2>2
    <3>2. \A f \in Frames : Holds(t, f, n, r) <=> Holds(bufDescTable, f, n, r)
      BY <1>0, <2>2 DEF Keeps, Holds
    <3>3. Value(t, bufPool, e, n, r) = Value(bufDescTable, bufPool, disk, n, r)
      BY <3>1, <3>2, SameValue
    <3> QED
      BY <2>2, <3>3
  <2> QED
    BY <2>1, <2>2
<1> QED
  BY <1>2, <1>4, <1>7, <1>9, <1>10 DEF m

\* A page that is loaded from the disk into the victim's frame is what clients
\* found on the disk.
LEMMA LoadedSound ==
    ASSUME OneHandle, PinInv, ~Exceeded,
           NEW e, SoundDisk(e), Stored(TableAfter, e),
           CleanSame(TableAfter, bufPool, e, session),
           NEW h \in Handles, NEW p \in InUse(e[FileOf[h]]), HashAfter[h][p] = NoFrame,
           NEW pg \in Page, pg.num = p, pg.data = e[FileOf[h]].page[p].data,
           bufDescTable' = [TableAfter EXCEPT ![victim] = Set(h, p)],
           bufPool' = [bufPool EXCEPT ![victim] = pg],
           \A c \in Clients : session[c].frame \in Frames => session'[c] = session[c]
    PROVE  /\ Stored(bufDescTable', e)
           /\ CleanSame(bufDescTable', bufPool', e, session')
           /\ \A n \in Files, r \in PageIds :
                 Value(bufDescTable', bufPool', e, n, r) = Value(TableAfter, bufPool, e, n, r)
<1> DEFINE t == TableAfter
           u == bufDescTable'
           b == bufPool'
           m == FileOf[h]
<1>1. /\ victim \in Frames
      /\ IsPool(t, HashAfter, bufPool)
      /\ t[victim] = Clear
      /\ bufPool \in [Frames -> Page]
  BY FreedPool DEF PinInv, IInv, IsPool
<1>2. /\ p \in PageIds /\ m \in Files
      /\ Set(h, p).valid /\ Set(h, p).file = h /\ Set(h, p).pageNo = p
      /\ ~Clear.valid
  BY DescType, FileOfAssumption DEF InUse
<1>3. /\ u[victim] = Set(h, p) /\ b[victim] = pg
      /\ \A f \in Frames \ {victim} : u[f] = t[f] /\ b[f] = bufPool[f]
  BY <1>1 DEF IsPool
<1>4. \A f \in Frames : ~Holds(t, f, m, p)
  BY <1>1, <1>2, NoEntryHoldsNot
<1>0. p \in InUse(e[m]) /\ pg.data = e[m].page[p].data
  OBVIOUS
<1> HIDE DEF t, u, b
<1>5. Stored(u, e)
  BY <1>0, <1>2, <1>3 DEF Stored, t
<1>6. CleanSame(u, b, e, session')
  <2> SUFFICES ASSUME NEW f \in Frames, u[f].valid, ~u[f].dirty, Unwritten(session', f)
               PROVE  Same(u, b, e, f)
    BY DEF CleanSame
  <2>1. CASE f = victim
    BY <1>0, <1>2, <1>3, <2>1 DEF Same
  <2>2. CASE f # victim
    <3>1. Unwritten(session, f)
      BY DEF Unwritten
    <3>2. Same(t, bufPool, e, f)
      BY <1>3, <2>2, <3>1 DEF CleanSame, t
    <3> QED
      BY <1>3, <2>2, <3>2 DEF Same
  <2> QED
    BY <2>1, <2>2
<1>7. ASSUME NEW n \in Files, NEW r \in PageIds
      PROVE  Value(u, b, e, n, r) = Value(t, bufPool, e, n, r)
  <2>1. CASE n = m /\ r = p
    <3>1. \A f \in Frames : Holds(u, f, m, p) <=> f = victim
      BY <1>1, <1>2, <1>3, <1>4 DEF Holds
    <3>2. {f \in Frames : Holds(u, f, m, p)} = {victim}
      BY <1>1, <3>1
    <3>3. (CHOOSE f \in {victim} : TRUE) = victim
      OBVIOUS
    <3>4. Value(u, b, e, m, p) = pg.data
      BY <1>0, <1>3, <3>2, <3>3 DEF Value
    <3> QED
      BY <1>0, <1>4, <2>1, <3>4, ValueOnDisk
  <2>2. CASE ~(n = m /\ r = p)
    <3>1. \A f \in Frames : Holds(u, f, n, r) <=> Holds(t, f, n, r)
      BY <1>1, <1>2, <1>3, <2>2 DEF Holds
    <3>2. \A f \in Frames : Holds(u, f, n, r) => b[f] = bufPool[f]
      BY <1>1, <1>2, <1>3, <3>1 DEF Holds
    <3> QED
      BY <3>1, <3>2, SameValue
  <2> QED
    BY <2>1, <2>2
<1> QED
  BY <1>5, <1>6, <1>7 DEF t, u, b

-----------------------------------------------------------------------------
(* Every call keeps the inductive invariant and changes one page at most *)

\* What clients find now under page p of file n.
Now(n, p) == Value(bufDescTable, bufPool, disk, n, p)

\* Clients find what they found before.
Unnoticed == \A n \in Files, p \in PageIds : Now(n, p)' = Now(n, p)

\* Only page q of file m has changed, to v.
Becomes(m, q, v) ==
    \A n \in Files, p \in PageIds :
        Now(n, p)' = IF n = m /\ p = q THEN v ELSE Now(n, p)

\* A call that leaves the pages in the frames and on the disk e alone is not
\* noticed, if it makes no frame clean that was not.
LEMMA SamePool ==
    ASSUME NEW e, SoundDisk(e), Stored(bufDescTable, e),
           CleanSame(bufDescTable, bufPool, e, session),
           disk' = e, bufPool' = bufPool,
           \A f \in Frames :
              /\ bufDescTable'[f].valid <=> bufDescTable[f].valid
              /\ bufDescTable'[f].file = bufDescTable[f].file
              /\ bufDescTable'[f].pageNo = bufDescTable[f].pageNo,
           \A f \in Frames :
              bufDescTable'[f].valid /\ ~bufDescTable'[f].dirty /\ Unwritten(session', f)
                 => ~bufDescTable[f].dirty /\ Unwritten(session, f)
    PROVE  /\ SoundCache'
           /\ \A n \in Files, p \in PageIds :
                 Now(n, p)' = Value(bufDescTable, bufPool, e, n, p)
<1> DEFINE t == bufDescTable'
<1>1. \A f \in Frames : /\ t[f].valid <=> bufDescTable[f].valid
                        /\ t[f].file = bufDescTable[f].file
                        /\ t[f].pageNo = bufDescTable[f].pageNo
  OBVIOUS
<1> HIDE DEF t
<1>2. Stored(t, e)
  BY <1>1 DEF Stored
<1>3. CleanSame(t, bufPool, e, session')
  BY <1>1 DEF CleanSame, Same, t
<1>4. ASSUME NEW n \in Files, NEW p \in PageIds
      PROVE  Value(t, bufPool, e, n, p) = Value(bufDescTable, bufPool, e, n, p)
  <2>1. \A f \in Frames : Holds(t, f, n, p) <=> Holds(bufDescTable, f, n, p)
    BY <1>1 DEF Holds
  <2> QED
    BY <2>1, SameValue
<1> QED
  BY <1>2, <1>3, <1>4 DEF SoundCache, Now, t

\* A call that leaves everything but pins, reference bits and the hand alone.
LEMMA PoolUntouched ==
    ASSUME CacheInv, UNCHANGED <<bufDescTable, bufPool, disk, session>>
    PROVE  SoundCache' /\ Unnoticed
<1>1. SoundCache
  BY DEF CacheInv
<1> QED
  BY <1>1, SamePool DEF SoundCache, Unnoticed, Now

\* Reading a page that is in the pool goes unnoticed.
LEMMA ReadHitUnnoticed ==
    ASSUME CacheInv, NEW h \in Handles, NEW p \in PageIds, NEW c \in Clients, ReadHit(c, h, p)
    PROVE  SoundCache' /\ Unnoticed
<1> DEFINE g == hash[h][p]
           r == [bufDescTable[g] EXCEPT !.refbit = TRUE, !.pinCnt = @ + 1]
<1>1. /\ IsPool(bufDescTable, hash, bufPool)
      /\ bufDescTable \in [Frames -> BufDesc]
      /\ session \in [Clients -> Session]
      /\ SoundCache
  BY DEF CacheInv, PinInv, IInv, IsPool, IsRest
<1>2. g \in Frames
  BY <1>1, EntryHolds DEF ReadHit
<1>3. bufDescTable' = [bufDescTable EXCEPT ![g] = r]
  BY <1>1, <1>2 DEF ReadHit
<1>4. /\ disk' = disk /\ bufPool' = bufPool /\ ~Active(c)
      /\ \A e \in Clients \ {c} : session'[e] = session[e]
  BY <1>1 DEF ReadHit, Pins
<1>5. session[c].frame \notin Frames
  BY <1>4, IdleOwnsNothing
<1>6. /\ r.valid <=> bufDescTable[g].valid
      /\ r.file = bufDescTable[g].file /\ r.pageNo = bufDescTable[g].pageNo
      /\ r.dirty <=> bufDescTable[g].dirty
  <2> HIDE DEF g
  <2> QED
    BY <1>1, <1>2 DEF BufDesc
<1> HIDE DEF g, r
<1>7. \A f \in Frames :
         /\ bufDescTable'[f].valid <=> bufDescTable[f].valid
         /\ bufDescTable'[f].file = bufDescTable[f].file
         /\ bufDescTable'[f].pageNo = bufDescTable[f].pageNo
         /\ bufDescTable'[f].dirty <=> bufDescTable[f].dirty
  BY <1>1, <1>2, <1>3, <1>6
<1>8. \A f \in Frames : Unwritten(session', f) => Unwritten(session, f)
  BY <1>4, <1>5 DEF Unwritten
<1> QED
  BY <1>1, <1>4, <1>7, <1>8, SamePool DEF SoundCache, Unnoticed, Now

\* Reading a page that is not in the pool evicts a page and loads another,
\* unnoticed.
LEMMA ReadMissUnnoticed ==
    ASSUME OneHandle, CacheInv, NEW h \in Handles, NEW p \in PageIds, NEW c \in Clients,
           ReadMiss(c, h, p)
    PROVE  SoundCache' /\ Unnoticed
<1> DEFINE e == DiskAfter(disk)
           m == FileOf[h]
           pg == e[m].page[p]
<1>1. /\ PinInv /\ SoundCache /\ IInv
      /\ IsPool(bufDescTable, hash, bufPool) /\ clockHand \in Frames
      /\ session \in [Clients -> Session]
  BY DEF CacheInv, PinInv, IInv, IsRest
<1>2. ~Exceeded
  BY DEF ReadMiss, Allocates
<1>3. /\ SoundDisk(e) /\ Stored(TableAfter, e) /\ CleanSame(TableAfter, bufPool, e, session)
      /\ \A n \in Files, q \in PageIds :
            Value(TableAfter, bufPool, e, n, q) = Now(n, q)
  BY <1>1, <1>2, VictimGivenUp DEF SoundCache, Now
<1>4. p \in InUse(e[m]) /\ pg \in Page /\ pg.num = p
  <2>1. pg \in Page /\ pg.num = p
    BY <1>3, ReadablePage DEF ReadMiss, SoundDisk
  <2> QED
    BY <2>1 DEF ReadMiss, Readable, InUse
<1>5. HashAfter[h][p] = NoFrame
  BY <1>1, <1>2, FreedPool DEF ReadMiss
<1>6. \A d \in Clients : session[d].frame \in Frames => session'[d] = session[d]
  <2>1. session[c].frame \notin Frames
    BY IdleOwnsNothing DEF ReadMiss
  <2> QED
    BY <1>1, <2>1 DEF ReadMiss, Pins
<1>7. /\ disk' = e
      /\ bufPool' = [bufPool EXCEPT ![victim] = pg]
      /\ bufDescTable' = [TableAfter EXCEPT ![victim] = Set(h, p)]
  BY DEF ReadMiss
<1> HIDE DEF pg, e
<1>8. pg.data = e[m].page[p].data
  BY DEF pg
<1>9. /\ Stored(bufDescTable', e)
      /\ CleanSame(bufDescTable', bufPool', e, session')
      /\ \A n \in Files, r \in PageIds :
            Value(bufDescTable', bufPool', e, n, r) = Value(TableAfter, bufPool, e, n, r)
  BY <1>1, <1>2, <1>3, <1>4, <1>5, <1>6, <1>7, <1>8, LoadedSound
<1> QED
  BY <1>3, <1>7, <1>9 DEF SoundCache, Unnoticed, Now

\* Reading a page that is not in the file evicts a page, unnoticed.
LEMMA ReadInvalidUnnoticed ==
    ASSUME OneHandle, CacheInv, NEW h \in Handles, NEW p \in PageIds, ReadInvalid(h, p)
    PROVE  SoundCache' /\ Unnoticed
<1>1. PinInv /\ SoundCache /\ ~Exceeded
  BY DEF CacheInv, ReadInvalid, Allocates
<1>2. /\ SoundDisk(DiskAfter(disk)) /\ Stored(TableAfter, DiskAfter(disk))
      /\ CleanSame(TableAfter, bufPool, DiskAfter(disk), session)
      /\ \A n \in Files, q \in PageIds :
            Value(TableAfter, bufPool, DiskAfter(disk), n, q) = Now(n, q)
  BY <1>1, VictimGivenUp DEF SoundCache, Now
<1>3. /\ disk' = DiskAfter(disk) /\ bufDescTable' = TableAfter
      /\ bufPool' = bufPool /\ session' = session
  BY DEF ReadInvalid
<1> QED
  BY <1>2, <1>3 DEF SoundCache, Unnoticed, Now

\* allocBuf that throws has changed no page.
LEMMA NoFrameSame ==
    ASSUME CacheInv, NEW d, AllocBufExceeded \/ AllocBufFails(d), session' = session,
           NEW e, SoundDisk(e), Stored(bufDescTable, e),
           CleanSame(bufDescTable, bufPool, e, session), disk' = e
    PROVE  /\ SoundCache'
           /\ \A n \in Files, p \in PageIds :
                 Now(n, p)' = Value(bufDescTable, bufPool, e, n, p)
<1>1. IsPool(bufDescTable, hash, bufPool) /\ clockHand \in Frames
  BY DEF CacheInv, PinInv, IInv
<1>2. PICK v \in Frames : bufDescTable' = SweptTable(v) /\ bufPool' = bufPool
  BY <1>1, VictimIsUnpinned DEF AllocBufExceeded, AllocBufFails
<1>3. \A f \in Frames :
         /\ bufDescTable'[f].valid <=> bufDescTable[f].valid
         /\ bufDescTable'[f].file = bufDescTable[f].file
         /\ bufDescTable'[f].pageNo = bufDescTable[f].pageNo
         /\ bufDescTable'[f].dirty <=> bufDescTable[f].dirty
  BY <1>1, <1>2, SweptPool
<1> QED
  BY <1>2, <1>3, SamePool

\* A read that finds no frame goes unnoticed.
LEMMA ReadNoFrameUnnoticed ==
    ASSUME CacheInv, NEW h \in Handles, NEW p \in PageIds, ReadNoFrame(h, p)
    PROVE  SoundCache' /\ Unnoticed
<1>1. SoundCache /\ session' = session /\ disk' = disk
  BY DEF CacheInv, ReadNoFrame
<1> QED
  BY <1>1, NoFrameSame DEF ReadNoFrame, SoundCache, Unnoticed, Now

\* allocPage gives an empty page, and evicts a page unnoticed.
LEMMA AllocPageEmpty ==
    ASSUME OneHandle, CacheInv, NEW h \in Handles, NEW c \in Clients, AllocPage(c, h)
    PROVE  SoundCache' /\ Becomes(FileOf[h], NewNumber(h), EmptyData)
<1> DEFINE g == GrownDisk(h)
           e == DiskAfter(g)
           m == FileOf[h]
           q == NewNumber(h)
           pg == NewPage(disk[m])
<1>1. /\ PinInv /\ IInv /\ ~Exceeded /\ CanAllocate(h)
      /\ IsPool(bufDescTable, hash, bufPool) /\ clockHand \in Frames
      /\ session \in [Clients -> Session] /\ IsDisk(disk)
  BY DEF CacheInv, PinInv, IInv, IsRest, AllocPage, Allocates
<1>2. /\ m \in Files /\ q \in PageIds /\ pg.data = EmptyData
      /\ SoundDisk(g) /\ Stored(bufDescTable, g)
      /\ CleanSame(bufDescTable, bufPool, g, session)
      /\ \A n \in Files, p \in PageIds :
            Value(bufDescTable, bufPool, g, n, p)
                = IF n = m /\ p = q THEN EmptyData ELSE Now(n, p)
  BY <1>1, GrownDiskSound DEF Now
<1>3. pg \in Page /\ pg.num = q
  BY <1>1, GrownDiskType
<1>4. /\ disk' = e
      /\ bufPool' = [bufPool EXCEPT ![victim] = pg]
      /\ bufDescTable' = [TableAfter EXCEPT ![victim] = Set(h, q)]
      /\ HashAfter[h][q] = NoFrame
  BY DEF AllocPage
<1>5. \A d \in Clients : session[d].frame \in Frames => session'[d] = session[d]
  <2>1. session[c].frame \notin Frames
    BY IdleOwnsNothing DEF AllocPage
  <2> QED
    BY <1>1, <2>1 DEF AllocPage, Pins
<1>6. IsPool(TableAfter, HashAfter, bufPool)
  BY <1>1, FreedPool
<1> HIDE DEF g, pg, q
<1>7. /\ SoundDisk(e) /\ Stored(TableAfter, e) /\ CleanSame(TableAfter, bufPool, e, session)
      /\ \A n \in Files, p \in PageIds :
            Value(TableAfter, bufPool, e, n, p) = Value(bufDescTable, bufPool, g, n, p)
  BY <1>1, <1>2, VictimGivenUp
<1> HIDE DEF e
<1>8. q \in InUse(e[m]) /\ e[m].page[q].data = EmptyData
  <2>1. Value(TableAfter, bufPool, e, m, q) = EmptyData
    BY <1>2, <1>7
  <2>2. Value(TableAfter, bufPool, e, m, q)
           = IF q \in InUse(e[m]) THEN e[m].page[q].data ELSE NoData
    <3>1. \A f \in Frames : ~Holds(TableAfter, f, m, q)
      BY <1>2, <1>4, <1>6, NoEntryHoldsNot
    <3> QED
      BY <3>1, ValueOnDisk
  <2>3. EmptyData # NoData
    BY EmptyDataAssumption, NoPageDataAssumption
  <2> QED
    BY <2>1, <2>2, <2>3
<1>9. /\ Stored(bufDescTable', e)
      /\ CleanSame(bufDescTable', bufPool', e, session')
      /\ \A n \in Files, r \in PageIds :
            Value(bufDescTable', bufPool', e, n, r) = Value(TableAfter, bufPool, e, n, r)
  BY <1>1, <1>2, <1>3, <1>4, <1>5, <1>7, <1>8, LoadedSound
<1> QED
  BY <1>2, <1>4, <1>7, <1>9 DEF SoundCache, Becomes, Now, q

\* The hash table has no entry for a new page.
LEMMA NewPageHasNoEntry ==
    ASSUME CacheInv, NEW h \in Handles
    PROVE  ~AllocPagePresent(h)
<1> SUFFICES ASSUME AllocPagePresent(h) PROVE FALSE
  OBVIOUS
<1> DEFINE q == NewNumber(h)
<1>1. /\ ~Exceeded /\ CanAllocate(h) /\ HashAfter[h][q] # NoFrame
      /\ IsPool(bufDescTable, hash, bufPool) /\ clockHand \in Frames
  BY DEF AllocPagePresent, Allocates, CacheInv, PinInv, IInv
<1>2. q \in PageIds /\ q \notin InUse(disk[FileOf[h]])
  BY <1>1, GrownDiskSound
<1>3. hash[h][q] # NoFrame
  BY <1>1, <1>2, FreedPool
<1>4. hash[h][q] \in Frames /\ Holds(bufDescTable, hash[h][q], FileOf[h], q)
  BY <1>1, <1>2, <1>3, EntryHolds
<1>5. q \in InUse(disk[FileOf[h]])
  BY <1>4 DEF CacheInv, SoundCache, Stored, Holds
<1> QED
  BY <1>2, <1>5

\* allocPage that finds no frame has added an empty page to the file.
LEMMA AllocPageNoFrameEmpty ==
    ASSUME CacheInv, NEW h \in Handles, AllocPageNoFrame(h)
    PROVE  SoundCache' /\ Becomes(FileOf[h], NewNumber(h), EmptyData)
<1> DEFINE e == GrownDisk(h)
<1>1. /\ CanAllocate(h) /\ disk' = e /\ session' = session
      /\ AllocBufExceeded \/ AllocBufFails(e)
  BY DEF AllocPageNoFrame
<1>2. /\ SoundDisk(e) /\ Stored(bufDescTable, e)
      /\ CleanSame(bufDescTable, bufPool, e, session)
      /\ \A n \in Files, p \in PageIds :
            Value(bufDescTable, bufPool, e, n, p)
                = IF n = FileOf[h] /\ p = NewNumber(h) THEN EmptyData ELSE Now(n, p)
  BY <1>1, GrownDiskSound DEF Now
<1> HIDE DEF e
<1>3. /\ SoundCache'
      /\ \A n \in Files, p \in PageIds :
            Now(n, p)' = Value(bufDescTable, bufPool, e, n, p)
  BY <1>1, <1>2, NoFrameSame
<1> QED
  BY <1>2, <1>3 DEF Becomes

\* A client that writes through its pointer changes the page it has pinned.
LEMMA WritePinnedWrites ==
    ASSUME OneHandle, CacheInv, NEW c \in Clients, NEW d \in Data, WritePinned(c, d)
    PROVE  /\ SoundCache'
           /\ FileOf[session[c].file] \in Files /\ session[c].page \in PageIds
           /\ session[c].page \in InUse(disk[FileOf[session[c].file]])
           /\ Becomes(FileOf[session[c].file], session[c].page, d)
<1> DEFINE g == session[c].frame
           m == FileOf[session[c].file]
           q == session[c].page
<1>1. /\ PinInv /\ SoundCache /\ IsPool(bufDescTable, hash, bufPool)
      /\ session \in [Clients -> Session] /\ bufPool \in [Frames -> Page]
  BY DEF CacheInv, PinInv, IInv, IsPool, IsRest
<1>2. g \in Frames /\ bufDescTable[g].valid
  BY <1>1, PinnedSession DEF WritePinned
<1>3. bufDescTable[g].file = session[c].file /\ bufDescTable[g].pageNo = q
  BY <1>1 DEF PinInv, PinnedPageStays, WritePinned
<1>4. /\ m \in Files /\ q \in PageIds /\ Holds(bufDescTable, g, m, q)
      /\ q \in InUse(disk[m])
  <2>1. /\ FileOf[bufDescTable[g].file] \in Files /\ bufDescTable[g].pageNo \in PageIds
        /\ Holds(bufDescTable, g, FileOf[bufDescTable[g].file], bufDescTable[g].pageNo)
    <3> HIDE DEF g
    <3> QED
      BY <1>1, <1>2, FramePage
  <2> QED
    BY <1>1, <1>2, <1>3, <2>1 DEF SoundCache, Stored
<1>5. /\ bufPool'[g].data = d
      /\ \A f \in Frames \ {g} : bufPool'[f] = bufPool[f]
  BY <1>1, <1>2 DEF WritePinned, Page
<1>6. /\ session'[c].frame = g /\ session'[c].wrote
      /\ \A e \in Clients \ {c} : session'[e] = session[e]
      /\ bufDescTable' = bufDescTable /\ disk' = disk
  BY <1>1 DEF WritePinned, Session
<1> DEFINE b == bufPool'
           s == session'
<1> HIDE DEF g, m, q, b, s
<1>7. CleanSame(bufDescTable, b, disk, s)
  <2> SUFFICES ASSUME NEW f \in Frames, bufDescTable[f].valid, ~bufDescTable[f].dirty,
                      Unwritten(s, f)
               PROVE  Same(bufDescTable, b, disk, f)
    BY DEF CleanSame
  <2>1. f # g
    BY <1>6 DEF Unwritten, s
  <2>2. Unwritten(session, f)
    BY <1>6, <2>1 DEF Unwritten, s, g
  <2>3. Same(bufDescTable, bufPool, disk, f)
    BY <1>1, <2>2 DEF SoundCache, CleanSame
  <2> QED
    BY <1>5, <2>1, <2>3 DEF Same, b
<1>8. ASSUME NEW n \in Files, NEW p \in PageIds
      PROVE  Value(bufDescTable, b, disk, n, p)
                = IF n = m /\ p = q THEN d ELSE Now(n, p)
  <2>1. CASE n = m /\ p = q
    <3>1. IsPool(bufDescTable, hash, b)
      <4>1. IInv'
        BY InvNext DEF Next, CacheInv, PinInv
      <4> QED
        BY <1>6, <4>1 DEF IInv, WritePinned, b
    <3>2. Value(bufDescTable, b, disk, m, q) = b[g].data
      BY <1>2, <1>4, <3>1, ValueInFrame
    <3> QED
      BY <1>5, <2>1, <3>2 DEF b
  <2>2. CASE ~(n = m /\ p = q)
    <3>1. \A f \in Frames : Holds(bufDescTable, f, n, p) => b[f] = bufPool[f]
      <4>1. ~Holds(bufDescTable, g, n, p)
        BY <1>4, <2>2 DEF Holds
      <4> QED
        BY <1>5, <4>1 DEF b
    <3>2. Value(bufDescTable, b, disk, n, p) = Value(bufDescTable, bufPool, disk, n, p)
      BY <3>1, SameValue
    <3> QED
      BY <2>2, <3>2 DEF Now
  <2> QED
    BY <2>1, <2>2
<1> QED
  BY <1>1, <1>4, <1>6, <1>7, <1>8 DEF SoundCache, Becomes, Now, b, s, m, q

\* Unpinning a page goes unnoticed: a client that wrote says so.
LEMMA UnPinUnnoticed ==
    ASSUME CacheInv, NEW c \in Clients, NEW dirty \in BOOLEAN, UnPin(c, dirty)
    PROVE  SoundCache' /\ Unnoticed
<1> DEFINE g == session[c].frame
           r == [bufDescTable[g] EXCEPT !.pinCnt = @ - 1, !.dirty = @ \/ dirty]
<1>1. /\ PinInv /\ SoundCache /\ IsPool(bufDescTable, hash, bufPool)
      /\ bufDescTable \in [Frames -> BufDesc] /\ session \in [Clients -> Session]
  BY DEF CacheInv, PinInv, IInv, IsPool, IsRest
<1>2. g \in Frames /\ PinnedFrame(c) = g
  BY <1>1, PinnedSession DEF UnPin
<1>3. /\ bufDescTable' = [bufDescTable EXCEPT ![g] = r]
      /\ bufPool' = bufPool /\ disk' = disk
      /\ session[c].wrote => dirty
      /\ session'[c] = Idle
      /\ \A e \in Clients \ {c} : session'[e] = session[e]
  BY <1>1, <1>2 DEF UnPin
<1>4. /\ r.valid <=> bufDescTable[g].valid
      /\ r.file = bufDescTable[g].file /\ r.pageNo = bufDescTable[g].pageNo
      /\ r.dirty <=> (bufDescTable[g].dirty \/ dirty)
  <2> HIDE DEF g
  <2>1. bufDescTable[g] \in BufDesc
    BY <1>1, <1>2
  <2>2. (bufDescTable[g].dirty \/ dirty) \in BOOLEAN
    OBVIOUS
  <2> QED
    BY <2>1, <2>2 DEF BufDesc
<1> HIDE DEF r
<1>5. ASSUME NEW f \in Frames
      PROVE  /\ bufDescTable'[f].valid <=> bufDescTable[f].valid
             /\ bufDescTable'[f].file = bufDescTable[f].file
             /\ bufDescTable'[f].pageNo = bufDescTable[f].pageNo
             /\ bufDescTable'[f].dirty <=> bufDescTable[f].dirty \/ (f = g /\ dirty)
  <2> HIDE DEF g
  <2>1. CASE f = g
    BY <1>1, <1>2, <1>3, <1>4, <2>1
  <2>2. CASE f # g
    BY <1>1, <1>2, <1>3, <2>2
  <2> QED
    BY <2>1, <2>2
<1>6. ASSUME NEW f \in Frames, ~bufDescTable'[f].dirty, Unwritten(session', f)
      PROVE  ~bufDescTable[f].dirty /\ Unwritten(session, f)
  <2>1. ~bufDescTable[f].dirty /\ ~(f = g /\ dirty)
    BY <1>5, <1>6
  <2>2. ASSUME NEW e \in Clients, session[e].frame = f PROVE ~session[e].wrote
    <3>1. CASE e = c
      BY <1>3, <2>1, <2>2, <3>1
    <3>2. CASE e # c
      BY <1>3, <1>6, <2>2, <3>2 DEF Unwritten
    <3> QED
      BY <3>1, <3>2
  <2> QED
    BY <2>1, <2>2 DEF Unwritten
<1> QED
  BY <1>1, <1>3, <1>5, <1>6, SamePool DEF SoundCache, Unnoticed, Now

\* A flush goes unnoticed: it has written the dirty pages, and the clean ones
\* are on the disk.
LEMMA FlushUnnoticed ==
    ASSUME OneHandle, CacheInv, NEW h \in Handles, FlushFile(h)
    PROVE  SoundCache' /\ Unnoticed
<1> DEFINE S == Flushed(h)
           D == {f \in S : bufDescTable[f].dirty}
           e == WrittenBack(disk, D)
           t == [f \in Frames |-> IF f \in S THEN Clear ELSE bufDescTable[f]]
<1>1. /\ PinInv /\ SoundCache /\ IsPool(bufDescTable, hash, bufPool)
      /\ bufDescTable \in [Frames -> BufDesc] /\ IsDisk(disk)
  BY DEF CacheInv, PinInv, IInv, IsPool
<1>2. ASSUME NEW f \in S
      PROVE  f \in Frames /\ bufDescTable[f].valid /\ bufDescTable[f].pinCnt = 0
  <2>1. f \in Frames /\ f \in FramesOf(h) /\ (StopsFlush(f) => f < f)
    BY DEF Flushed, FramesOf
  <2>2. ~(f < f)
    BY <2>1, NumBufsAssumption DEF Frames
  <2>3. bufDescTable[f].pinCnt \in Nat
    BY <1>1, <2>1 DEF BufDesc
  <2> QED
    BY <2>1, <2>2, <2>3 DEF StopsFlush
<1>3. D \in SUBSET Frames /\ \A f \in D : bufDescTable[f].valid
  BY <1>2
<1>4. disk' = e /\ bufDescTable' = t /\ bufPool' = bufPool /\ session' = session
  BY DEF FlushFile
<1> HIDE DEF S
<1>5. /\ \A f \in S \cap Frames : t[f] = Clear
      /\ \A f \in Frames \ S : t[f] = bufDescTable[f]
  OBVIOUS
<1>6. D \subseteq S /\ \A f \in S \ D : ~bufDescTable[f].dirty
  OBVIOUS
<1> HIDE DEF D
<1>7. Rewritten(disk, e, D)
  BY <1>1, <1>3, WrittenBackWrites DEF SoundCache
<1> HIDE DEF e, t
<1>8. Keeps(t)
  BY <1>2, <1>5, DescType DEF Keeps
<1>9. ASSUME NEW f \in Frames, bufDescTable[f].valid, ~t[f].valid
      PROVE  f \in D \/ Same(bufDescTable, bufPool, disk, f)
  <2>1. f \in S
    BY <1>5, <1>9
  <2>2. Owners(f) = {}
    BY <1>1, <1>2, <2>1, UnpinnedHasNoOwner DEF PinInv
  <2>3. Unwritten(session, f)
    BY <2>2 DEF Owners, Unwritten
  <2> QED
    BY <1>1, <1>6, <1>9, <2>1, <2>3 DEF SoundCache, CleanSame
<1>10. /\ SoundDisk(e) /\ Stored(t, e) /\ CleanSame(t, bufPool, e, session)
       /\ \A n \in Files, p \in PageIds :
             Value(t, bufPool, e, n, p) = Value(bufDescTable, bufPool, disk, n, p)
  <2>1. /\ SoundDisk(disk) /\ Stored(bufDescTable, disk)
        /\ CleanSame(bufDescTable, bufPool, disk, session)
        /\ \A f \in Frames : bufDescTable[f].valid /\ ~t[f].valid =>
               f \in D \/ Same(bufDescTable, bufPool, disk, f)
    BY <1>1, <1>9 DEF SoundCache
  <2> QED
    BY <1>1, <1>3, <1>7, <1>8, <2>1, GivenUp
<1> QED
  BY <1>4, <1>10 DEF SoundCache, Unnoticed, Now

\* disposePage takes the page away, from its frame and from its file.
LEMMA DisposeReleases ==
    ASSUME OneHandle, CacheInv, NEW h \in Handles, NEW p \in PageIds,
           DisposeBuffered(h, p) \/ DisposeUnbuffered(h, p)
    PROVE  /\ SoundCache'
           /\ p \in InUse(disk[FileOf[h]])
           /\ Becomes(FileOf[h], p, NoData)
<1> DEFINE m == FileOf[h]
           g == hash[h][p]
           e == [disk EXCEPT ![m] = Deleted(@, p)]
           t == bufDescTable'
<1>1. /\ IsPool(bufDescTable, hash, bufPool) /\ IsDisk(disk) /\ SoundCache
      /\ bufDescTable \in [Frames -> BufDesc]
      /\ m \in Files /\ MayDispose(h, p)
  BY FileOfAssumption
  DEF CacheInv, PinInv, IInv, IsPool, DisposeBuffered, DisposeUnbuffered
<1>2. ~DeleteFails(disk[m], p)
  <2>1. CASE DisposeBuffered(h, p)
    <3>1. g \in Frames /\ Holds(bufDescTable, g, m, p)
      BY <1>1, <2>1, EntryHolds DEF DisposeBuffered
    <3>2. p \in InUse(disk[m])
      BY <1>1, <3>1 DEF SoundCache, Stored, Holds
    <3>3. disk[m] \in FileImage /\ ListsExact(disk[m])
      BY <1>1 DEF SoundCache, SoundDisk, IsDisk
    <3> QED
      BY <3>2, <3>3, DeleteSucceeds
  <2>2. CASE DisposeUnbuffered(h, p)
    BY <2>2 DEF DisposeUnbuffered
  <2> QED
    BY <2>1, <2>2
<1>3. disk' = e /\ bufPool' = bufPool /\ session' = session
  BY <1>2 DEF DisposeBuffered, DisposeUnbuffered, pool
<1>4. IsDisk(e)
  BY <1>1, <1>2, ShrunkDiskType
<1>5. e[m] = Deleted(disk[m], p) /\ \A n \in Files \ {m} : e[n] = disk[n]
  BY <1>1 DEF IsDisk
<1>6. /\ Keeps(t)
      /\ \A f \in Frames : ~Holds(t, f, m, p)
      /\ \A f \in Frames : bufDescTable[f].valid /\ ~t[f].valid
                           => Holds(bufDescTable, f, m, p)
  <2>1. CASE DisposeBuffered(h, p)
    <3>1. g \in Frames /\ Holds(bufDescTable, g, m, p)
      BY <1>1, <2>1, EntryHolds DEF DisposeBuffered
    <3>2. t = [bufDescTable EXCEPT ![g] = Clear]
      BY <2>1 DEF DisposeBuffered
    <3> HIDE DEF g, t, m
    <3>3. t[g] = Clear /\ \A f \in Frames \ {g} : t[f] = bufDescTable[f]
      BY <1>1, <3>1, <3>2
    <3>4. Keeps(t)
      BY <3>3, DescType DEF Keeps
    <3>5. \A f \in Frames : ~Holds(t, f, m, p)
      <4>1. \A f \in Frames \ {g} : ~Holds(bufDescTable, f, m, p)
        BY <1>1, <3>1, OneFrame
      <4> QED
        BY <3>3, <4>1, DescType DEF Holds
    <3> QED
      BY <3>1, <3>3, <3>4, <3>5
  <2>2. CASE DisposeUnbuffered(h, p)
    <3>1. t = bufDescTable
      BY <2>2 DEF DisposeUnbuffered, pool
    <3>2. \A f \in Frames : ~Holds(bufDescTable, f, m, p)
      BY <1>1, <2>2, NoEntryHoldsNot DEF DisposeUnbuffered
    <3> QED
      BY <3>1, <3>2 DEF Keeps
  <2> QED
    BY <2>1, <2>2
<1> HIDE DEF t, e
<1>7. /\ p \in InUse(disk[m])
      /\ SoundDisk(e) /\ Stored(t, e) /\ CleanSame(t, bufPool, e, session)
      /\ \A n \in Files, r \in PageIds :
            Value(t, bufPool, e, n, r) = IF n = m /\ r = p THEN NoData ELSE Now(n, r)
  BY <1>1, <1>2, <1>4, <1>5, <1>6, ShrunkDiskSound DEF Now
<1> QED
  BY <1>3, <1>7 DEF SoundCache, Becomes, Now, t

\* A new buffer manager over the files goes unnoticed, when nobody is in the
\* middle of writing through its pointer.
LEMMA RestartUnnoticed ==
    ASSUME OneHandle, CacheInv, \A c \in Clients : ~session[c].wrote, Restart
    PROVE  SoundCache' /\ Unnoticed
<1> DEFINE e == WrittenBack(disk, Saved)
           t == [f \in Frames |-> Clear]
<1>1. /\ SoundCache /\ IsPool(bufDescTable, hash, bufPool) /\ IsDisk(disk)
  BY DEF CacheInv, PinInv, IInv
<1>2. Saved = DirtyFrames /\ Saved \in SUBSET Frames /\ \A f \in Saved : bufDescTable[f].valid
  <2>1. ASSUME NEW f \in DirtyFrames PROVE ~WriteBackThrows(disk, f)
    <3>1. f \in Frames /\ bufDescTable[f].valid
      BY DEF DirtyFrames
    <3>2. bufPool[f].num \in InUse(disk[FileIn(f)])
      BY <1>1, <3>1, FramePage DEF SoundCache, Stored, FileIn
    <3> QED
      BY <3>2 DEF WriteBackThrows, WriteThrows, InUse
  <2> QED
    BY <2>1 DEF Saved, DirtyFrames
<1>3. /\ disk' = e /\ bufDescTable' = t
      /\ \A c \in Clients : session'[c] = Idle
  BY DEF Restart
<1>4. Rewritten(disk, e, Saved)
  BY <1>1, <1>2, WrittenBackWrites DEF SoundCache
<1>5. \A f \in Frames : ~t[f].valid
  BY DescType
<1> HIDE DEF e, t
<1>6. Keeps(t)
  BY <1>5 DEF Keeps
<1>7. ASSUME NEW f \in Frames, bufDescTable[f].valid
      PROVE  f \in Saved \/ Same(bufDescTable, bufPool, disk, f)
  <2>1. Unwritten(session, f)
    BY DEF Unwritten
  <2> QED
    BY <1>1, <1>2, <1>7, <2>1 DEF SoundCache, CleanSame, DirtyFrames
<1>8. /\ SoundDisk(e) /\ Stored(t, e)
      /\ \A n \in Files, p \in PageIds :
            Value(t, bufPool, e, n, p) = Value(bufDescTable, bufPool, disk, n, p)
  <2>1. /\ SoundDisk(disk) /\ Stored(bufDescTable, disk)
        /\ CleanSame(bufDescTable, bufPool, disk, session)
        /\ \A f \in Frames : bufDescTable[f].valid /\ ~t[f].valid =>
               f \in Saved \/ Same(bufDescTable, bufPool, disk, f)
    BY <1>1, <1>7 DEF SoundCache
  <2> QED
    BY <1>1, <1>2, <1>4, <1>6, <2>1, GivenUp
<1>9. ASSUME NEW n \in Files, NEW p \in PageIds
      PROVE  Value(t, bufPool', e, n, p) = Value(t, bufPool, e, n, p)
  <2>1. \A f \in Frames : ~Holds(t, f, n, p)
    BY <1>5 DEF Holds
  <2> QED
    BY <2>1, SameValue
<1>10. CleanSame(t, bufPool', e, session')
  BY <1>5 DEF CleanSame
<1> QED
  BY <1>3, <1>8, <1>9, <1>10 DEF SoundCache, Unnoticed, Now

-----------------------------------------------------------------------------
(* The invariant *)

\* Disciplined clients write nothing any more when the manager is destroyed.
LEMMA NobodyWrites ==
    ASSUME Disciplined, Restart
    PROVE  \A c \in Clients : ~session[c].wrote
  BY IdleType DEF Restart, Active

\* Every step keeps the cache sound.
LEMMA SoundNext ==
    ASSUME Disciplined, OneHandle, CacheInv, [Next]_vars
    PROVE  SoundCache'
<1>1. CASE UNCHANGED vars
  BY <1>1, PoolUntouched DEF vars, pool
<1>2. ASSUME NEW h \in Handles, NEW p \in PageIds, NEW c \in Clients,
             ReadHit(c, h, p) \/ ReadMiss(c, h, p)
      PROVE  SoundCache'
  BY <1>2, ReadHitUnnoticed, ReadMissUnnoticed
<1>3. ASSUME NEW h \in Handles, NEW p \in PageIds,
             ReadInvalid(h, p) \/ ReadNoFrame(h, p)
      PROVE  SoundCache'
  BY <1>3, ReadInvalidUnnoticed, ReadNoFrameUnnoticed
<1>4. ASSUME NEW h \in Handles, NEW p \in PageIds,
             DisposeBuffered(h, p) \/ DisposeUnbuffered(h, p)
      PROVE  SoundCache'
  BY <1>4, DisposeReleases
<1>5. ASSUME NEW h \in Handles, NEW c \in Clients, AllocPage(c, h)
      PROVE  SoundCache'
  BY <1>5, AllocPageEmpty
<1>6. ASSUME NEW h \in Handles, AllocPagePresent(h) \/ AllocPageNoFrame(h) \/ FlushFile(h)
      PROVE  SoundCache'
  BY <1>6, NewPageHasNoEntry, AllocPageNoFrameEmpty, FlushUnnoticed
<1>7. ASSUME NEW c \in Clients, NEW d \in Data, WritePinned(c, d)
      PROVE  SoundCache'
  BY <1>7, WritePinnedWrites
<1>8. ASSUME NEW c \in Clients, NEW dirty \in BOOLEAN, UnPin(c, dirty)
      PROVE  SoundCache'
  BY <1>8, UnPinUnnoticed
<1>9. ASSUME NEW c \in Clients, UnPinLost(c)
      PROVE  SoundCache'
  BY <1>9, PinnedSession DEF UnPinLost, CacheInv
<1>10. CASE Restart
  BY <1>10, NobodyWrites, RestartUnnoticed
<1> QED
  BY <1>1, <1>2, <1>3, <1>4, <1>5, <1>6, <1>7, <1>8, <1>9, <1>10 DEF Next

\* Every step keeps the inductive invariant.
LEMMA CacheNext ==
    ASSUME Disciplined, OneHandle, CacheInv, [Next]_vars
    PROVE  CacheInv'
<1>1. PinInv'
  BY PinNext DEF CacheInv
<1> QED
  BY <1>1, SoundNext DEF CacheInv

\* An empty pool over new files is sound.
LEMMA CacheInit == Init => CacheInv
<1> SUFFICES ASSUME Init PROVE CacheInv
  OBVIOUS
<1>1. PinInv /\ IsDisk(disk)
  BY PinInit, InvInit DEF IInv
<1>2. SoundDisk(disk)
  BY <1>1, NewFileLists DEF Init, SoundDisk
<1>3. \A f \in Frames : ~bufDescTable[f].valid
  BY DescType DEF Init
<1> QED
  BY <1>1, <1>2, <1>3 DEF CacheInv, SoundCache, Stored, CleanSame

\* When each file is read through one File object and clients dispose of no
\* pinned page, a clean frame that nobody is writing has what the disk has:
\* allocBuf, flushFile and ~BufMgr lose nothing by not writing it, after every
\* sequence of calls, failing ones included.
THEOREM CleanFramesMatch ==
    ASSUME Disciplined, OneHandle
    PROVE  Spec => []CleanMatchesDisk
<1>1. CacheInv /\ [Next]_vars => CacheInv'
  BY CacheNext
<1>2. Spec => []CacheInv
  BY <1>1, CacheInit, PTL DEF Spec
<1> QED
  BY <1>2, CacheInvImplies, PTL

-----------------------------------------------------------------------------
(* Clients see a store of pages *)

\* What clients find is the value by the state of the buffer manager.
LEMMA FoundIsNow ==
    ASSUME OneHandle, CacheInv
    PROVE  Found = [k \in Files \X PageIds |-> Now(k[1], k[2])]
<1>1. ASSUME NEW n \in Files, NEW p \in PageIds PROVE Content(n, p) = Now(n, p)
  <2> DEFINE cached == {h \in Handles : FileOf[h] = n /\ hash[h][p] # NoFrame}
  <2>1. cached = {h \in Handles : FileOf[h] = n /\ hash[h][p] # NoFrame}
    OBVIOUS
  <2>2. Content(n, p) =
          IF disk[n].page[p].num = NoPage THEN NoData
          ELSE IF cached = {} THEN disk[n].page[p].data
          ELSE bufPool[hash[CHOOSE h \in cached : TRUE][p]].data
    BY DEF Content
  <2> HIDE DEF cached
  <2>3. IsPool(bufDescTable, hash, bufPool)
    BY DEF CacheInv, PinInv, IInv
  <2>4. Value(bufDescTable, bufPool, disk, n, p) =
          IF disk[n].page[p].num = NoPage THEN NoData
          ELSE IF cached = {} THEN disk[n].page[p].data
          ELSE bufPool[hash[CHOOSE h \in cached : TRUE][p]].data
    BY <2>1, <2>3, ContentIsValue
  <2> QED
    BY <2>2, <2>4 DEF Now
<1> QED
  BY <1>1 DEF Found

\* The same, after a step.
LEMMA FoundIsNowNext ==
    ASSUME OneHandle, CacheInv'
    PROVE  Found' = [k \in Files \X PageIds |-> Now(k[1], k[2])']
<1>1. ASSUME NEW n \in Files, NEW p \in PageIds PROVE Content(n, p)' = Now(n, p)'
  <2>1. IsPool(bufDescTable', hash', bufPool')
    BY DEF CacheInv, PinInv, IInv
  <2> DEFINE cached == {h \in Handles : FileOf[h] = n /\ hash'[h][p] # NoFrame}
  <2>2. cached = {h \in Handles : FileOf[h] = n /\ hash'[h][p] # NoFrame}
    OBVIOUS
  <2>3. Content(n, p)' =
          IF disk'[n].page[p].num = NoPage THEN NoData
          ELSE IF cached = {} THEN disk'[n].page[p].data
          ELSE bufPool'[hash'[CHOOSE h \in cached : TRUE][p]].data
    BY DEF Content
  <2> HIDE DEF cached
  <2>4. Value(bufDescTable', bufPool', disk', n, p) =
          IF disk'[n].page[p].num = NoPage THEN NoData
          ELSE IF cached = {} THEN disk'[n].page[p].data
          ELSE bufPool'[hash'[CHOOSE h \in cached : TRUE][p]].data
    BY <2>1, <2>2, ContentIsValue
  <2> QED
    BY <2>3, <2>4 DEF Now
<1> QED
  BY <1>1 DEF Found

\* A page has a content exactly when it is in use.
LEMMA ValueIsContent ==
    ASSUME OneHandle, NEW t, NEW k, NEW b, IsPool(t, k, b), NEW d, IsDisk(d),
           NEW n \in Files, NEW p \in PageIds
    PROVE  Value(t, b, d, n, p) # NoData <=> p \in InUse(d[n])
<1>1. p \in InUse(d[n]) => Value(t, b, d, n, p) \in Data
  <2>1. CASE \A f \in Frames : ~Holds(t, f, n, p)
    <3>1. d[n].page[p].data \in Data
      BY FileParts DEF IsDisk
    <3>2. p \in InUse(d[n]) => Value(t, b, d, n, p) = d[n].page[p].data
      BY <2>1, ValueOnDisk
    <3> QED
      BY <3>1, <3>2
  <2>2. ASSUME NEW f \in Frames, Holds(t, f, n, p)
        PROVE  p \in InUse(d[n]) => Value(t, b, d, n, p) \in Data
    <3>1. b[f].data \in Data
      BY DEF IsPool, Page
    <3>2. p \in InUse(d[n]) => Value(t, b, d, n, p) = b[f].data
      BY <2>2, ValueInFrame
    <3> QED
      BY <3>1, <3>2
  <2> QED
    BY <2>1, <2>2
<1>2. p \notin InUse(d[n]) => Value(t, b, d, n, p) = NoData
  BY DEF Value
<1> QED
  BY <1>1, <1>2, NoPageDataAssumption

LEMMA FoundPages ==
    ASSUME OneHandle, CacheInv, NEW n \in Files, NEW p \in PageIds
    PROVE  /\ Found[<<n, p>>] = Now(n, p)
           /\ Found[<<n, p>>] # NoData <=> p \in InUse(disk[n])
<1>1. IsPool(bufDescTable, hash, bufPool) /\ IsDisk(disk)
  BY DEF CacheInv, PinInv, IInv
<1>2. Found[<<n, p>>] = Now(n, p)
  BY FoundIsNow
<1>3. Now(n, p) # NoData <=> p \in InUse(disk[n])
  BY <1>1, ValueIsContent DEF Now
<1> QED
  BY <1>2, <1>3

\* A change of one page is a change of one entry of the store.
LEMMA FoundBecomes ==
    ASSUME OneHandle, CacheInv, CacheInv', NEW m \in Files, NEW q \in PageIds, NEW v,
           Becomes(m, q, v)
    PROVE  Found' = [Found EXCEPT ![<<m, q>>] = v]
<1>1. Found = [k \in Files \X PageIds |-> Now(k[1], k[2])]
  BY FoundIsNow
<1>2. Found' = [k \in Files \X PageIds |-> Now(k[1], k[2])']
  BY FoundIsNowNext
<1>3. ASSUME NEW k \in Files \X PageIds
      PROVE  Now(k[1], k[2])' = IF k = <<m, q>> THEN v ELSE Now(k[1], k[2])
  <2>1. k[1] \in Files /\ k[2] \in PageIds /\ (k = <<m, q>> <=> k[1] = m /\ k[2] = q)
    OBVIOUS
  <2> QED
    BY <2>1 DEF Becomes
<1> QED
  BY <1>1, <1>2, <1>3

\* A step that is not noticed leaves the store alone.
LEMMA UnnoticedStutters ==
    ASSUME OneHandle, CacheInv, CacheInv', Unnoticed
    PROVE  Found' = Found
<1>1. \A k \in Files \X PageIds : Now(k[1], k[2])' = Now(k[1], k[2])
  BY DEF Unnoticed
<1> QED
  BY <1>1, FoundIsNow, FoundIsNowNext

\* Every step of the clients is a step of the store or leaves it alone.
LEMMA StepOfStore ==
    ASSUME Disciplined, OneHandle, CacheInv, CacheInv', [Next]_vars
    PROVE  [Store!Next]_Found
<1>1. CASE UNCHANGED vars
  BY <1>1, PoolUntouched, UnnoticedStutters DEF vars, pool
<1>2. ASSUME NEW h \in Handles, NEW p \in PageIds, NEW c \in Clients,
             ReadHit(c, h, p) \/ ReadMiss(c, h, p)
      PROVE  Found' = Found
  BY <1>2, ReadHitUnnoticed, ReadMissUnnoticed, UnnoticedStutters
<1>3. ASSUME NEW h \in Handles, NEW p \in PageIds,
             ReadInvalid(h, p) \/ ReadNoFrame(h, p)
      PROVE  Found' = Found
  BY <1>3, ReadInvalidUnnoticed, ReadNoFrameUnnoticed, UnnoticedStutters
<1>4. ASSUME NEW h \in Handles, NEW p \in PageIds,
             DisposeBuffered(h, p) \/ DisposeUnbuffered(h, p)
      PROVE  Store!Next
  <2>1. FileOf[h] \in Files
    BY FileOfAssumption
  <2>2. p \in InUse(disk[FileOf[h]]) /\ Becomes(FileOf[h], p, NoData)
    BY <1>4, DisposeReleases
  <2>3. Store!Release(<<FileOf[h], p>>)
    BY <2>1, <2>2, FoundPages, FoundBecomes DEF Store!Release
  <2> QED
    BY <2>1, <2>3 DEF Store!Next
<1>5. ASSUME NEW h \in Handles, CanAllocate(h),
             Becomes(FileOf[h], NewNumber(h), EmptyData)
      PROVE  Store!Next
  <2>1. /\ FileOf[h] \in Files /\ NewNumber(h) \in PageIds
        /\ NewNumber(h) \notin InUse(disk[FileOf[h]])
    BY <1>5, GrownDiskSound
  <2>2. Store!Allocate(<<FileOf[h], NewNumber(h)>>)
    BY <1>5, <2>1, FoundPages, FoundBecomes DEF Store!Allocate
  <2> QED
    BY <2>1, <2>2 DEF Store!Next
<1>6. ASSUME NEW h \in Handles, NEW c \in Clients, AllocPage(c, h)
      PROVE  Store!Next
  BY <1>5, <1>6, AllocPageEmpty DEF AllocPage
<1>7. ASSUME NEW h \in Handles, AllocPageNoFrame(h)
      PROVE  Store!Next
  BY <1>5, <1>7, AllocPageNoFrameEmpty DEF AllocPageNoFrame
<1>8. ASSUME NEW h \in Handles, AllocPagePresent(h) \/ FlushFile(h)
      PROVE  Found' = Found
  BY <1>8, NewPageHasNoEntry, FlushUnnoticed, UnnoticedStutters
<1>9. ASSUME NEW c \in Clients, NEW d \in Data, WritePinned(c, d)
      PROVE  Store!Next
  <2> DEFINE m == FileOf[session[c].file]
             q == session[c].page
  <2>1. m \in Files /\ q \in PageIds /\ q \in InUse(disk[m]) /\ Becomes(m, q, d)
    BY <1>9, WritePinnedWrites
  <2> HIDE DEF m, q
  <2>2. Store!Write(<<m, q>>, d)
    BY <2>1, FoundPages, FoundBecomes DEF Store!Write
  <2> QED
    BY <2>1, <2>2 DEF Store!Next
<1>10. ASSUME NEW c \in Clients, NEW dirty \in BOOLEAN, UnPin(c, dirty)
       PROVE  Found' = Found
  BY <1>10, UnPinUnnoticed, UnnoticedStutters
<1>11. ASSUME NEW c \in Clients, UnPinLost(c)
       PROVE  Found' = Found
  BY <1>11, PinnedSession DEF UnPinLost, CacheInv
<1>12. CASE Restart
  BY <1>12, NobodyWrites, RestartUnnoticed, UnnoticedStutters
<1> QED
  BY <1>1, <1>2, <1>3, <1>4, <1>6, <1>7, <1>8, <1>9, <1>10, <1>11, <1>12 DEF Next

\* A new buffer manager over new files is an empty store.
LEMMA StartsEmpty ==
    ASSUME OneHandle, Init
    PROVE  Store!Init
<1>1. CacheInv /\ \A n \in Files : InUse(disk[n]) = {}
  BY CacheInit, NewFileFree DEF Init
<1>2. \A n \in Files, p \in PageIds : Now(n, p) = NoData
  BY <1>1 DEF Now, Value
<1> QED
  BY <1>1, <1>2, FoundIsNow DEF Store!Init

\* When each file is read through one File object and clients dispose of no
\* pinned page, the pool cannot be noticed: clients see a store of pages, in
\* which a page changes when a client writes through its pointer, and comes and
\* goes by allocPage and disposePage only, however frames are evicted, flushed
\* and read again, and after ~BufMgr and a new manager.
THEOREM PoolImplementsStore ==
    ASSUME Disciplined, OneHandle
    PROVE  Spec => StoreImplemented
<1>1. CacheInv /\ [Next]_vars => CacheInv'
  BY CacheNext
<1>2. Spec => []CacheInv
  BY <1>1, CacheInit, PTL DEF Spec
<1>3. Init => Store!Init
  BY StartsEmpty
<1>4. CacheInv /\ CacheInv' /\ [Next]_vars => [Store!Next]_Found
  BY StepOfStore
<1> QED
  BY <1>2, <1>3, <1>4, PTL DEF Spec, StoreImplemented, Store!Spec
=============================================================================
