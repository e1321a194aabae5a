--------------------------- MODULE ExecutorProofs ----------------------------
(***************************************************************************)
(* The two layers over the buffer manager, for every number of frames,     *)
(* pages, clients and tuples.                                              *)
(*                                                                         *)
(* The heap file: every step is a call of BufMgr, or adds a page to the    *)
(* file, so what BufMgrProofs shows of the pool carries over.  With it:    *)
(* tuples stay until they are deleted, a call that returns did its work    *)
(* and wrote it, and a call that nobody disturbs and that throws changed   *)
(* nothing and holds no pin.                                               *)
(*                                                                         *)
(* The join by nested loops, for every two tables, budget and number of    *)
(* frames, when each file is read through one File object: the result is   *)
(* the join as a bag, the pages read are those of the formula, every pin   *)
(* is given back, and it throws only when the pool is too small.           *)
(***************************************************************************)
EXTENDS NestedLoopJoin, BufMgrProofs

-----------------------------------------------------------------------------
(* The inductive invariant of the heap file *)

\* While a page is looked at, the call has come to a page of the file.
CallInv == /\ pc \in {"returned", "threw", "pin", "edit", "unpin", "flush"}
           /\ call \in Call
           /\ pc \in {"pin", "edit"} => call.page \in PageIds
           /\ before \in [RecordIds -> Tuples \cup {NoTuple}]
           /\ quiet \in BOOLEAN

HeapInv == IInv /\ CallInv

-----------------------------------------------------------------------------
(* Types *)

\* The file of the table.
LEMMA TableType == Table \in Handles /\ TableFile \in Files
  BY TableAssumption, FileOfAssumption DEF TableFile

\* What a client finds under a page number.
LEMMA ContentType ==
    ASSUME IInv, NEW n \in Files, NEW p \in PageIds
    PROVE  Content(n, p) \in Data \cup {NoData}
<1> DEFINE cached == {h \in Handles : FileOf[h] = n /\ hash[h][p] # NoFrame}
<1>1. CASE disk[n].page[p].num = NoPage
  BY <1>1 DEF Content
<1>2. CASE disk[n].page[p].num # NoPage /\ cached = {}
  <2>1. disk[n].page[p] \in Page
    BY FileParts DEF IInv, IsDisk
  <2> QED
    BY <1>2, <2>1 DEF Content, Page
<1>3. CASE disk[n].page[p].num # NoPage /\ cached # {}
  <2> DEFINE h == CHOOSE h \in cached : TRUE
  <2>1. h \in cached
    BY <1>3
  <2>2. hash[h][p] \in 0..NumBufs /\ hash[h][p] # NoFrame
    BY <2>1 DEF IInv, IsPool
  <2>3. hash[h][p] \in Frames
    BY <2>2, NumBufsAssumption DEF NoFrame, Frames
  <2>4. bufPool[hash[h][p]] \in Page
    BY <2>3 DEF IInv, IsPool
  <2>5. Content(n, p) = bufPool[hash[h][p]].data
    BY <1>3 DEF Content
  <2> QED
    BY <2>4, <2>5 DEF Page
<1> QED
  BY <1>1, <1>2, <1>3

\* The tuples in the file are tuples.
LEMMA TuplesType ==
    ASSUME IInv
    PROVE  TuplesNow \in [RecordIds -> Tuples \cup {NoTuple}]
<1> SUFFICES ASSUME NEW r \in RecordIds PROVE TuplesNow[r] \in Tuples \cup {NoTuple}
  BY DEF TuplesNow
<1>1. r[1] \in PageIds /\ r[2] \in Slots
  BY DEF RecordIds
<1>2. Content(TableFile, r[1]) \in Data \cup {NoData}
  BY <1>1, ContentType, TableType
<1> QED
  BY <1>1, <1>2, ContentsAssumption DEF TuplesNow, Contents

\* A page number taken from the file is one.
LEMMA HeaderLinks ==
    ASSUME IInv
    PROVE  /\ Image \in FileImage
           /\ Image.hdr.first_used_page \in PageRefs
           /\ \A p \in PageIds : Image.page[p].next \in PageRefs
  BY TableType, FileParts DEF IInv, IsDisk, Image, Page

-----------------------------------------------------------------------------
(* Steps of the heap file manager as steps of the buffer manager *)

\* A client's write through its pointer is one of BufMgr's when the content is
\* one; when the pointer is into no frame it changes nothing.
LEMMA EditStep ==
    ASSUME IInv, NEW c \in Clients, NEW s, NEW t \in Tuples \cup {NoTuple},
           WritePinned(c, [bufPool[session[c].frame].data EXCEPT ![s] = t])
    PROVE  Next
<1> DEFINE f == session[c].frame
           d == [bufPool[f].data EXCEPT ![s] = t]
<1>1. bufPool \in [Frames -> Page]
  BY DEF IInv, IsPool
<1>2. CASE f \in Frames
  <2>1. bufPool[f].data \in Contents
    BY <1>1, <1>2, ContentsAssumption DEF Page
  <2>2. d \in Data
    BY <2>1, ContentsAssumption DEF Contents
  <2> QED
    BY <2>2 DEF Next
<1>3. CASE f \notin Frames
  <2>1. bufPool' = bufPool
    BY <1>1, <1>3 DEF WritePinned
  <2>2. bufPool = [bufPool EXCEPT ![f].data = EmptyData]
    BY <1>1, <1>3
  <2>3. WritePinned(c, EmptyData)
    BY <2>1, <2>2 DEF WritePinned
  <2> QED
    BY <2>3, EmptyDataAssumption DEF Next
<1> QED
  BY <1>2, <1>3

\* A page allocated behind the pool leaves the pool's invariant alone.
LEMMA GrownFile ==
    ASSUME IInv, CanAllocate(Table), disk' = GrownDisk(Table),
           UNCHANGED <<pool, session, bufStats>>
    PROVE  IInv'
<1>1. IsDisk(GrownDisk(Table))
  BY TableType, GrownDiskType DEF IInv
<1> QED
  BY <1>1 DEF IInv, IsRest, pool

-----------------------------------------------------------------------------
(* The invariant is inductive *)

LEMMA HeapInvInit == HeapInit => HeapInv
<1> SUFFICES ASSUME HeapInit PROVE HeapInv
  OBVIOUS
<1>1. IInv
  BY InvInit DEF HeapInit
<1>2. call \in Call
  BY PageNumbers DEF HeapInit, Call
<1>3. before \in [RecordIds -> Tuples \cup {NoTuple}]
  BY <1>1, TuplesType DEF HeapInit
<1> QED
  BY <1>1, <1>2, <1>3 DEF HeapInit, HeapInv, CallInv

LEMMA HeapInvNext == HeapInv /\ [HeapNext]_allVars => HeapInv'
<1> SUFFICES ASSUME HeapInv, [HeapNext]_allVars PROVE HeapInv'
  OBVIOUS
<1>1. IInv /\ CallInv
  BY DEF HeapInv
<1>2. call.caller \in Clients /\ call.tuple \in Tuples \cup {NoTuple} /\ call.page \in PageRefs
  BY <1>1 DEF CallInv, Call
<1>3. [Next]_vars => IInv'
  BY <1>1, InvNext
<1>4. TuplesNow \in [RecordIds -> Tuples \cup {NoTuple}]
  BY <1>1, TuplesType
<1>5. ASSUME NEW c \in Callers, NEW t \in Tuples, BeginInsert(c, t)
      PROVE  HeapInv'
  <2>1. IInv'
    BY <1>3, <1>5 DEF BeginInsert
  <2>2. PageWithSpace(t) \in PageIds
    BY <1>5 DEF BeginInsert, Readable
  <2>3. call' \in Call /\ call'.page \in PageIds
    BY <1>5, <2>2, PageNumbers, CallersAssumption DEF BeginInsert, Call
  <2> QED
    BY <1>4, <1>5, <2>1, <2>3 DEF HeapInv, CallInv, BeginInsert, Begins
<1>6. ASSUME NEW c \in Callers, NEW t \in Tuples, BeginInsertInNewPage(c, t)
      PROVE  HeapInv'
  <2>1. IInv'
    BY <1>1, <1>6, GrownFile DEF BeginInsertInNewPage
  <2>2. NewNumber(Table) \in PageIds
    BY <1>6 DEF BeginInsertInNewPage, CanAllocate, NewNumber
  <2>3. call' \in Call /\ call'.page \in PageIds
    BY <1>6, <2>2, PageNumbers, CallersAssumption DEF BeginInsertInNewPage, Call
  <2> QED
    BY <1>4, <1>6, <2>1, <2>3 DEF HeapInv, CallInv, BeginInsertInNewPage, Begins
<1>7. ASSUME NEW c \in Callers, NEW r \in RecordIds, BeginDelete(c, r)
      PROVE  HeapInv'
  <2>1. IInv'
    BY <1>3, <1>7 DEF BeginDelete
  <2>2. call' \in Call
    BY <1>1, <1>7, HeaderLinks, CallersAssumption DEF BeginDelete, Call
  <2>3. pc' = "flush" \/ (pc' = "pin" /\ call'.page \in PageIds)
    BY <1>1, <1>7, HeaderLinks DEF BeginDelete, PageRefs, PageIds, NoPage
  <2> QED
    BY <1>4, <1>7, <2>1, <2>2, <2>3 DEF HeapInv, CallInv, BeginDelete, Begins
<1>8. CASE Pin
  <2>1. Next
    BY <1>1, <1>2, <1>8, TableType DEF Pin, Next, CallInv
  <2> QED
    BY <1>1, <1>3, <1>8, <2>1 DEF HeapInv, CallInv, Pin
<1>9. CASE PinFails
  <2>1. Next
    BY <1>1, <1>9, TableType DEF PinFails, Next, CallInv
  <2> QED
    BY <1>1, <1>3, <1>9, <2>1 DEF HeapInv, CallInv, PinFails
<1>10. CASE InsertRecord
  <2>1. Next
    BY <1>1, <1>2, <1>10, EditStep DEF InsertRecord, Pinned
  <2> QED
    BY <1>1, <1>3, <1>10, <2>1 DEF HeapInv, CallInv, InsertRecord
<1>11. CASE InsertRecordFails
  BY <1>1, <1>3, <1>11 DEF HeapInv, CallInv, InsertRecordFails
<1>12. CASE DeleteRecord
  <2>1. Next
    BY <1>1, <1>2, <1>12, EditStep DEF DeleteRecord, Pinned
  <2> QED
    BY <1>1, <1>3, <1>12, <2>1 DEF HeapInv, CallInv, DeleteRecord
<1>13. CASE NotHere
  <2>1. Next
    BY <1>2, <1>13 DEF NotHere, Next
  <2>2. Successor(Image, call.page) \in PageRefs
    BY <1>1, <1>2, HeaderLinks DEF Successor, PageRefs, PageIds, NoPage
  <2>3. call' = [call EXCEPT !.page = Successor(Image, call.page)]
    BY <1>13 DEF NotHere
  <2>4. call' \in Call /\ call'.page = Successor(Image, call.page)
    BY <1>1, <2>2, <2>3 DEF CallInv, Call
  <2>5. pc' = "flush" \/ (pc' = "pin" /\ call'.page \in PageIds)
    BY <1>13, <2>2, <2>4 DEF NotHere, PageRefs, PageIds, NoPage
  <2> QED
    BY <1>1, <1>3, <1>13, <2>1, <2>4, <2>5 DEF HeapInv, CallInv, NotHere
<1>14. CASE UnpinEdited
  <2>1. Next
    BY <1>2, <1>14 DEF UnpinEdited, Next
  <2> QED
    BY <1>1, <1>3, <1>14, <2>1 DEF HeapInv, CallInv, UnpinEdited
<1>15. CASE Flush
  <2>1. [Next]_vars
    BY <1>15, TableType DEF Flush, Next
  <2> QED
    BY <1>1, <1>3, <1>15, <2>1 DEF HeapInv, CallInv, Flush
<1>16. CASE OtherClients
  <2>1. Next
    BY <1>16 DEF OtherClients, Others, Next
  <2> QED
    BY <1>1, <1>3, <1>16, <2>1 DEF HeapInv, CallInv, OtherClients, heapVars
<1>17. CASE NewProgram
  <2>1. Next
    BY <1>17 DEF NewProgram, Next
  <2> QED
    BY <1>1, <1>3, <1>17, <2>1 DEF HeapInv, CallInv, NewProgram, heapVars
<1>18. CASE UNCHANGED allVars
  BY <1>1, <1>3, <1>18 DEF HeapInv, CallInv, allVars, heapVars
<1> QED
  BY <1>5, <1>6, <1>7, <1>8, <1>9, <1>10, <1>11, <1>12, <1>13, <1>14, <1>15, <1>16,
     <1>17, <1>18 DEF HeapNext

-----------------------------------------------------------------------------

\* With the heap file manager and others as clients of the buffer manager, the
\* variables keep their types: a call comes to pages of the file only, and
\* what it looks at in a pinned page are tuples.
THEOREM HeapIsTyped == HeapSpec => []HeapTypeOK
<1>1. HeapSpec => []HeapInv
  BY HeapInvInit, HeapInvNext, PTL DEF HeapSpec
<1>2. HeapInv => HeapTypeOK
  BY InvImplies DEF HeapInv, CallInv, HeapTypeOK
<1> QED
  BY <1>1, <1>2, PTL

\* The descriptors and the hash table of the pool agree, also after the calls
\* of insertTuple and deleteTuple that throw.
THEOREM HeapKeepsPool == HeapSpec => []PoolConsistent
<1>1. HeapSpec => []HeapInv
  BY HeapInvInit, HeapInvNext, PTL DEF HeapSpec
<1>2. HeapInv => PoolConsistent
  BY InvImplies DEF HeapInv
<1> QED
  BY <1>1, <1>2, PTL

-----------------------------------------------------------------------------
(* The tuples, by what a client finds under each page number *)

TupleIn(content, slot) == IF content = NoData THEN NoTuple ELSE content[slot]

\* What a client finds is the value by the state of the buffer manager.
LEMMA ContentIsNow ==
    ASSUME OneHandle, CacheInv, NEW p \in PageIds
    PROVE  Content(TableFile, p) = Now(TableFile, p)
<1>1. Found[<<TableFile, p>>] = Now(TableFile, p)
  BY FoundPages, TableType
<1>2. Found[<<TableFile, p>>] = Content(TableFile, p)
  BY TableType DEF Found
<1> QED
  BY <1>1, <1>2

LEMMA TuplesAre ==
    ASSUME OneHandle, CacheInv
    PROVE  TuplesNow = [r \in RecordIds |-> TupleIn(Now(TableFile, r[1]), r[2])]
<1>1. \A r \in RecordIds : Content(TableFile, r[1]) = Now(TableFile, r[1])
  BY ContentIsNow DEF RecordIds
<1> QED
  BY <1>1 DEF TuplesNow, TupleIn

LEMMA TuplesAreNext ==
    ASSUME OneHandle, CacheInv'
    PROVE  TuplesNow' = [r \in RecordIds |-> TupleIn(Now(TableFile, r[1])', r[2])]
<1>1. ASSUME NEW r \in RecordIds
      PROVE  Content(TableFile, r[1])' = Now(TableFile, r[1])'
  <2>1. r[1] \in PageIds /\ <<TableFile, r[1]>> \in Files \X PageIds
    BY TableType DEF RecordIds
  <2>2. Found' = [k \in Files \X PageIds |-> Now(k[1], k[2])']
    BY FoundIsNowNext
  <2>3. Found' = [k \in Files \X PageIds |-> Content(k[1], k[2])']
    BY DEF Found
  <2>4. Found'[<<TableFile, r[1]>>] = Content(TableFile, r[1])'
    BY <2>1, <2>3
  <2>5. Found'[<<TableFile, r[1]>>] = Now(TableFile, r[1])'
    BY <2>1, <2>2
  <2> QED
    BY <2>4, <2>5
<1>2. TuplesNow' = [r \in RecordIds |-> TupleIn(Content(TableFile, r[1])', r[2])]
  BY DEF TuplesNow, TupleIn
<1> QED
  BY <1>1, <1>2

\* When no page of the file changes, no tuple does.
LEMMA SameTuples ==
    ASSUME OneHandle, CacheInv, CacheInv',
           \A p \in PageIds : Now(TableFile, p)' = Now(TableFile, p)
    PROVE  TuplesNow' = TuplesNow
<1>1. \A r \in RecordIds : Now(TableFile, r[1])' = Now(TableFile, r[1])
  BY DEF RecordIds
<1> QED
  BY <1>1, TuplesAre, TuplesAreNext

LEMMA UnnoticedTuples ==
    ASSUME OneHandle, CacheInv, CacheInv', Unnoticed
    PROVE  TuplesNow' = TuplesNow
  BY SameTuples, TableType DEF Unnoticed

\* When one slot of one page changes, one tuple does.
LEMMA EditedTuples ==
    ASSUME OneHandle, CacheInv, CacheInv', NEW p \in PageIds, NEW s \in Slots, NEW t,
           NEW d \in Data, Now(TableFile, p) = d,
           [d EXCEPT ![s] = t] \in Data,
           Becomes(TableFile, p, [d EXCEPT ![s] = t])
    PROVE  /\ TuplesNow[<<p, s>>] = d[s]
           /\ TuplesNow' = [TuplesNow EXCEPT ![<<p, s>>] = t]
<1> DEFINE e == [d EXCEPT ![s] = t]
<1>1. e[s] = t /\ \A x \in Slots \ {s} : e[x] = d[x]
  BY ContentsAssumption DEF Contents
<1>2. e # NoData /\ d # NoData
  BY NoPageDataAssumption
<1>3. \A q \in PageIds : Now(TableFile, q)' = IF q = p THEN e ELSE Now(TableFile, q)
  BY TableType DEF Becomes
<1> HIDE DEF e
<1>4. TuplesNow = [r \in RecordIds |-> TupleIn(Now(TableFile, r[1]), r[2])]
  BY TuplesAre
<1>5. TuplesNow' = [r \in RecordIds |-> TupleIn(Now(TableFile, r[1])', r[2])]
  BY TuplesAreNext
<1>6. <<p, s>> \in RecordIds /\ TuplesNow[<<p, s>>] = d[s]
  BY <1>2, <1>4 DEF RecordIds, TupleIn
<1>7. ASSUME NEW r \in RecordIds
      PROVE  TupleIn(Now(TableFile, r[1])', r[2])
                = IF r = <<p, s>> THEN t ELSE TupleIn(Now(TableFile, r[1]), r[2])
  <2>1. /\ r[1] \in PageIds /\ r[2] \in Slots
        /\ (r = <<p, s>> <=> r[1] = p /\ r[2] = s)
    BY DEF RecordIds
  <2>2. CASE r[1] = p
    BY <1>1, <1>2, <1>3, <2>1, <2>2 DEF TupleIn
  <2>3. CASE r[1] # p
    BY <1>3, <2>1, <2>3
  <2> QED
    BY <2>2, <2>3
<1> QED
  BY <1>4, <1>5, <1>6, <1>7

-----------------------------------------------------------------------------
(* The state of a running call *)

\* The call has its page pinned exactly while it edits it.
PinOfCall ==
    /\ pc \in {"pin", "flush"} => ~Active(call.caller)
    /\ pc \in {"edit", "unpin"} =>
          /\ Active(call.caller)
          /\ session[call.caller].file = Table
          /\ session[call.caller].page = call.page

\* Only the call writes, and it says so when it unpins.
OneWriter == \A c \in Clients : session[c].wrote => pc = "unpin" /\ c = call.caller

\* When a call has returned, no frame of the file is left to be written.
NoneDirty == pc = "returned" => \A f \in FramesOf(Table) : ~bufDescTable[f].dirty

Arguments ==
    /\ ~Ready /\ call.op = "insert" => call.tuple \in Tuples
    /\ call.op = "delete" => call.rid \in RecordIds

\* Until it edits a page the call has changed nothing; a deletion has not gone
\* past the page of its record.  After that it has done its work.
Progress ==
    /\ pc \in {"pin", "edit"} =>
          /\ TuplesNow = before
          /\ call.op = "delete" /\ before[call.rid] # NoTuple => call.page <= call.rid[1]
    /\ pc \in {"unpin", "flush"} => WorkDone

\* A quiet call has the only pin on a page of the file, and the page in which
\* it found room in the file has room in the pool too; so has a new page, unless
\* the tuple is longer than a page.
Quietness ==
    quiet =>
        /\ call.caller \in Callers
        /\ ~Ready => \A c \in Clients :
                         Active(c) /\ session[c].file = Table => c = call.caller
        /\ pc \in {"pin", "edit"} /\ call.op = "insert" /\ FitsAPage
              => HasSpace(Now(TableFile, call.page), call.tuple)
        /\ Ready /\ (pc = "threw" => FitsAPage) => ~Active(call.caller)
        /\ pc = "threw" => TuplesNow = before

CallState == PinOfCall /\ OneWriter /\ NoneDirty /\ Arguments /\ Progress /\ Quietness

TupleInv == CacheInv /\ CallInv /\ CallState

\* What the lemmas about single steps rest on.
LEMMA TupleInvParts ==
    ASSUME TupleInv
    PROVE  /\ IInv /\ PinInv /\ SoundCache
           /\ session \in [Clients -> Session]
           /\ bufDescTable \in [Frames -> BufDesc]
           /\ IsPool(bufDescTable, hash, bufPool)
           /\ call \in Call /\ call.caller \in Clients
           /\ pc \in {"edit", "pin"} => call.page \in PageIds
           /\ Image \in FileImage /\ ListsExact(Image)
  BY TableType DEF TupleInv, CacheInv, PinInv, IInv, IsRest, IsPool, CallInv, Call,
     SoundCache, SoundDisk, IsDisk, Image

-----------------------------------------------------------------------------
(* Pins of one client *)

\* Who reads or allocates a page has it pinned, and has not written to it.
LEMMA GetsPin ==
    ASSUME IInv, NEW c \in Clients, NEW h \in Handles, NEW p \in PageIds,
           \/ ReadHit(c, h, p)
           \/ ReadMiss(c, h, p)
           \/ AllocPage(c, h) /\ p = NewNumber(h)
    PROVE  /\ ~Active(c)
           /\ Active(c)' /\ ~session'[c].wrote
           /\ session'[c].file = h /\ session'[c].page = p
           /\ \A e \in Clients \ {c} : session'[e] = session[e]
<1>1. PICK f : Pins(c, h, p, f) /\ ~Active(c)
  BY DEF ReadHit, ReadMiss, AllocPage
<1>2. session' = [session EXCEPT ![c] =
                     [file |-> h, page |-> p, frame |-> f, wrote |-> FALSE]]
  BY <1>1 DEF Pins
<1>3. session \in [Clients -> Session]
  BY DEF IInv, IsRest
<1>4. /\ session'[c] = [file |-> h, page |-> p, frame |-> f, wrote |-> FALSE]
      /\ \A e \in Clients \ {c} : session'[e] = session[e]
  BY <1>2, <1>3
<1>5. session'[c] # Idle
  <2>1. session'[c].file = h /\ Idle.file = NoHandle
    BY <1>4 DEF Idle
  <2> QED
    BY <2>1, NoHandleAssumption
<1> QED
  BY <1>1, <1>4, <1>5 DEF Active

LEMMA GivesPinBack ==
    ASSUME IInv, NEW c \in Clients, NEW dirty, UnPin(c, dirty)
    PROVE  /\ Active(c)
           /\ ~Active(c)' /\ ~session'[c].wrote
           /\ session[c].wrote => dirty
           /\ \A e \in Clients \ {c} : session'[e] = session[e]
<1>1. session \in [Clients -> Session]
  BY DEF IInv, IsRest
<1> QED
  BY <1>1, IdleType DEF UnPin, Active

LEMMA WritesPinned ==
    ASSUME IInv, NEW c \in Clients, NEW d, WritePinned(c, d)
    PROVE  /\ session'[c] # Idle
           /\ session'[c].file = session[c].file /\ session'[c].page = session[c].page
           /\ \A e \in Clients \ {c} : session'[e] = session[e]
<1>1. session \in [Clients -> Session]
  BY DEF IInv, IsRest
<1>2. session' = [session EXCEPT ![c].wrote = TRUE]
  BY DEF WritePinned
<1>3. /\ session'[c].wrote = TRUE
      /\ session'[c].file = session[c].file /\ session'[c].page = session[c].page
      /\ \A e \in Clients \ {c} : session'[e] = session[e]
  BY <1>1, <1>2 DEF Session
<1> QED
  BY <1>3, IdleType

\* A client that wrote holds a pin.
LEMMA WriterIsActive ==
    ASSUME NEW c \in Clients, session[c].wrote
    PROVE  Active(c)
  BY IdleType DEF Active

-----------------------------------------------------------------------------
(* The page a client has pinned *)

LEMMA PinnedContent ==
    ASSUME OneHandle, CacheInv, NEW c \in Clients, Active(c), session[c].file = Table
    PROVE  LET f == session[c].frame
               p == session[c].page
           IN  /\ f \in Frames /\ p \in PageIds
               /\ p \in InUse(Image)
               /\ bufDescTable[f].file = Table
               /\ bufPool[f].data \in Data
               /\ Now(TableFile, p) = bufPool[f].data
<1> DEFINE f == session[c].frame
           p == session[c].page
<1>1. /\ PinInv /\ IsPool(bufDescTable, hash, bufPool)
      /\ Stored(bufDescTable, disk)
  BY DEF CacheInv, PinInv, IInv, SoundCache
<1>2. /\ f \in Frames /\ bufDescTable[f].valid
      /\ bufDescTable[f].file = Table /\ bufDescTable[f].pageNo = p
  BY <1>1, PinnedSession DEF PinInv, PinnedPageStays
<1>3. p \in InUse(Image) /\ p \in PageIds
  BY <1>1, <1>2, InUseType DEF Stored, Image, TableFile
<1>4. Holds(bufDescTable, f, TableFile, p)
  BY <1>2 DEF Holds, TableFile
<1>5. bufPool[f].data \in Data
  BY <1>1, <1>2 DEF IsPool, Page
<1> HIDE DEF f, p
<1>6. Now(TableFile, p) = bufPool[f].data
  BY <1>1, <1>2, <1>3, <1>4, ValueInFrame DEF Now, Image
<1> QED
  BY <1>2, <1>3, <1>5, <1>6 DEF f, p

-----------------------------------------------------------------------------
(* After a call has returned *)

\* What the pool holds is in the file.
LEMMA ReturnedMatches ==
    ASSUME OneHandle, CacheInv, OneWriter, NoneDirty, pc = "returned",
           NEW p \in InUse(Image)
    PROVE  Now(TableFile, p) = Image.page[p].data
<1>1. /\ IsPool(bufDescTable, hash, bufPool)
      /\ CleanSame(bufDescTable, bufPool, disk, session)
      /\ p \in PageIds /\ p \in InUse(disk[TableFile])
  BY InUseType DEF CacheInv, PinInv, IInv, SoundCache, Image
<1>2. CASE \A f \in Frames : ~Holds(bufDescTable, f, TableFile, p)
  BY <1>1, <1>2, ValueOnDisk DEF Now, Image
<1>3. ASSUME NEW f \in Frames, Holds(bufDescTable, f, TableFile, p)
      PROVE  Now(TableFile, p) = Image.page[p].data
  <2>1. /\ bufDescTable[f].valid /\ bufDescTable[f].pageNo = p
        /\ FileOf[bufDescTable[f].file] = TableFile
    BY <1>3 DEF Holds
  <2>2. bufDescTable[f].file = Table
    BY <1>1, <2>1, FramePage, TableAssumption DEF OneHandle, TableFile
  <2>3. ~bufDescTable[f].dirty
    BY <2>2 DEF NoneDirty, FramesOf
  <2>4. Unwritten(session, f)
    BY DEF OneWriter, Unwritten
  <2>5. bufPool[f].data = disk[TableFile].page[p].data
    BY <1>1, <2>1, <2>3, <2>4 DEF CleanSame, Same
  <2>6. Now(TableFile, p) = bufPool[f].data
    BY <1>1, <1>3, ValueInFrame DEF Now
  <2> QED
    BY <2>5, <2>6 DEF Image
<1> QED
  BY <1>2, <1>3

\* Reading and allocating make no frame dirty, and a clean unpin does not.
LEMMA StaysClean ==
    ASSUME IInv, NEW c \in Clients,
           \/ \E h \in Handles :
                 \/ \E p \in PageIds : ReadHit(c, h, p) \/ ReadMiss(c, h, p)
                 \/ AllocPage(c, h)
           \/ UnPin(c, FALSE)
    PROVE  \A f \in Frames :
              bufDescTable'[f].file = Table /\ bufDescTable'[f].dirty
                 => bufDescTable[f].file = Table /\ bufDescTable[f].dirty
<1>1. /\ IsPool(bufDescTable, hash, bufPool) /\ clockHand \in Frames
      /\ bufDescTable \in [Frames -> BufDesc]
  BY DEF IInv, IsPool
<1> SUFFICES ASSUME NEW f \in Frames, bufDescTable'[f].file = Table, bufDescTable'[f].dirty
             PROVE  bufDescTable[f].file = Table /\ bufDescTable[f].dirty
  OBVIOUS
<1>2. ASSUME NEW g, NEW r, r.file = bufDescTable[g].file, r.dirty <=> bufDescTable[g].dirty,
             bufDescTable' = [bufDescTable EXCEPT ![g] = r]
      PROVE  bufDescTable[f].file = Table /\ bufDescTable[f].dirty
  BY <1>1, <1>2
<1>3. ASSUME NEW h \in Handles, NEW p \in PageIds, ReadHit(c, h, p)
      PROVE  bufDescTable[f].file = Table /\ bufDescTable[f].dirty
  <2> DEFINE g == hash[h][p]
             r == [bufDescTable[g] EXCEPT !.refbit = TRUE, !.pinCnt = @ + 1]
  <2>1. g \in Frames
    BY <1>1, <1>3, EntryHolds DEF ReadHit
  <2>2. bufDescTable' = [bufDescTable EXCEPT ![g] = r]
    BY <1>1, <1>3, <2>1 DEF ReadHit
  <2> HIDE DEF g
  <2>3. r.file = bufDescTable[g].file /\ (r.dirty <=> bufDescTable[g].dirty)
    BY <1>1, <2>1 DEF BufDesc
  <2> HIDE DEF r
  <2> QED
    BY <1>2, <2>2, <2>3
<1>4. ASSUME ~Exceeded, NEW h \in Handles, NEW p \in PageIds,
             bufDescTable' = [TableAfter EXCEPT ![victim] = Set(h, p)]
      PROVE  bufDescTable[f].file = Table /\ bufDescTable[f].dirty
  <2>1. victim \in Frames /\ TableAfter \in [Frames -> BufDesc]
    BY <1>1, <1>4, FreedPool DEF IsPool
  <2>2. ~Set(h, p).dirty
    BY DEF Set
  <2>3. f # victim /\ bufDescTable'[f] = TableAfter[f]
    BY <1>4, <2>1, <2>2
  <2>4. TableAfter[f] = SweptTable(victim)[f]
    BY <2>1, <2>3 DEF TableAfter, SweptTable
  <2> QED
    BY <1>1, <2>1, <2>3, <2>4, SweptPool
<1>5. ASSUME NEW h \in Handles, NEW p \in PageIds, ReadMiss(c, h, p)
      PROVE  bufDescTable[f].file = Table /\ bufDescTable[f].dirty
  BY <1>4, <1>5 DEF ReadMiss, Allocates
<1>6. ASSUME NEW h \in Handles, AllocPage(c, h)
      PROVE  bufDescTable[f].file = Table /\ bufDescTable[f].dirty
  BY <1>4, <1>6 DEF AllocPage, Allocates, CanAllocate, NewNumber
<1>7. CASE UnPin(c, FALSE)
  <2> DEFINE g == PinnedFrame(c)
             r == [bufDescTable[g] EXCEPT !.pinCnt = @ - 1, !.dirty = @ \/ FALSE]
  <2>1. bufDescTable' = [bufDescTable EXCEPT ![g].pinCnt = @ - 1, ![g].dirty = @ \/ FALSE]
    BY <1>7 DEF UnPin
  <2>2. bufDescTable' = [bufDescTable EXCEPT ![g] = r]
    BY <1>1, <2>1
  <2> HIDE DEF g
  <2>3. CASE g \in Frames
    <3>1. r.file = bufDescTable[g].file /\ (r.dirty <=> bufDescTable[g].dirty)
      BY <1>1, <2>3 DEF BufDesc
    <3> HIDE DEF r
    <3> QED
      BY <1>2, <2>2, <3>1
  <2>4. CASE g \notin Frames
    BY <1>1, <2>2, <2>4
  <2> QED
    BY <2>3, <2>4
<1> QED
  BY <1>3, <1>5, <1>6, <1>7

-----------------------------------------------------------------------------
(* A call begins *)

\* Nobody has a page of the file pinned when no frame of the file is pinned.
LEMMA NobodyThere ==
    ASSUME PinInv, \A f \in FramesOf(Table) : bufDescTable[f].pinCnt = 0,
           NEW c \in Clients, Active(c)
    PROVE  session[c].file # Table
<1>1. /\ session[c].frame \in Frames
      /\ bufDescTable[session[c].frame].pinCnt > 0
      /\ bufDescTable[session[c].frame].file = session[c].file
  BY DEF PinInv, PinnedPageStays
<1>2. bufDescTable[session[c].frame].pinCnt # 0
  BY <1>1
<1> QED
  BY <1>1, <1>2 DEF FramesOf

\* What every beginning call has, before it does anything.
LEMMA Beginning ==
    ASSUME TupleInv, NEW c \in Callers, Begins(c), call'.caller = c, session' = session,
           pc' \in {"pin", "flush"}
    PROVE  /\ PinOfCall' /\ OneWriter' /\ NoneDirty'
           /\ before' = TuplesNow
           /\ quiet' => /\ pc = "returned"
                        /\ call'.caller \in Callers
                        /\ \A e \in Clients : Active(e)' /\ session'[e].file = Table
                                                 => e = call'.caller
           /\ ~Ready' /\ pc' # "threw"
<1>1. c \in Clients /\ Ready /\ ~Active(c) /\ before' = TuplesNow
  BY CallersAssumption DEF Begins
<1>2. PinOfCall'
  BY <1>1 DEF PinOfCall, Active
<1>3. OneWriter'
  BY <1>1 DEF OneWriter, TupleInv, CallState, Ready
<1>4. quiet' => /\ pc = "returned"
                /\ \A e \in Clients : Active(e)' => session'[e].file # Table
  BY NobodyThere, TupleInvParts DEF Begins, Active
<1> QED
  BY <1>1, <1>2, <1>3, <1>4 DEF NoneDirty, Ready

LEMMA BeginInsertStep ==
    ASSUME OneHandle, TupleInv, NEW c \in Callers, NEW t \in Tuples, BeginInsert(c, t)
    PROVE  CacheInv' /\ CallState' /\ TuplesNow' = TuplesNow
<1>1. /\ Begins(c) /\ pc' = "pin"
      /\ PageWithSpace(t) \in Readable(Image)
      /\ call' = [op |-> "insert", caller |-> c, tuple |-> t, rid |-> NoRecordId,
                  page |-> PageWithSpace(t)]
      /\ UNCHANGED vars
  BY DEF BeginInsert
<1>2. /\ session' = session
      /\ UNCHANGED <<bufDescTable, bufPool, disk, session>>
      /\ call'.caller = c /\ call'.op = "insert" /\ call'.tuple = t
      /\ call'.page = PageWithSpace(t)
  BY <1>1 DEF vars, pool
<1>3. CacheInv'
  BY <1>1, <1>2, PinKept, PoolUntouched DEF TupleInv, CacheInv
<1>4. TuplesNow' = TuplesNow
  BY <1>1, <1>2, <1>3, PoolUntouched, UnnoticedTuples DEF TupleInv
<1>5. /\ PinOfCall' /\ OneWriter' /\ NoneDirty'
      /\ before' = TuplesNow
      /\ quiet' => /\ pc = "returned"
                   /\ call'.caller \in Callers
                   /\ \A e \in Clients : Active(e)' /\ session'[e].file = Table
                                            => e = call'.caller
      /\ ~Ready' /\ pc' # "threw"
  BY <1>1, <1>2, Beginning
<1>6. Arguments' /\ Progress'
  BY <1>1, <1>2, <1>4, <1>5 DEF Arguments, Progress
<1>7. ASSUME pc = "returned"
      PROVE  HasSpace(Now(TableFile, call.page), call.tuple)'
  <2>1. PageWithSpace(t) \in InUse(Image) /\ HasSpace(Image.page[PageWithSpace(t)].data, t)
    <3>1. PageWithSpace(t) \in {p \in PageIds : HasSpace(Image.page[p].data, t)}
      BY <1>1, TupleInvParts, WalkFinds DEF PageWithSpace
    <3>2. PageWithSpace(t) \in InUse(Image)
      BY <1>1 DEF Readable, InUse
    <3> QED
      BY <3>1, <3>2
  <2>2. Now(TableFile, PageWithSpace(t)) = Image.page[PageWithSpace(t)].data
    BY <1>7, <2>1, ReturnedMatches DEF TupleInv, CallState
  <2>3. Now(TableFile, call.page)' = Now(TableFile, PageWithSpace(t))
    BY <1>2 DEF Now
  <2> QED
    BY <1>2, <2>1, <2>2, <2>3 DEF HasSpace
<1>8. Quietness'
  BY <1>2, <1>5, <1>7 DEF Quietness
<1> QED
  BY <1>3, <1>4, <1>5, <1>6, <1>8 DEF CallState

\* The file has a new, empty page, which the pool does not hold.
LEMMA GrownBehind ==
    ASSUME CacheInv, CanAllocate(Table), disk' = GrownDisk(Table),
           UNCHANGED <<pool, session, bufStats>>
    PROVE  CacheInv' /\ Becomes(TableFile, NewNumber(Table), EmptyData)
<1>1. PinInv /\ IInv /\ IInv'
  BY GrownFile DEF CacheInv, PinInv
<1>2. PinInv'
  BY <1>1 DEF PinInv, PinsCounted, PinnedPageStays, pool, Active
<1>3. /\ SoundDisk(GrownDisk(Table))
      /\ Stored(bufDescTable, GrownDisk(Table))
      /\ CleanSame(bufDescTable, bufPool, GrownDisk(Table), session)
      /\ \A n \in Files, p \in PageIds :
            Value(bufDescTable, bufPool, GrownDisk(Table), n, p)
                = IF n = FileOf[Table] /\ p = NewNumber(Table) THEN EmptyData
                  ELSE Value(bufDescTable, bufPool, disk, n, p)
  BY TableAssumption, GrownDiskSound
<1>4. SoundCache'
  BY <1>3 DEF SoundCache, pool
<1>5. Becomes(TableFile, NewNumber(Table), EmptyData)
  BY <1>3 DEF Becomes, Now, TableFile, pool
<1> QED
  BY <1>2, <1>4, <1>5 DEF CacheInv

\* A new page has no tuple in it, and the room of an empty page.
LEMMA NewPageHasNoTuple ==
    ASSUME OneHandle, CacheInv, CacheInv', CanAllocate(Table),
           NEW q, q = NewNumber(Table), Becomes(TableFile, q, EmptyData)
    PROVE  /\ TuplesNow' = TuplesNow
           /\ Now(TableFile, q)' = EmptyData
<1>1. q \in PageIds /\ q \notin InUse(disk[TableFile])
  BY TableAssumption, GrownDiskSound DEF TableFile
<1>2. Now(TableFile, q) = NoData
  BY <1>1 DEF Now, Value
<1>3. /\ Now(TableFile, q)' = EmptyData
      /\ \A p \in PageIds \ {q} : Now(TableFile, p)' = Now(TableFile, p)
  BY <1>1, TableType DEF Becomes
<1>4. ASSUME NEW r \in RecordIds
      PROVE  TupleIn(Now(TableFile, r[1])', r[2]) = TupleIn(Now(TableFile, r[1]), r[2])
  <2>1. r[1] \in PageIds /\ r[2] \in Slots
    BY DEF RecordIds
  <2>2. EmptyData[r[2]] = NoTuple
    BY <2>1, ContentsAssumption
  <2> QED
    BY <1>2, <1>3, <2>1, <2>2 DEF TupleIn
<1>5. TuplesNow' = TuplesNow
  BY <1>4, TuplesAre, TuplesAreNext
<1> QED
  BY <1>3, <1>5

LEMMA BeginInsertInNewPageStep ==
    ASSUME OneHandle, TupleInv, NEW c \in Callers, NEW t \in Tuples,
           BeginInsertInNewPage(c, t)
    PROVE  CacheInv' /\ CallState' /\ TuplesNow' = TuplesNow
<1>1. /\ Begins(c) /\ pc' = "pin" /\ CanAllocate(Table)
      /\ call' = [op |-> "insert", caller |-> c, tuple |-> t, rid |-> NoRecordId,
                  page |-> NewNumber(Table)]
      /\ disk' = GrownDisk(Table)
      /\ UNCHANGED <<pool, session, bufStats>>
  BY DEF BeginInsertInNewPage
<1> DEFINE q == NewNumber(Table)
<1>2. /\ session' = session
      /\ call'.caller = c /\ call'.op = "insert" /\ call'.tuple = t
      /\ call'.page = q
  BY <1>1
<1>3. CacheInv' /\ Becomes(TableFile, q, EmptyData)
  BY <1>1, GrownBehind DEF TupleInv
<1>4. PICK p : p = q
  OBVIOUS
<1>5. /\ TuplesNow' = TuplesNow
      /\ Now(TableFile, p)' = EmptyData
  BY <1>4, <1>1, <1>3, NewPageHasNoTuple DEF TupleInv
<1>6. /\ PinOfCall' /\ OneWriter' /\ NoneDirty'
      /\ before' = TuplesNow
      /\ quiet' => /\ pc = "returned"
                   /\ call'.caller \in Callers
                   /\ \A e \in Clients : Active(e)' /\ session'[e].file = Table
                                            => e = call'.caller
      /\ ~Ready' /\ pc' # "threw"
  BY <1>1, <1>2, Beginning
<1>7. Arguments' /\ Progress'
  BY <1>1, <1>2, <1>5, <1>6 DEF Arguments, Progress
<1>8. FitsAPage' => HasSpace(Now(TableFile, call.page), call.tuple)'
  BY <1>4, <1>2, <1>5 DEF FitsAPage, HasSpace, Now
<1>9. Quietness'
  BY <1>6, <1>8 DEF Quietness
<1> QED
  BY <1>3, <1>5, <1>6, <1>7, <1>9 DEF CallState

\* No page of the file is in use when there is no first one, and no used page
\* comes before the first.
LEMMA FirstIsFirst ==
    ASSUME TupleInv, NEW p \in InUse(Image)
    PROVE  /\ Image.hdr.first_used_page # NoPage
           /\ Image.hdr.first_used_page <= p
<1>1. Follows(InUse(Image), NoPage, Image.hdr.first_used_page) /\ InUse(Image) \in SUBSET (Nat \ {0})
  BY TupleInvParts, InUseType DEF ListsExact, Linked
<1>2. p \in Nat \ {0} /\ ~(p <= 0)
  BY <1>1
<1> QED
  BY <1>1, <1>2 DEF Follows, NoPage

\* A tuple is in a page in use.
LEMMA TupleIsInUse ==
    ASSUME OneHandle, CacheInv, NEW r \in RecordIds, TuplesNow[r] # NoTuple
    PROVE  r[1] \in InUse(Image)
<1>1. TuplesNow[r] = TupleIn(Now(TableFile, r[1]), r[2])
  BY TuplesAre
<1>2. Now(TableFile, r[1]) # NoData
  BY <1>1 DEF TupleIn
<1> QED
  BY <1>2 DEF Now, Value, Image

LEMMA BeginDeleteStep ==
    ASSUME OneHandle, TupleInv, NEW c \in Callers, NEW r \in RecordIds, BeginDelete(c, r)
    PROVE  CacheInv' /\ CallState' /\ TuplesNow' = TuplesNow
<1> DEFINE p == Image.hdr.first_used_page
<1>1. /\ Begins(c) /\ pc' = IF p = NoPage THEN "flush" ELSE "pin"
      /\ call' = [op |-> "delete", caller |-> c, tuple |-> NoTuple, rid |-> r, page |-> p]
      /\ UNCHANGED vars
  BY DEF BeginDelete
<1>2. /\ session' = session
      /\ UNCHANGED <<bufDescTable, bufPool, disk, session>>
      /\ call'.caller = c /\ call'.op = "delete" /\ call'.rid = r
      /\ call'.page = p
  BY <1>1 DEF vars, pool
<1>3. CacheInv'
  BY <1>1, <1>2, PinKept, PoolUntouched DEF TupleInv, CacheInv
<1>4. TuplesNow' = TuplesNow
  BY <1>1, <1>2, <1>3, PoolUntouched, UnnoticedTuples DEF TupleInv
<1>5. /\ PinOfCall' /\ OneWriter' /\ NoneDirty'
      /\ before' = TuplesNow
      /\ quiet' => /\ pc = "returned"
                   /\ call'.caller \in Callers
                   /\ \A e \in Clients : Active(e)' /\ session'[e].file = Table
                                            => e = call'.caller
      /\ ~Ready' /\ pc' # "threw"
  BY <1>1, <1>2, Beginning
<1>6. TuplesNow[r] # NoTuple => p # NoPage /\ p <= r[1]
  BY TupleIsInUse, FirstIsFirst DEF TupleInv
<1>7. TuplesNow \in [RecordIds -> Tuples \cup {NoTuple}]
  BY TuplesType, TupleInvParts
<1> HIDE DEF p
<1>8. p = NoPage => WorkDone'
  <2> SUFFICES ASSUME p = NoPage PROVE TuplesNow' = [before' EXCEPT ![call'.rid] = NoTuple]
    BY <1>2 DEF WorkDone
  <2>1. TuplesNow[r] = NoTuple
    BY <1>6
  <2>2. TuplesNow = [TuplesNow EXCEPT ![r] = NoTuple]
    BY <1>7, <2>1
  <2> QED
    BY <1>2, <1>4, <1>5, <2>2
<1>9. Arguments' /\ Progress'
  BY <1>1, <1>2, <1>4, <1>5, <1>6, <1>8 DEF Arguments, Progress
<1>10. Quietness'
  BY <1>2, <1>5 DEF Quietness
<1> QED
  BY <1>3, <1>4, <1>5, <1>9, <1>10 DEF CallState

-----------------------------------------------------------------------------
(* The page is pinned *)

LEMMA PinStep ==
    ASSUME OneHandle, TupleInv, Pin
    PROVE  CacheInv' /\ CallState' /\ TuplesNow' = TuplesNow
<1> DEFINE c == call.caller
           p == call.page
<1>1. /\ pc = "pin" /\ pc' = "edit"
      /\ ReadHit(c, Table, p) \/ ReadMiss(c, Table, p)
      /\ call' = call /\ before' = before /\ quiet' = quiet
  BY DEF Pin
<1>2. /\ IInv /\ c \in Clients /\ p \in PageIds /\ Table \in Handles
      /\ ~Ready /\ ~Ready'
  BY <1>1, TupleInvParts, TableType DEF Ready
<1>3. KeepingNext /\ SoundCache' /\ Unnoticed
  BY <1>1, <1>2, ReadHitUnnoticed, ReadMissUnnoticed DEF KeepingNext, TupleInv
<1>4. CacheInv' /\ TuplesNow' = TuplesNow
  BY <1>3, PinKept, UnnoticedTuples DEF TupleInv, CacheInv
<1>5. /\ Active(c)' /\ ~session'[c].wrote
      /\ session'[c].file = Table /\ session'[c].page = p
      /\ \A e \in Clients \ {c} : session'[e] = session[e]
  BY <1>1, <1>2, GetsPin
<1> HIDE DEF c, p
<1>6. PinOfCall' /\ OneWriter' /\ NoneDirty'
  <2>1. \A e \in Clients : ~session[e].wrote
    BY <1>1 DEF TupleInv, CallState, OneWriter
  <2> QED
    BY <1>1, <1>5, <2>1 DEF PinOfCall, OneWriter, NoneDirty, c, p
<1>7. Arguments' /\ Progress'
  BY <1>1, <1>2, <1>4 DEF TupleInv, CallState, Arguments, Progress
<1>8. Now(TableFile, call.page)' = Now(TableFile, p)
  BY <1>1, <1>2, <1>3, TableType DEF Unnoticed, Now, p
<1>9. Quietness'
  <2> SUFFICES ASSUME quiet PROVE Quietness'
    BY <1>1 DEF Quietness
  <2>1. /\ call.caller \in Callers
        /\ \A e \in Clients : Active(e) /\ session[e].file = Table => e = call.caller
        /\ call.op = "insert" /\ FitsAPage => HasSpace(Now(TableFile, p), call.tuple)
    BY <1>1, <1>2 DEF TupleInv, CallState, Quietness, p
  <2>2. \A e \in Clients : Active(e)' /\ session'[e].file = Table => e = call'.caller
    BY <1>1, <1>5, <2>1 DEF Active, c
  <2>3. call'.op = "insert" /\ FitsAPage' => HasSpace(Now(TableFile, call.page), call.tuple)'
    BY <1>1, <1>8, <2>1 DEF FitsAPage, HasSpace
  <2> QED
    BY <1>1, <1>2, <2>1, <2>2, <2>3 DEF Quietness
<1> QED
  BY <1>4, <1>6, <1>7, <1>9 DEF CallState

LEMMA PinFailsStep ==
    ASSUME OneHandle, TupleInv, PinFails
    PROVE  CacheInv' /\ CallState' /\ TuplesNow' = TuplesNow
<1>1. /\ pc = "pin" /\ pc' = "threw"
      /\ ReadNoFrame(Table, call.page)
      /\ session' = session /\ call' = call /\ before' = before /\ quiet' = quiet
  BY DEF PinFails, ReadNoFrame
<1>2. /\ call.caller \in Clients /\ call.page \in PageIds /\ Table \in Handles
      /\ ~Ready /\ Ready'
  BY <1>1, TupleInvParts, TableType DEF Ready
<1>3. KeepingNext /\ SoundCache' /\ Unnoticed
  BY <1>1, <1>2, ReadNoFrameUnnoticed DEF KeepingNext, TupleInv
<1>4. CacheInv' /\ TuplesNow' = TuplesNow
  BY <1>3, PinKept, UnnoticedTuples DEF TupleInv, CacheInv
<1>5. /\ PinOfCall' /\ OneWriter' /\ NoneDirty'
      /\ Arguments' /\ Progress'
  BY <1>1, <1>2 DEF TupleInv, CallState, PinOfCall, OneWriter, NoneDirty, Arguments, Progress
<1>6. Quietness'
  BY <1>1, <1>2, <1>4 DEF TupleInv, CallState, Quietness, PinOfCall, Progress, Active
<1> QED
  BY <1>4, <1>5, <1>6 DEF CallState

-----------------------------------------------------------------------------
(* The pinned page is edited *)

\* The page that the call edits, as clients find it.
LEMMA EditedPage ==
    ASSUME OneHandle, TupleInv, pc = "edit"
    PROVE  /\ call.page \in PageIds /\ call.page \in InUse(Image)
           /\ Active(call.caller)
           /\ Pinned \in Data
           /\ Now(TableFile, call.page) = Pinned
<1>1. /\ call.caller \in Clients /\ Active(call.caller) /\ CacheInv
      /\ session[call.caller].file = Table /\ session[call.caller].page = call.page
  BY TupleInvParts DEF TupleInv, CallState, PinOfCall
<1> QED
  BY <1>1, PinnedContent DEF Pinned

\* One slot of the pinned page is written.
LEMMA EditStepTuples ==
    ASSUME OneHandle, TupleInv, pc = "edit", NEW s \in Slots,
           NEW t \in Tuples \cup {NoTuple},
           WritePinned(call.caller, [Pinned EXCEPT ![s] = t]),
           pc' = "unpin", call' = call, before' = before, quiet' = quiet
    PROVE  /\ CacheInv'
           /\ <<call.page, s>> \in RecordIds
           /\ TuplesNow[<<call.page, s>>] = Pinned[s]
           /\ TuplesNow' = [TuplesNow EXCEPT ![<<call.page, s>>] = t]
           /\ PinOfCall' /\ OneWriter' /\ NoneDirty' /\ Arguments' /\ Quietness'
<1> DEFINE c == call.caller
           d == Pinned
           e == [d EXCEPT ![s] = t]
<1>1. /\ c \in Clients /\ IInv
      /\ session[c].file = Table /\ session[c].page = call.page
  BY TupleInvParts DEF TupleInv, CallState, PinOfCall
<1>2. /\ call.page \in PageIds
      /\ d \in Data
      /\ Now(TableFile, call.page) = d
  BY EditedPage
<1> HIDE DEF c, d
<1>3. e \in Data
  BY <1>2, ContentsAssumption DEF Contents
<1>4. WritePinned(c, e)
  BY DEF c, d
<1> HIDE DEF e
<1>5. KeepingNext /\ SoundCache' /\ Becomes(TableFile, call.page, e)
  BY <1>1, <1>3, <1>4, WritePinnedWrites DEF KeepingNext, TupleInv, TableFile
<1>6. CacheInv'
  BY <1>5, PinKept DEF TupleInv, CacheInv
<1>7. /\ TuplesNow[<<call.page, s>>] = d[s]
      /\ TuplesNow' = [TuplesNow EXCEPT ![<<call.page, s>>] = t]
  BY <1>2, <1>3, <1>5, <1>6, EditedTuples DEF TupleInv, e
<1>8. /\ session'[c] # Idle
      /\ session'[c].file = Table /\ session'[c].page = call.page
      /\ \A x \in Clients \ {c} : session'[x] = session[x]
  BY <1>1, <1>4, WritesPinned
<1>9. ~Ready /\ ~Ready' /\ \A x \in Clients : ~session[x].wrote
  BY DEF TupleInv, CallState, OneWriter, Ready
<1>10. PinOfCall' /\ OneWriter' /\ NoneDirty'
  BY <1>8, <1>9 DEF PinOfCall, OneWriter, NoneDirty, Active, c
<1>11. Arguments'
  BY <1>9 DEF TupleInv, CallState, Arguments
<1>12. Quietness'
  BY <1>8, <1>9 DEF TupleInv, CallState, Quietness, Active, c
<1> QED
  BY <1>2, <1>6, <1>7, <1>10, <1>11, <1>12 DEF RecordIds, d

\* The slot that insertRecord takes is free.
LEMMA FirstFreeIsFree ==
    ASSUME NEW d, NEW t, HasSpace(d, t)
    PROVE  FirstFree(d) \in Slots /\ d[FirstFree(d)] = NoTuple
<1>1. FreeSlots(d) \in SUBSET Nat /\ FreeSlots(d) # {}
  BY SlotsAssumption, FitsAssumption DEF HasSpace, FreeSlots, Slots
<1>2. \E s \in FreeSlots(d) : \A x \in FreeSlots(d) : s <= x
  BY <1>1, LeastNatural
<1>3. FirstFree(d) \in FreeSlots(d)
  BY <1>2 DEF FirstFree
<1> QED
  BY <1>3 DEF FreeSlots

LEMMA InsertRecordStep ==
    ASSUME OneHandle, TupleInv, InsertRecord
    PROVE  /\ CacheInv' /\ CallState'
           /\ \E r \in RecordIds : Heap!Insert(r, call.tuple)
           /\ call.tuple \in Tuples
<1> DEFINE s == FirstFree(Pinned)
           r == <<call.page, s>>
<1>1. /\ pc = "edit" /\ call.op = "insert" /\ pc' = "unpin"
      /\ HasSpace(Pinned, call.tuple)
      /\ WritePinned(call.caller, [Pinned EXCEPT ![s] = call.tuple])
      /\ call' = call /\ before' = before /\ quiet' = quiet
  BY DEF InsertRecord
<1>2. s \in Slots /\ Pinned[s] = NoTuple
  BY <1>1, FirstFreeIsFree
<1>3. /\ call.tuple \in Tuples /\ TuplesNow = before /\ ~Ready
  BY <1>1 DEF TupleInv, CallState, Arguments, Progress, Ready
<1> HIDE DEF s
<1>4. /\ CacheInv'
      /\ r \in RecordIds
      /\ TuplesNow[r] = Pinned[s]
      /\ TuplesNow' = [TuplesNow EXCEPT ![r] = call.tuple]
      /\ PinOfCall' /\ OneWriter' /\ NoneDirty' /\ Arguments' /\ Quietness'
  BY <1>1, <1>2, <1>3, EditStepTuples
<1> HIDE DEF r
<1>5. Heap!Insert(r, call.tuple)
  BY <1>2, <1>4 DEF Heap!Insert
<1>6. WorkDone'
  BY <1>1, <1>2, <1>3, <1>4 DEF WorkDone
<1>7. Progress'
  BY <1>1, <1>6 DEF Progress
<1> QED
  BY <1>3, <1>4, <1>5, <1>7 DEF CallState

LEMMA DeleteRecordStep ==
    ASSUME OneHandle, TupleInv, DeleteRecord
    PROVE  /\ CacheInv' /\ CallState'
           /\ \E r \in RecordIds : Heap!Delete(r)
<1> DEFINE r == call.rid
           s == r[2]
<1>1. /\ pc = "edit" /\ call.op = "delete" /\ pc' = "unpin"
      /\ call.page = r[1] /\ Pinned[s] # NoTuple
      /\ WritePinned(call.caller, [Pinned EXCEPT ![s] = NoTuple])
      /\ call' = call /\ before' = before /\ quiet' = quiet
  BY DEF DeleteRecord, Here
<1>2. r \in RecordIds /\ TuplesNow = before
  BY <1>1 DEF TupleInv, CallState, Arguments, Progress
<1>3. s \in Slots /\ r = <<call.page, s>>
  BY <1>1, <1>2 DEF RecordIds
<1> HIDE DEF r, s
<1>4. /\ CacheInv'
      /\ TuplesNow[r] = Pinned[s]
      /\ TuplesNow' = [TuplesNow EXCEPT ![r] = NoTuple]
      /\ PinOfCall' /\ OneWriter' /\ NoneDirty' /\ Arguments' /\ Quietness'
  BY <1>1, <1>3, EditStepTuples
<1>5. Heap!Delete(r)
  BY <1>1, <1>4 DEF Heap!Delete
<1>6. Progress'
  BY <1>1, <1>2, <1>4 DEF Progress, WorkDone, r
<1> QED
  BY <1>2, <1>4, <1>5, <1>6 DEF CallState

LEMMA InsertRecordFailsStep ==
    ASSUME OneHandle, TupleInv, InsertRecordFails
    PROVE  CacheInv' /\ CallState' /\ TuplesNow' = TuplesNow
<1>1. /\ pc = "edit" /\ call.op = "insert" /\ pc' = "threw"
      /\ ~HasSpace(Pinned, call.tuple)
      /\ UNCHANGED vars /\ session' = session
      /\ call' = call /\ before' = before /\ quiet' = quiet
  BY DEF InsertRecordFails, vars
<1>2. CacheInv' /\ TuplesNow' = TuplesNow
  <2>1. UNCHANGED <<bufDescTable, bufPool, disk, session>>
    BY <1>1 DEF vars, pool
  <2>2. CacheInv'
    BY <1>1, <2>1, PinKept, PoolUntouched DEF TupleInv, CacheInv
  <2> QED
    BY <2>1, <2>2, PoolUntouched, UnnoticedTuples DEF TupleInv
<1>3. ~quiet \/ ~FitsAPage
  BY <1>1, EditedPage DEF TupleInv, CallState, Quietness
<1> QED
  BY <1>1, <1>2, <1>3 DEF TupleInv, CallState, PinOfCall, OneWriter, NoneDirty, Arguments,
     Progress, Quietness, Ready, FitsAPage

\* A deletion that does not find its record in one page goes on to the next
\* page of the file, and gives up after the last.
LEMMA NotHereStep ==
    ASSUME OneHandle, TupleInv, NotHere
    PROVE  CacheInv' /\ CallState' /\ TuplesNow' = TuplesNow
<1> DEFINE c == call.caller
           p == call.page
           r == call.rid
           next == Image.page[p].next
<1>1. /\ pc = "edit" /\ call.op = "delete" /\ ~Here
      /\ UnPin(c, FALSE)
      /\ call' = [call EXCEPT !.page = Successor(Image, @)]
      /\ pc' = IF call'.page = NoPage THEN "flush" ELSE "pin"
      /\ before' = before /\ quiet' = quiet
  BY DEF NotHere
<1>2. /\ IInv /\ c \in Clients /\ call \in Call /\ Image \in FileImage
      /\ ListsExact(Image)
  BY TupleInvParts
<1>3. /\ p \in PageIds /\ p \in InUse(Image)
      /\ Pinned \in Data
      /\ Now(TableFile, p) = Pinned
  BY <1>1, EditedPage
<1>4. /\ call'.caller = c /\ call'.op = "delete" /\ call'.rid = r /\ call'.page = next
      /\ call'.tuple = call.tuple
  BY <1>1, <1>2, <1>3, PageNumbers DEF Call, Successor
<1>5. KeepingNext /\ SoundCache' /\ Unnoticed
  BY <1>1, <1>2, UnPinUnnoticed DEF KeepingNext, TupleInv
<1>6. CacheInv' /\ TuplesNow' = TuplesNow
  BY <1>5, PinKept, UnnoticedTuples DEF TupleInv, CacheInv
<1>7. /\ session'[c] = Idle
      /\ \A e \in Clients \ {c} : session'[e] = session[e]
  BY <1>1, <1>2 DEF UnPin, IInv, IsRest
<1>8. /\ r \in RecordIds /\ TuplesNow = before /\ ~Ready
      /\ before[r] # NoTuple => p <= r[1]
      /\ \A e \in Clients : ~session[e].wrote
  BY <1>1 DEF TupleInv, CallState, Arguments, Progress, OneWriter, Ready
<1>9. TuplesNow[r] # NoTuple => next # NoPage /\ next <= r[1]
  <2> SUFFICES ASSUME TuplesNow[r] # NoTuple PROVE next # NoPage /\ next <= r[1]
    OBVIOUS
  <2>1. r[1] \in InUse(Image) /\ p <= r[1] /\ r[1] \in Nat /\ p \in Nat
    BY <1>3, <1>8, TupleIsInUse, InUseType DEF TupleInv
  <2>2. r[1] # p
    <3>1. TuplesNow[r] = TupleIn(Now(TableFile, r[1]), r[2])
      BY <1>8, TuplesAre DEF TupleInv
    <3>2. Pinned # NoData
      BY <1>3, NoPageDataAssumption
    <3> QED
      BY <1>1, <1>3, <3>1, <3>2 DEF TupleIn, Here
  <2>3. Follows(InUse(Image), p, next)
    BY <1>2, <1>3 DEF ListsExact, Linked
  <2>4. ~(r[1] <= p)
    BY <2>1, <2>2
  <2> HIDE DEF next, p
  <2> QED
    BY <2>1, <2>3, <2>4 DEF Follows
<1>10. TuplesNow \in [RecordIds -> Tuples \cup {NoTuple}]
  BY TuplesType, TupleInvParts
<1> HIDE DEF c, p, r, next
<1>11. next = NoPage => WorkDone'
  <2> SUFFICES ASSUME next = NoPage PROVE TuplesNow' = [before' EXCEPT ![call'.rid] = NoTuple]
    BY <1>4 DEF WorkDone
  <2>1. TuplesNow = [TuplesNow EXCEPT ![r] = NoTuple]
    BY <1>9, <1>10
  <2> QED
    BY <1>1, <1>4, <1>6, <1>8, <2>1
<1>12. PinOfCall' /\ OneWriter' /\ NoneDirty'
  BY <1>1, <1>4, <1>7, <1>8, IdleType DEF PinOfCall, OneWriter, NoneDirty, Active
<1>13. Arguments' /\ Progress'
  BY <1>1, <1>4, <1>6, <1>8, <1>9, <1>11 DEF Arguments, Progress
<1>14. Quietness'
  BY <1>1, <1>4, <1>7, <1>8 DEF TupleInv, CallState, Quietness, Ready, Active, c
<1> QED
  BY <1>6, <1>12, <1>13, <1>14 DEF CallState

-----------------------------------------------------------------------------
(* The page is unpinned, and the file is flushed *)

LEMMA UnpinEditedStep ==
    ASSUME OneHandle, TupleInv, UnpinEdited
    PROVE  CacheInv' /\ CallState' /\ TuplesNow' = TuplesNow
<1> DEFINE c == call.caller
<1>1. /\ pc = "unpin" /\ pc' = "flush"
      /\ UnPin(c, TRUE)
      /\ call' = call /\ before' = before /\ quiet' = quiet
  BY DEF UnpinEdited
<1>2. IInv /\ c \in Clients
  BY TupleInvParts
<1>3. KeepingNext /\ SoundCache' /\ Unnoticed
  BY <1>1, <1>2, UnPinUnnoticed DEF KeepingNext, TupleInv
<1>4. CacheInv' /\ TuplesNow' = TuplesNow
  BY <1>3, PinKept, UnnoticedTuples DEF TupleInv, CacheInv
<1>5. /\ session'[c] = Idle
      /\ \A e \in Clients \ {c} : session'[e] = session[e]
  BY <1>1, <1>2 DEF UnPin, IInv, IsRest
<1>6. ~Ready /\ ~Ready' /\ \A e \in Clients \ {c} : ~session[e].wrote
  BY <1>1 DEF TupleInv, CallState, OneWriter, Ready
<1> HIDE DEF c
<1>7. PinOfCall' /\ OneWriter' /\ NoneDirty'
  BY <1>1, <1>5, <1>6, IdleType DEF PinOfCall, OneWriter, NoneDirty, Active, c
<1>8. WorkDone'
  BY <1>1, <1>4 DEF TupleInv, CallState, Progress, WorkDone
<1>9. Arguments' /\ Progress'
  BY <1>1, <1>6, <1>8 DEF TupleInv, CallState, Arguments, Progress
<1>10. Quietness'
  BY <1>1, <1>5, <1>6 DEF TupleInv, CallState, Quietness, Active, c
<1> QED
  BY <1>4, <1>7, <1>9, <1>10 DEF CallState

\* Nothing stops the flush of a file that nobody has a page of pinned.
LEMMA QuietFlush ==
    ASSUME OneHandle, TupleInv, pc = "flush", quiet
    PROVE  ~FlushThrows
<1> SUFFICES ASSUME NEW f \in FramesOf(Table), StopsFlush(f) PROVE FALSE
  BY DEF FlushThrows
<1>1. /\ PinInv /\ IsPool(bufDescTable, hash, bufPool) /\ Stored(bufDescTable, disk)
      /\ f \in Frames /\ bufDescTable[f].file = Table
  BY TupleInvParts DEF FramesOf, SoundCache
<1>2. bufDescTable[f].valid
  BY <1>1, DescType, TableAssumption, NoHandleAssumption DEF IsPool
<1>3. ~(bufDescTable[f].pinCnt > 0)
  <2> SUFFICES ASSUME bufDescTable[f].pinCnt > 0 PROVE FALSE
    OBVIOUS
  <2>1. Cardinality({c \in Clients : session[c].frame = f}) # 0
    BY <1>1 DEF PinInv, PinsCounted
  <2>2. PICK c \in Clients : session[c].frame = f
    BY <2>1, FS_EmptySet
  <2>3. Active(c) /\ session[c].file = Table
    BY <1>1, <2>2, OwnerIsActive DEF PinInv, PinnedPageStays
  <2> QED
    BY <2>3 DEF TupleInv, CallState, Quietness, PinOfCall, Ready
<1>4. ~WriteBackThrows(disk, f)
  <2>1. bufPool[f].num \in InUse(disk[FileIn(f)])
    BY <1>1, <1>2, FramePage DEF Stored, FileIn
  <2> QED
    BY <2>1 DEF WriteBackThrows, WriteThrows, InUse
<1> QED
  BY <1>2, <1>3, <1>4 DEF StopsFlush

LEMMA FlushStep ==
    ASSUME OneHandle, TupleInv, Flush
    PROVE  /\ CacheInv' /\ CallState' /\ TuplesNow' = TuplesNow
           /\ WorkDone'
<1>1. /\ pc = "flush" /\ pc' = IF FlushThrows THEN "threw" ELSE "returned"
      /\ FlushFile(Table) \/ (Flushed(Table) = {} /\ UNCHANGED vars)
      /\ session' = session /\ call' = call /\ before' = before /\ quiet' = quiet
  BY DEF Flush, FlushFile, vars
<1>2. [KeepingNext]_vars /\ SoundCache' /\ Unnoticed
  <2>1. CASE FlushFile(Table)
    BY <2>1, FlushUnnoticed, TableType DEF KeepingNext, TupleInv
  <2>2. CASE UNCHANGED vars
    BY <2>2, PoolUntouched DEF vars, pool, TupleInv
  <2> QED
    BY <1>1, <2>1, <2>2
<1>3. CacheInv' /\ TuplesNow' = TuplesNow
  BY <1>2, PinKept, UnnoticedTuples DEF TupleInv, CacheInv
<1>4. ~Ready /\ Ready' /\ ~Active(call.caller) /\ WorkDone
      /\ \A e \in Clients : ~session[e].wrote
  BY <1>1 DEF TupleInv, CallState, OneWriter, PinOfCall, Progress, Ready
<1>5. WorkDone'
  BY <1>1, <1>3, <1>4 DEF WorkDone
<1>6. PinOfCall' /\ OneWriter' /\ Arguments' /\ Progress'
  BY <1>1, <1>4 DEF TupleInv, CallState, PinOfCall, OneWriter, Arguments, Progress, Ready
<1>7. ASSUME ~FlushThrows, NEW f \in FramesOf(Table)' PROVE ~bufDescTable'[f].dirty
  <2>1. Flushed(Table) = FramesOf(Table)
    BY <1>7 DEF Flushed, FlushThrows
  <2>2. f \in Frames /\ bufDescTable'[f].file = Table
    BY DEF FramesOf
  <2>3. CASE FlushFile(Table)
    <3>1. bufDescTable'[f] = IF f \in FramesOf(Table) THEN Clear ELSE bufDescTable[f]
      BY <2>1, <2>2, <2>3 DEF FlushFile
    <3> QED
      BY <2>2, <3>1 DEF FramesOf, Clear
  <2>4. CASE Flushed(Table) = {} /\ UNCHANGED vars
    BY <2>1, <2>2, <2>4 DEF vars, pool, FramesOf
  <2> QED
    BY <1>1, <2>3, <2>4
<1>8. NoneDirty'
  BY <1>1, <1>7 DEF NoneDirty
<1>9. Quietness'
  <2>1. quiet => pc' = "returned"
    BY <1>1, QuietFlush
  <2> QED
    BY <1>1, <1>4, <2>1 DEF TupleInv, CallState, Quietness, Active
<1> QED
  BY <1>3, <1>5, <1>6, <1>8, <1>9 DEF CallState

-----------------------------------------------------------------------------
(* Between two calls *)

\* What another client does between two calls leaves the ended call alone.
LEMMA OthersKeep ==
    ASSUME TupleInv, NEW c \in Others, Ready, UNCHANGED heapVars,
           CacheInv', TuplesNow' = TuplesNow, ~session'[c].wrote,
           \A e \in Clients \ {c} : session'[e] = session[e],
           \A f \in Frames :
              bufDescTable'[f].file = Table /\ bufDescTable'[f].dirty
                 => bufDescTable[f].file = Table /\ bufDescTable[f].dirty
    PROVE  CallState'
<1>1. /\ pc' = pc /\ call' = call /\ before' = before /\ quiet' = quiet
      /\ pc \in {"returned", "threw"} /\ Ready'
      /\ c \in Clients /\ c \notin Callers
  BY DEF heapVars, Ready, Others
<1>2. PinOfCall' /\ Arguments' /\ Progress'
  BY <1>1 DEF TupleInv, CallState, PinOfCall, Arguments, Progress
<1>3. OneWriter'
  BY <1>1 DEF TupleInv, CallState, OneWriter
<1>4. NoneDirty'
  BY <1>1 DEF TupleInv, CallState, NoneDirty, FramesOf
<1>5. Quietness'
  BY <1>1, CallersAssumption DEF TupleInv, CallState, Quietness, Active, FitsAPage
<1> QED
  BY <1>2, <1>3, <1>4, <1>5 DEF CallState

\* No page of the file changes, comes or goes.
TableKept == \A p \in PageIds : Now(TableFile, p)' = Now(TableFile, p)

LEMMA OtherClientsStep ==
    ASSUME OneHandle, TupleInv, OtherClients
    PROVE  CacheInv' /\ CallState' /\ TuplesNow' = TuplesNow /\ TableKept
<1>1. Ready /\ UNCHANGED heapVars /\ IInv /\ CacheInv
  BY TupleInvParts DEF OtherClients, TupleInv
<1>2. ASSUME NEW c \in Others, NEW h \in Handles, NEW p \in PageIds,
             ReadHit(c, h, p) \/ ReadMiss(c, h, p)
      PROVE  CacheInv' /\ CallState' /\ TuplesNow' = TuplesNow /\ TableKept
  <2>1. c \in Clients
    BY DEF Others
  <2>2. KeepingNext /\ SoundCache' /\ Unnoticed
    BY <1>1, <1>2, <2>1, ReadHitUnnoticed, ReadMissUnnoticed DEF KeepingNext
  <2>3. CacheInv' /\ TuplesNow' = TuplesNow /\ TableKept
    BY <1>1, <2>2, PinKept, UnnoticedTuples, TableType DEF CacheInv, Unnoticed, TableKept
  <2>4. ~session'[c].wrote /\ \A e \in Clients \ {c} : session'[e] = session[e]
    BY <1>1, <1>2, <2>1, GetsPin
  <2>5. \A f \in Frames :
           bufDescTable'[f].file = Table /\ bufDescTable'[f].dirty
              => bufDescTable[f].file = Table /\ bufDescTable[f].dirty
    BY <1>1, <1>2, <2>1, StaysClean
  <2> QED
    BY <1>1, <2>3, <2>4, <2>5, OthersKeep
<1>3. ASSUME NEW c \in Others, NEW h \in Handles, FileOf[h] # TableFile, AllocPage(c, h)
      PROVE  CacheInv' /\ CallState' /\ TuplesNow' = TuplesNow /\ TableKept
  <2>1. c \in Clients /\ NewNumber(h) \in PageIds
    BY <1>3 DEF Others, AllocPage, CanAllocate, NewNumber
  <2>2. KeepingNext /\ SoundCache' /\ Becomes(FileOf[h], NewNumber(h), EmptyData)
    BY <1>1, <1>3, <2>1, AllocPageEmpty DEF KeepingNext
  <2>3. CacheInv'
    BY <1>1, <2>2, PinKept DEF CacheInv
  <2>4. TableKept
    BY <1>3, <2>2, TableType DEF Becomes, TableKept
  <2>5. TuplesNow' = TuplesNow
    BY <1>1, <2>3, <2>4, SameTuples DEF TableKept
  <2>6. ~session'[c].wrote /\ \A e \in Clients \ {c} : session'[e] = session[e]
    BY <1>1, <1>3, <2>1, GetsPin
  <2>7. \A f \in Frames :
           bufDescTable'[f].file = Table /\ bufDescTable'[f].dirty
              => bufDescTable[f].file = Table /\ bufDescTable[f].dirty
    BY <1>1, <1>3, <2>1, StaysClean
  <2> QED
    BY <1>1, <2>3, <2>4, <2>5, <2>6, <2>7, OthersKeep
<1>4. ASSUME NEW c \in Others, UnPin(c, FALSE)
      PROVE  CacheInv' /\ CallState' /\ TuplesNow' = TuplesNow /\ TableKept
  <2>1. c \in Clients
    BY DEF Others
  <2>2. KeepingNext /\ SoundCache' /\ Unnoticed
    BY <1>1, <1>4, <2>1, UnPinUnnoticed DEF KeepingNext
  <2>3. CacheInv' /\ TuplesNow' = TuplesNow /\ TableKept
    BY <1>1, <2>2, PinKept, UnnoticedTuples, TableType DEF CacheInv, Unnoticed, TableKept
  <2>4. ~session'[c].wrote /\ \A e \in Clients \ {c} : session'[e] = session[e]
    BY <1>1, <1>4, <2>1, GivesPinBack
  <2>5. \A f \in Frames :
           bufDescTable'[f].file = Table /\ bufDescTable'[f].dirty
              => bufDescTable[f].file = Table /\ bufDescTable[f].dirty
    BY <1>1, <1>4, <2>1, StaysClean
  <2> QED
    BY <1>1, <2>3, <2>4, <2>5, OthersKeep
<1> QED
  BY <1>2, <1>3, <1>4 DEF OtherClients

LEMMA NewProgramStep ==
    ASSUME OneHandle, TupleInv, NewProgram
    PROVE  CacheInv' /\ CallState' /\ TuplesNow' = TuplesNow /\ TableKept
<1>1. /\ Ready /\ Restart
      /\ pc' = pc /\ call' = call /\ before' = before /\ quiet' = quiet
      /\ pc \in {"returned", "threw"} /\ Ready'
      /\ call.caller \in Clients
  BY TupleInvParts DEF NewProgram, heapVars, Ready
<1>2. \A c \in Clients : ~session[c].wrote
  BY <1>1 DEF TupleInv, CallState, OneWriter, Ready
<1>3. SoundCache' /\ Unnoticed
  BY <1>1, <1>2, RestartUnnoticed DEF TupleInv
<1>4. CacheInv' /\ TuplesNow' = TuplesNow /\ TableKept
  BY <1>1, <1>3, PinKept, UnnoticedTuples, TableType
  DEF TupleInv, CacheInv, KeepingNext, Unnoticed, TableKept
<1>5. /\ \A c \in Clients : session'[c] = Idle
      /\ \A f \in Frames : bufDescTable'[f] = Clear
  BY <1>1 DEF Restart
<1>6. PinOfCall' /\ Arguments' /\ Progress'
  BY <1>1 DEF TupleInv, CallState, PinOfCall, Arguments, Progress
<1>7. OneWriter' /\ NoneDirty'
  BY <1>5, IdleType DEF OneWriter, NoneDirty, FramesOf, Clear
<1>8. Quietness'
  BY <1>1, <1>4, <1>5 DEF TupleInv, CallState, Quietness, Active, FitsAPage
<1> QED
  BY <1>4, <1>6, <1>7, <1>8 DEF CallState

LEMMA HeapStutter ==
    ASSUME OneHandle, TupleInv, UNCHANGED allVars
    PROVE  CacheInv' /\ CallState' /\ TuplesNow' = TuplesNow
<1>1. /\ UNCHANGED vars /\ UNCHANGED <<bufDescTable, bufPool, disk, session>>
      /\ pc' = pc /\ call' = call /\ before' = before /\ quiet' = quiet
  BY DEF allVars, heapVars, vars, pool
<1>2. CacheInv' /\ TuplesNow' = TuplesNow
  <2>1. CacheInv'
    BY <1>1, PinKept, PoolUntouched DEF TupleInv, CacheInv
  <2> QED
    BY <1>1, <2>1, PoolUntouched, UnnoticedTuples DEF TupleInv
<1>3. PinOfCall' /\ OneWriter' /\ NoneDirty' /\ Arguments'
  BY <1>1 DEF TupleInv, CallState, PinOfCall, OneWriter, NoneDirty, Arguments, Ready,
     Active, FramesOf
<1>4. Progress'
  BY <1>1, <1>2 DEF TupleInv, CallState, Progress, WorkDone
<1>5. Quietness'
  <2>1. Now(TableFile, call.page)' = Now(TableFile, call.page)
    BY <1>1 DEF Now
  <2> QED
    BY <1>1, <1>2, <2>1 DEF TupleInv, CallState, Quietness, Ready, Active, HasSpace,
       FitsAPage
<1> QED
  BY <1>2, <1>3, <1>4, <1>5 DEF CallState

-----------------------------------------------------------------------------
(* The invariant is inductive *)

\* A new heap file has no tuple in it.
LEMMA TupleInit ==
    ASSUME OneHandle, HeapInit
    PROVE  TupleInv /\ Heap!Init
<1>1. CacheInv /\ CallInv /\ pc = "returned" /\ ~quiet
  BY CacheInit, HeapInvInit DEF HeapInit, HeapInv
<1>2. /\ \A c \in Clients : session[c] = Idle
      /\ \A f \in Frames : bufDescTable[f] = Clear
      /\ disk = [n \in Files |-> NewFile]
      /\ call.op = "insert"
  BY DEF HeapInit, Init
<1>3. PinOfCall /\ OneWriter /\ NoneDirty /\ Arguments /\ Progress /\ Quietness
  BY <1>1, <1>2, IdleType
  DEF PinOfCall, OneWriter, NoneDirty, FramesOf, Clear, Arguments, Progress, Quietness, Ready
<1>4. \A p \in PageIds : Now(TableFile, p) = NoData
  BY <1>2, NewFileFree, TableType DEF Now, Value
<1>5. TuplesNow = [r \in RecordIds |-> NoTuple]
  <2>1. \A r \in RecordIds : TupleIn(Now(TableFile, r[1]), r[2]) = NoTuple
    BY <1>4 DEF RecordIds, TupleIn
  <2> QED
    BY <1>1, <2>1, TuplesAre
<1> QED
  BY <1>1, <1>3, <1>5 DEF TupleInv, CallState, Heap!Init

\* Every step keeps the invariant, and changes at most one tuple, as a record
\* store does.
LEMMA TupleStep ==
    ASSUME OneHandle, TupleInv, [HeapNext]_allVars
    PROVE  TupleInv' /\ [Heap!Next]_TuplesNow
<1>1. CallInv'
  BY HeapInvNext, TupleInvParts DEF HeapInv, TupleInv
<1>2. CASE InsertRecord
  BY <1>1, <1>2, InsertRecordStep DEF TupleInv, Heap!Next
<1>3. CASE DeleteRecord
  BY <1>1, <1>3, DeleteRecordStep DEF TupleInv, Heap!Next
<1>4. ASSUME ~InsertRecord, ~DeleteRecord
      PROVE  CacheInv' /\ CallState' /\ TuplesNow' = TuplesNow
  <2>1. ASSUME NEW c \in Callers, NEW t \in Tuples,
               BeginInsert(c, t) \/ BeginInsertInNewPage(c, t)
        PROVE  CacheInv' /\ CallState' /\ TuplesNow' = TuplesNow
    BY <2>1, BeginInsertStep, BeginInsertInNewPageStep
  <2>2. ASSUME NEW c \in Callers, NEW r \in RecordIds, BeginDelete(c, r)
        PROVE  CacheInv' /\ CallState' /\ TuplesNow' = TuplesNow
    BY <2>2, BeginDeleteStep
  <2>3. CASE Pin \/ PinFails
    BY <2>3, PinStep, PinFailsStep
  <2>4. CASE InsertRecordFails \/ NotHere
    BY <2>4, InsertRecordFailsStep, NotHereStep
  <2>5. CASE UnpinEdited \/ Flush
    BY <2>5, UnpinEditedStep, FlushStep
  <2>6. CASE OtherClients \/ NewProgram
    BY <2>6, OtherClientsStep, NewProgramStep
  <2>7. CASE UNCHANGED allVars
    BY <2>7, HeapStutter
  <2> QED
    BY <1>4, <2>1, <2>2, <2>3, <2>4, <2>5, <2>6, <2>7 DEF HeapNext
<1> QED
  BY <1>1, <1>2, <1>3, <1>4 DEF TupleInv

-----------------------------------------------------------------------------
(* What the calls promise *)

LEMMA TupleInvariant ==
    ASSUME OneHandle
    PROVE  HeapSpec => []TupleInv
<1>1. HeapInit => TupleInv
  BY TupleInit
<1>2. TupleInv /\ [HeapNext]_allVars => TupleInv'
  BY TupleStep
<1> QED
  BY <1>1, <1>2, PTL DEF HeapSpec

\* When the heap file is read through one File object, a tuple is found under
\* its record id, unchanged, until it is deleted by that id: no insertion takes
\* the slot of another tuple, and none is lost when its page leaves the pool,
\* when a call throws or when the program ends, whatever the other clients of
\* the pool pin in between.
THEOREM TuplesAreKept ==
    ASSUME OneHandle
    PROVE  HeapSpec => HeapImplemented
<1>1. HeapSpec => []TupleInv
  BY TupleInvariant
<1>2. HeapInit => Heap!Init
  BY TupleInit
<1>3. TupleInv /\ [HeapNext]_allVars => [TuplesNow' # TuplesNow => Heap!Next]_allVars
  BY TupleStep
<1> QED
  BY <1>1, <1>2, <1>3, PTL DEF HeapSpec, HeapImplemented

\* When a call has returned, the file holds what the pool holds, so the search
\* of the next insertion through the file is not misled.
THEOREM ReturnedCallsAreWritten ==
    ASSUME OneHandle
    PROVE  HeapSpec => []ReturnedIsWritten
<1>1. HeapSpec => []TupleInv
  BY TupleInvariant
<1>2. ASSUME TupleInv PROVE ReturnedIsWritten
  <2> SUFFICES ASSUME pc = "returned", NEW p \in InUse(Image)
               PROVE  Content(TableFile, p) = Image.page[p].data
    BY DEF ReturnedIsWritten
  <2>1. Now(TableFile, p) = Image.page[p].data
    BY <1>2, ReturnedMatches DEF TupleInv, CallState
  <2>2. Content(TableFile, p) = Now(TableFile, p)
    BY <1>2, ContentIsNow, InUseType DEF TupleInv
  <2> QED
    BY <2>1, <2>2
<1> QED
  BY <1>1, <1>2, PTL

\* A call that begins after one that returned, while nobody has a page of the
\* file pinned, and that does not insert a tuple longer than a page, gives its pin back on every path and has changed no tuple when
\* it throws, however many pages of other files are pinned: trying it again
\* inserts nothing twice.
THEOREM QuietCallsAreClean ==
    ASSUME OneHandle
    PROVE  HeapSpec => []CallsAreClean
<1>1. HeapSpec => []TupleInv
  BY TupleInvariant
<1>2. TupleInv => CallsAreClean
  BY DEF TupleInv, CallState, Quietness, CallsAreClean
<1> QED
  BY <1>1, <1>2, PTL

\* A call that returns has done its work and nothing else, from the state in
\* which it began: insertTuple has added its tuple under an id that had none,
\* deleteTuple has removed the one under its id wherever in the file it was.
THEOREM ReturnedCallsDidTheirWork ==
    ASSUME OneHandle
    PROVE  HeapSpec => CallsDoTheirWork
<1>1. HeapSpec => []TupleInv
  BY TupleInvariant
<1>2. ASSUME TupleInv, [HeapNext]_allVars, ~Ready, pc' = "returned" PROVE WorkDone'
  <2>1. Flush
    BY <1>2 DEF HeapNext, BeginInsert, BeginInsertInNewPage, BeginDelete, Begins, Pin, PinFails,
       InsertRecord, InsertRecordFails, DeleteRecord, NotHere, UnpinEdited, OtherClients,
       NewProgram, Ready, allVars, heapVars
  <2> QED
    BY <1>2, <2>1, FlushStep
<1>3. TupleInv /\ [HeapNext]_allVars
         => [~Ready /\ pc' = "returned" => WorkDone']_allVars
  BY <1>2
<1> QED
  BY <1>1, <1>3, PTL DEF HeapSpec, CallsDoTheirWork

\* The pages in use are those in which clients find something.
LEMMA TablePages ==
    ASSUME OneHandle, CacheInv, CacheInv', TableKept
    PROVE  InUse(Image)' = InUse(Image)
<1>1. /\ IsPool(bufDescTable, hash, bufPool) /\ IsDisk(disk)
      /\ IsPool(bufDescTable', hash', bufPool') /\ IsDisk(disk')
  BY DEF CacheInv, PinInv, IInv
<1>2. ASSUME NEW p \in PageIds PROVE p \in InUse(disk'[TableFile]) <=> p \in InUse(disk[TableFile])
  <2>1. Value(bufDescTable', bufPool', disk', TableFile, p)
           = Value(bufDescTable, bufPool, disk, TableFile, p)
    BY DEF TableKept, Now
  <2>2. Value(bufDescTable, bufPool, disk, TableFile, p) # NoData
           <=> p \in InUse(disk[TableFile])
    BY <1>1, ValueIsContent, TableType
  <2>3. Value(bufDescTable', bufPool', disk', TableFile, p) # NoData
           <=> p \in InUse(disk'[TableFile])
    BY <1>1, ValueIsContent, TableType
  <2> QED
    BY <2>1, <2>2, <2>3
<1> QED
  BY <1>2 DEF InUse, Image

\* A page that is read or written back is no new page.
LEMMA PoolStepsKeepPages ==
    ASSUME OneHandle, TupleInv, TupleInv', Pin \/ Flush
    PROVE  InUse(Image)' = InUse(Image)
<1>1. CacheInv /\ CacheInv' /\ call.caller \in Clients /\ Table \in Handles
  BY TupleInvParts, TableType DEF TupleInv
<1>2. Unnoticed
  <2>1. CASE Pin
    <3>1. call.page \in PageIds
      BY <2>1, TupleInvParts DEF Pin
    <3> QED
      BY <1>1, <2>1, <3>1, ReadHitUnnoticed, ReadMissUnnoticed DEF Pin
  <2>2. CASE Flush
    BY <1>1, <2>2, FlushUnnoticed, PoolUntouched DEF Flush, vars, pool
  <2> QED
    BY <2>1, <2>2
<1>3. TableKept
  BY <1>2, TableType DEF Unnoticed, TableKept
<1> QED
  BY <1>1, <1>3, TablePages

\* The file gets a new page only when no page of it has room for the tuple, so
\* that a page which a failed insertion has left behind is found and filled by
\* the next try; after a call that returned, no page in the pool has room either.
THEOREM FileGrowsWhenFull ==
    ASSUME OneHandle
    PROVE  HeapSpec => GrowsOnlyWhenFull
<1>1. HeapSpec => []TupleInv
  BY TupleInvariant
<1>2. ASSUME TupleInv, TupleInv', [HeapNext]_allVars,
             InUse(Image)' # InUse(Image), NEW p \in InUse(Image)
      PROVE  /\ ~HasSpace(Image.page[p].data, call'.tuple)
             /\ pc = "returned" => ~HasSpace(Content(TableFile, p), call'.tuple)
  <2>1. p \in PageIds /\ (pc = "returned" => Content(TableFile, p) = Image.page[p].data)
    BY <1>2, ReturnedMatches, ContentIsNow, InUseType DEF TupleInv, CallState
  <2>2. PICK c \in Callers, t \in Tuples : BeginInsertInNewPage(c, t)
    <3>1. disk' # disk
      BY <1>2 DEF Image, InUse
    <3>2. ~(OtherClients \/ NewProgram)
      BY <1>2, OtherClientsStep, NewProgramStep, TablePages DEF TupleInv
    <3>3. ~(Pin \/ Flush)
      BY <1>2, PoolStepsKeepPages
    <3> QED
      BY <1>2, <3>1, <3>2, <3>3 DEF HeapNext, BeginInsert, BeginDelete, PinFails, ReadNoFrame,
         InsertRecord, DeleteRecord, WritePinned, InsertRecordFails, NotHere, UnpinEdited, UnPin,
         vars, allVars
  <2>3. PageWithSpace(t) = NoPage /\ call'.tuple = t
    BY <2>2 DEF BeginInsertInNewPage
  <2>4. p \notin {q \in PageIds : HasSpace(Image.page[q].data, t)}
    BY <1>2, <2>3, TupleInvParts, WalkSeesAll DEF PageWithSpace
  <2> QED
    BY <2>1, <2>3, <2>4
<1>3. TupleInv /\ TupleInv' /\ [HeapNext]_allVars
         => [InUse(Image)' # InUse(Image) =>
                \A p \in InUse(Image) :
                    /\ ~HasSpace(Image.page[p].data, call'.tuple)
                    /\ pc = "returned" => ~HasSpace(Content(TableFile, p), call'.tuple)]_allVars
  BY <1>2
<1> QED
  BY <1>1, <1>3, PTL DEF HeapSpec, GrowsOnlyWhenFull

-----------------------------------------------------------------------------
(* The inductive invariant of the join *)

\* execute has not left its loops by an exception or a crash.
Runs == join.pc \notin {"threw", "crashed"}

\* The page of R is pinned.
Scans == join.pc \in {"match", "insert"}

\* The pages of file n that a walk has left behind when it has come to x.
Before(n, x) == {p \in InUse(disk[n]) : x = NoPage \/ p < x}

SPages == Before(FileOf[sfile], join.sPage)
RPages == Before(FileOf[rfile], join.rPage)

BlockPin(i) == session[BlockPins[i]]

\* Every pin in the pool is one of execute or of the insertTuple it calls, and
\* is on the page that the loops say.
PinPart ==
    /\ \A c \in Clients : Active(c) => c \in ToSet(BlockPins) \cup {ScanPin, InsertPin}
    /\ Active(ScanPin) <=> Scans
    /\ Scans => session[ScanPin].file = rfile /\ session[ScanPin].page = join.rPage
    /\ Active(InsertPin) => join.pc = "insert" /\ session[InsertPin].file = Table
    /\ \A i \in DOMAIN BlockPins : Active(BlockPins[i]) =>
          /\ i <= join.frameUsed
          /\ BlockPin(i).file = sfile /\ BlockPin(i).page \in SPages
    /\ join.pc # "release" => \A i \in 1..join.frameUsed : Active(BlockPins[i])
    /\ \A i, j \in DOMAIN BlockPins :
          Active(BlockPins[i]) /\ Active(BlockPins[j]) /\ i < j
             => BlockPin(i).page < BlockPin(j).page

\* The calls of insertTuple are quiet, and one runs exactly while execute waits.
CallPart ==
    /\ quiet
    /\ IF join.pc = "insert" THEN ~Ready /\ call.op = "insert" ELSE pc = "returned"

\* The loops are where the iterators say.
LoopPart ==
    /\ join.sPage \in InUse(disk[FileOf[sfile]]) \cup {NoPage}
    /\ join.rPage \in InUse(disk[FileOf[rfile]]) \cup {NoPage}
    /\ Scans => join.rPage # NoPage
    /\ join.frameUsed <= frameAmt
    /\ join.frameUsed <= Cardinality(SPages)
    /\ join.pc = "size" => join.frameUsed = 0 /\ join.rPage = NoPage /\ ~join.swapped
    /\ join.pc \in {"scan", "match", "insert", "release"} =>
          /\ join.frameUsed = frameAmt \/ join.sPage = NoPage
          /\ join.frameUsed > 0 \/ join.sPage # NoPage
    /\ join.pc = "release" => join.rPage = NoPage
    /\ join.pc = "done" => join.frameUsed = 0 /\ join.sPage = NoPage

\* The pages of the block, and the positions in it that the loops have passed.
InBlock(p) == \E i \in 1..join.frameUsed : Active(BlockPins[i]) /\ BlockPin(i).page = p

Passed(r, s) ==
    \E i \in 1..join.frameUsed :
        BlockPin(i).page = s[1] /\ ~Earlier(join.at, <<r[2], i, s[2]>>)

\* The record r of R and the record s of S have been compared.
Compared(r, s) ==
    /\ join.pc # "size"
    /\ s[1] \in SPages
    /\ InBlock(s[1]) =>
          /\ join.pc # "load"
          /\ \/ r[1] \in RPages
             \/ Scans /\ r[1] = join.rPage /\ Passed(r, s)

Inserted(pair) == IF join.swapped THEN Compared(pair[1], pair[2])
                  ELSE Compared(pair[2], pair[1])

PairsDone(t) == {pair \in PairsFor(t) : Inserted(pair)}
AllDone == UNION {PairsDone(t) : t \in Tuples}

\* The call of insertTuple has not inserted its tuple yet.
Waits(t) == join.pc = "insert" /\ pc \in {"pin", "edit"} /\ call.tuple = t

\* There is one result tuple for each pair that has been compared and joins.
CopyPart ==
    /\ \A t \in Tuples :
          Cardinality(PairsDone(t)) = CopiesOf(t) + (IF Waits(t) THEN 1 ELSE 0)
    /\ Cardinality(AllDone) = join.numResultTuples + (IF join.pc = "insert" THEN 1 ELSE 0)

\* The pages of R read since the block was complete.
RRead == IF join.pc \in {"load", "done"} THEN 0
         ELSE Cardinality(RPages) + (IF Scans THEN 1 ELSE 0)

\* The pages of S read are b full blocks and the frames in use, or all of S when
\* the last block was not a full one.
BlocksPart(b) ==
    /\ \/ Cardinality(SPages) = b * frameAmt + join.frameUsed
       \/ /\ join.pc \in {"load", "done"} /\ join.sPage = NoPage /\ join.frameUsed = 0
          /\ b > 0 /\ Cardinality(SPages) \in ((b - 1) * frameAmt + 1)..(b * frameAmt)
    /\ SPages = {} /\ join.sPage = NoPage => b = 0

\* After b blocks.
ReadPart(b) ==
    IF join.pc = "size" THEN b = 0 /\ join.numIOs = 0
    ELSE /\ join.numIOs = Cardinality(SPages) + b * Cardinality(InUse(disk[FileOf[rfile]]))
                              + RRead
         /\ BlocksPart(b)
         /\ Cardinality(InUse(disk[FileOf[sfile]])) <= Cardinality(InUse(disk[FileOf[rfile]]))

\* It was left by an exception because the pool is too small, or a tuple of the
\* result longer than a page.
Outcome ==
    /\ \A t \in Tuples : CopiesOf(t) <= Cardinality(PairsFor(t))
    /\ join.pc = "threw" => \/ NumBufs < Min({join.budget - 1, TableSize(sfile)}) + 2
                            \/ pc = "threw" /\ ~FitsAPage

\* While execute runs, after b blocks.
JoinRuns(b) == /\ join \in Join
               /\ TupleInv
               /\ PinPart /\ CallPart /\ LoopPart /\ CopyPart
               /\ ReadPart(b)

JoinInv == IF Runs THEN \E b \in Nat : JoinRuns(b)
           ELSE HeapInv /\ join \in Join /\ Outcome

-----------------------------------------------------------------------------
(* The tables and the pins *)

LEMMA TablesTypes ==
    /\ sfile \in Handles /\ rfile \in Handles
    /\ FileOf[sfile] \in Files \ {TableFile} /\ FileOf[rfile] \in Files \ {TableFile}
    /\ FileOf[LeftTable] \in Files \ {TableFile}
    /\ FileOf[RightTable] \in Files \ {TableFile}
    /\ sfile # Table /\ rfile # Table
<1>1. /\ LeftTable \in Handles /\ RightTable \in Handles
      /\ FileOf[LeftTable] # TableFile /\ FileOf[RightTable] # TableFile
  BY TablesAssumption
<1>2. \A h \in Handles : FileOf[h] \in Files
  BY FileOfAssumption
<1> QED
  BY <1>1, <1>2 DEF sfile, rfile, TableFile

\* The pins of execute are other clients of the pool; that of insertTuple is the
\* one caller of the heap file manager.
LEMMA PinTypes ==
    /\ Len(BlockPins) \in Nat /\ DOMAIN BlockPins = 1..Len(BlockPins)
    /\ \A i \in 1..Len(BlockPins) : BlockPins[i] \in Others /\ BlockPins[i] # ScanPin
    /\ \A i, j \in 1..Len(BlockPins) : BlockPins[i] = BlockPins[j] => i = j
    /\ ScanPin \in Others
    /\ InsertPin \in Clients /\ InsertPin \in Callers
    /\ \A c \in Callers : c = InsertPin
<1>1. Len(BlockPins) \in Nat /\ DOMAIN BlockPins = 1..Len(BlockPins)
  BY PinsAssumption
<1>2. \A i \in 1..Len(BlockPins) : BlockPins[i] \in Clients /\ BlockPins[i] \in ToSet(BlockPins)
  BY <1>1, PinsAssumption DEF ToSet
<1> QED
  BY <1>1, <1>2, PinsAssumption DEF Others, IsInjective

\* frameAmt, and the frames that a block may take.
LEMMA FrameAmtType ==
    ASSUME join \in Join
    PROVE  /\ frameAmt \in Nat /\ frameAmt <= Len(BlockPins)
           /\ join.frameUsed \in Nat
           /\ join.budget = frameAmt + 1
<1>1. join.budget \in Budgets /\ join.frameUsed \in 0..Len(BlockPins)
  BY DEF Join
<1>2. join.budget \in 1..(Len(BlockPins) + 1)
  BY <1>1, BudgetsAssumption
<1> QED
  BY <1>1, <1>2, PinTypes DEF frameAmt

-----------------------------------------------------------------------------
(* The tables stay as they are *)

\* No page of a table changes.
TablesStay ==
    \A n \in Files \ {TableFile}, p \in PageIds : Now(n, p)' = Now(n, p)

LEMMA UsedPages ==
    ASSUME OneHandle, CacheInv, NEW n \in Files, NEW p \in PageIds
    PROVE  p \in InUse(disk[n]) <=> Now(n, p) # NoData
  BY ValueIsContent DEF Now, CacheInv, PinInv, IInv

LEMMA UsedStay ==
    ASSUME OneHandle, CacheInv, CacheInv', TablesStay, NEW n \in Files \ {TableFile}
    PROVE  InUse(disk'[n]) = InUse(disk[n])
<1>1. /\ IsPool(bufDescTable, hash, bufPool) /\ IsDisk(disk)
      /\ IsPool(bufDescTable', hash', bufPool') /\ IsDisk(disk')
  BY DEF CacheInv, PinInv, IInv
<1>2. ASSUME NEW p \in PageIds PROVE p \in InUse(disk'[n]) <=> p \in InUse(disk[n])
  <2>1. Value(bufDescTable', bufPool', disk', n, p) = Value(bufDescTable, bufPool, disk, n, p)
    BY DEF TablesStay, Now
  <2> QED
    BY <1>1, <2>1, ValueIsContent
<1> QED
  BY <1>2 DEF InUse

\* What a client finds in a table.
LEMMA TupleAtIs ==
    ASSUME OneHandle, CacheInv, NEW h \in Handles, NEW id \in RecordIds
    PROVE  TupleAt(h, id) = TupleIn(Now(FileOf[h], id[1]), id[2])
<1>1. FileOf[h] \in Files /\ id[1] \in PageIds
  BY FileOfAssumption DEF RecordIds
<1>2. Found[<<FileOf[h], id[1]>>] = Now(FileOf[h], id[1])
  BY <1>1, FoundPages
<1>3. Found[<<FileOf[h], id[1]>>] = Content(FileOf[h], id[1])
  BY <1>1 DEF Found
<1> QED
  BY <1>2, <1>3 DEF TupleAt, TupleIn

LEMMA TupleAtStays ==
    ASSUME OneHandle, CacheInv, CacheInv', TablesStay,
           NEW h \in {LeftTable, RightTable}, NEW id \in RecordIds
    PROVE  TupleAt(h, id)' = TupleAt(h, id)
<1>1. FileOf[h] \in Files \ {TableFile} /\ h \in Handles /\ id[1] \in PageIds
  BY TablesTypes, TablesAssumption DEF RecordIds
<1>2. Found' = [k \in Files \X PageIds |-> Now(k[1], k[2])']
  BY FoundIsNowNext
<1>3. Found' = [k \in Files \X PageIds |-> Content(k[1], k[2])']
  BY DEF Found
<1>4. <<FileOf[h], id[1]>> \in Files \X PageIds
  BY <1>1
<1>5. Content(FileOf[h], id[1])' = Now(FileOf[h], id[1])'
  BY <1>2, <1>3, <1>4
<1>6. TupleAt(h, id)' = TupleIn(Now(FileOf[h], id[1])', id[2])
  BY <1>5 DEF TupleAt, TupleIn
<1> QED
  BY <1>1, <1>6, TupleAtIs DEF TablesStay

LEMMA PairsStay ==
    ASSUME OneHandle, CacheInv, CacheInv', TablesStay, NEW t
    PROVE  PairsFor(t)' = PairsFor(t)
<1>1. \A pair \in RecordIds \X RecordIds :
          /\ TupleAt(LeftTable, pair[1])' = TupleAt(LeftTable, pair[1])
          /\ TupleAt(RightTable, pair[2])' = TupleAt(RightTable, pair[2])
  BY TupleAtStays
<1> QED
  BY <1>1 DEF PairsFor

\* Only pages in use have tuples.
LEMMA TupleHasPage ==
    ASSUME OneHandle, CacheInv, NEW h \in Handles, NEW id \in RecordIds,
           TupleAt(h, id) # NoTuple
    PROVE  id[1] \in InUse(disk[FileOf[h]])
<1>1. FileOf[h] \in Files /\ id[1] \in PageIds
  BY FileOfAssumption DEF RecordIds
<1> QED
  BY <1>1, TupleAtIs, UsedPages DEF TupleIn

-----------------------------------------------------------------------------
(* Walks over a table *)

LEMMA BeforeFinite ==
    ASSUME NEW n, NEW x
    PROVE  /\ Before(n, x) \subseteq InUse(disk[n])
           /\ IsFiniteSet(Before(n, x)) /\ Cardinality(Before(n, x)) \in Nat
           /\ IsFiniteSet(InUse(disk[n])) /\ Cardinality(InUse(disk[n])) \in Nat
           /\ Cardinality(Before(n, x)) <= Cardinality(InUse(disk[n]))
<1>1. IsFiniteSet(PageIds)
  BY FS_Interval, MaxPagesAssumption DEF PageIds
<1>2. InUse(disk[n]) \in SUBSET PageIds
  BY InUseType
<1>3. IsFiniteSet(InUse(disk[n]))
  BY <1>1, <1>2, FS_Subset
<1>4. Before(n, x) \in SUBSET InUse(disk[n])
  BY DEF Before
<1> QED
  BY <1>3, <1>4, FS_Subset, FS_CardinalityType

LEMMA FileOfTable ==
    ASSUME CacheInv, NEW n \in Files
    PROVE  disk[n] \in FileImage /\ ListsExact(disk[n])
  BY DEF CacheInv, SoundCache, SoundDisk, IsDisk

\* begin() has no page before it.
LEMMA WalkBegins ==
    ASSUME CacheInv, NEW n \in Files, NEW x, x = disk[n].hdr.first_used_page
    PROVE  /\ x \in InUse(disk[n]) \cup {NoPage}
           /\ Before(n, x) = {}
<1>1. InUse(disk[n]) \in SUBSET (Nat \ {0})
  BY InUseType
<1>2. Follows(InUse(disk[n]), NoPage, x)
  BY FileOfTable DEF ListsExact, Linked
<1>3. CASE x = NoPage
  BY <1>1, <1>2, <1>3 DEF Follows, NoPage, Before
<1>4. CASE x # NoPage
  <2>1. x \in InUse(disk[n]) /\ \A q \in InUse(disk[n]) : q <= 0 \/ x <= q
    BY <1>2, <1>4 DEF Follows, NoPage
  <2>2. \A q \in InUse(disk[n]) : ~(q < x)
    BY <1>1, <2>1
  <2> QED
    BY <1>4, <2>1, <2>2 DEF Before
<1> QED
  BY <1>3, <1>4

\* operator++ leaves one page more behind.
LEMMA WalkGoesOn ==
    ASSUME CacheInv, NEW n \in Files, NEW x \in InUse(disk[n]),
           NEW y, y = Successor(disk[n], x)
    PROVE  /\ y \in InUse(disk[n]) \cup {NoPage}
           /\ x \notin Before(n, x)
           /\ \A p \in Before(n, x) : p < x
           /\ Before(n, y) = Before(n, x) \cup {x}
           /\ Cardinality(Before(n, y)) = Cardinality(Before(n, x)) + 1
<1>1. InUse(disk[n]) \in SUBSET (Nat \ {0}) /\ x # NoPage /\ x \in Nat
  BY InUseType DEF NoPage
<1>2. Follows(InUse(disk[n]), x, y)
  BY <1>1, FileOfTable DEF ListsExact, Linked, Successor
<1>3. x \notin Before(n, x) /\ \A p \in Before(n, x) : p < x
  BY <1>1 DEF Before
<1>4. y \in InUse(disk[n]) \cup {NoPage}
  BY <1>2 DEF Follows
<1>5. ASSUME NEW q \in InUse(disk[n])
      PROVE  (y = NoPage \/ q < y) <=> (q < x \/ q = x)
  <2>1. q \in Nat
    BY <1>1
  <2>2. CASE y = NoPage
    BY <1>1, <1>2, <2>1, <2>2 DEF Follows
  <2>3. CASE y # NoPage
    <3>1. y \in Nat /\ x < y /\ (q <= x \/ y <= q)
      BY <1>1, <1>2, <2>3 DEF Follows
    <3> QED
      BY <1>1, <2>1, <2>3, <3>1
  <2> QED
    BY <2>2, <2>3
<1>6. Before(n, y) = Before(n, x) \cup {x}
  BY <1>1, <1>5 DEF Before
<1>7. Cardinality(Before(n, x) \cup {x}) = Cardinality(Before(n, x)) + 1
  BY <1>3, BeforeFinite, FS_AddElement
<1> QED
  BY <1>3, <1>4, <1>6, <1>7

\* end() has all pages before it.
LEMMA WalkEnds ==
    ASSUME NEW n
    PROVE  Before(n, NoPage) = InUse(disk[n])
  BY DEF Before

LEMMA TimesNat == \A a \in Nat, c \in Nat : a * c \in Nat
  OBVIOUS

\* The chain of a file comes to every page in use once.
LEMMA ChainLength ==
    ASSUME NEW f \in FileImage, ListsExact(f)
    PROVE  Cardinality({k \in 0..MaxPages : Chain(f)[k] # NoPage}) = Cardinality(InUse(f))
<1> DEFINE at == Chain(f)
           K == {k \in 0..MaxPages : at[k] # NoPage}
           g == [k \in K |-> at[k]]
<1>2. UsedExact(f)
  BY LinkedIsExact
<1>3. /\ at \in [0..MaxPages -> PageRefs]
      /\ \A k \in 0..(MaxPages - 1) : at[k + 1] = Successor(f, at[k])
  BY FileParts, LinksSteps DEF Chain
<1>4. {at[k] : k \in 0..MaxPages} \ {NoPage} = InUse(f)
  BY <1>2 DEF UsedExact
<1>5. \A p \in InUse(f) : f.page[p].next = NoPage \/ f.page[p].next > p
  BY <1>2 DEF UsedExact
<1>6. InUse(f) \in SUBSET (Nat \ {0})
  BY InUseType
<1> HIDE DEF at
<1>7. \A j \in 0..MaxPages : \A k \in 0..MaxPages :
         j < k /\ at[k] # NoPage => at[j] # NoPage /\ at[j] < at[k]
  <2> SUFFICES ASSUME NEW j \in 0..MaxPages
               PROVE  \A k \in 0..MaxPages :
                         j < k /\ at[k] # NoPage => at[j] # NoPage /\ at[j] < at[k]
    OBVIOUS
  <2> DEFINE S == {k \in 0..MaxPages :
                      j < k /\ at[k] # NoPage => at[j] # NoPage /\ at[j] < at[k]}
  <2>1. 0 \in S
    BY MaxPagesAssumption
  <2>2. ASSUME NEW k \in 0..(MaxPages - 1), k \in S PROVE k + 1 \in S
    <3>1. k \in 0..MaxPages /\ k + 1 \in 0..MaxPages /\ at[k + 1] = Successor(f, at[k])
      BY <1>3, MaxPagesAssumption
    <3>2. SUFFICES ASSUME j < k + 1, at[k + 1] # NoPage
                   PROVE  at[j] # NoPage /\ at[j] < at[k + 1]
      BY <3>1
    <3>3. at[k] # NoPage /\ at[k + 1] = f.page[at[k]].next
      BY <3>1, <3>2 DEF Successor
    <3>4. at[k] \in InUse(f) /\ at[k + 1] \in InUse(f)
      BY <1>4, <3>1, <3>2, <3>3
    <3>5. at[k] < at[k + 1] /\ at[k] \in Nat /\ at[k + 1] \in Nat
      BY <1>5, <1>6, <3>2, <3>3, <3>4
    <3>6. CASE j = k
      BY <3>3, <3>5, <3>6
    <3>7. CASE j # k
      <4>1. j < k
        BY <3>2, <3>7, <3>1
      <4>2. at[j] # NoPage /\ at[j] < at[k]
        BY <2>2, <3>3, <4>1
      <4>3. at[j] \in Nat
        BY <1>3 DEF PageRefs
      <4> QED
        BY <3>5, <4>2, <4>3
    <3> QED
      BY <3>6, <3>7
  <2> HIDE DEF S
  <2>3. 0..MaxPages \subseteq S
    BY <2>1, <2>2, InductionUpTo, MaxPagesAssumption
  <2> QED
    BY <2>3 DEF S
<1>8. g \in Bijection(K, InUse(f))
  <2>1. \A k \in K : at[k] \in InUse(f)
    BY <1>4
  <2>2. g \in [K -> InUse(f)]
    BY <2>1
  <2>3. \A j, k \in K : g[j] = g[k] => j = k
    <3> SUFFICES ASSUME NEW j \in K, NEW k \in K, g[j] = g[k] PROVE j = k
      OBVIOUS
    <3>1. j \in Nat /\ k \in Nat /\ at[j] = at[k] /\ at[j] \in Nat /\ at[j] # NoPage
      BY <1>6, <2>1
    <3>2. ~(j < k) /\ ~(k < j)
      BY <1>7, <3>1
    <3> QED
      BY <3>1, <3>2
  <2>4. \A p \in InUse(f) : \E k \in K : g[k] = p
    <3> SUFFICES ASSUME NEW p \in InUse(f) PROVE \E k \in K : g[k] = p
      OBVIOUS
    <3>1. PICK k \in 0..MaxPages : at[k] = p /\ p # NoPage
      BY <1>4
    <3> QED
      BY <3>1
  <2> HIDE DEF g, K
  <2> QED
    BY <2>2, <2>3, <2>4 DEF Bijection, Injection, Surjection, IsInjective
<1>9. IsFiniteSet(K)
  <2>1. IsFiniteSet(0..MaxPages)
    BY FS_Interval, MaxPagesAssumption
  <2>2. K \in SUBSET (0..MaxPages)
    OBVIOUS
  <2> QED
    BY <2>1, <2>2, FS_Subset
<1>10. Cardinality(InUse(f)) = Cardinality(K)
  BY <1>8, <1>9, FS_Bijection DEF ExistsBijection
<1> QED
  BY <1>10 DEF at

\* getTableSize counts the pages in use.
LEMMA TableSizeIs ==
    ASSUME CacheInv, NEW h \in Handles
    PROVE  TableSize(h) = Cardinality(InUse(disk[FileOf[h]]))
<1>1. disk[FileOf[h]] \in FileImage /\ ListsExact(disk[FileOf[h]])
  BY FileOfAssumption, FileOfTable
<1> QED
  BY <1>1, ChainLength DEF TableSize, ImageOf

LEMMA TableSizeStays ==
    ASSUME OneHandle, CacheInv, CacheInv', TablesStay, NEW h \in {LeftTable, RightTable}
    PROVE  TableSize(h)' = TableSize(h)
<1>1. /\ h \in Handles /\ FileOf[h] \in Files \ {TableFile}
      /\ InUse(disk'[FileOf[h]]) = InUse(disk[FileOf[h]])
  BY TablesTypes, TablesAssumption, UsedStay
<1>2. disk'[FileOf[h]] \in FileImage /\ ListsExact(disk'[FileOf[h]])
  BY <1>1 DEF CacheInv, SoundCache, SoundDisk, IsDisk
<1>3. TableSize(h)' = Cardinality(InUse(disk'[FileOf[h]]))
  BY <1>2, ChainLength DEF TableSize, ImageOf
<1> QED
  BY <1>1, <1>3, TableSizeIs


-----------------------------------------------------------------------------
(* Steps of the pool while execute runs *)

\* A step that no client notices leaves the tables as they are.
LEMMA UnnoticedTables == Unnoticed => TablesStay
  BY DEF Unnoticed, TablesStay

\* Execute reads a page into the pool.
LEMMA ReadStep ==
    ASSUME OneHandle, TupleInv, Ready, UNCHANGED heapVars,
           NEW c \in Others, NEW h \in Handles, NEW p \in PageIds, ReadPage(c, h, p)
    PROVE  /\ TupleInv' /\ TuplesNow' = TuplesNow /\ TablesStay
           /\ ~Active(c)
           /\ Active(c)' /\ session'[c].file = h /\ session'[c].page = p
           /\ \A e \in Clients \ {c} : session'[e] = session[e]
<1>1. IInv /\ CacheInv /\ CallInv /\ c \in Clients /\ (ReadHit(c, h, p) \/ ReadMiss(c, h, p))
  BY TupleInvParts DEF TupleInv, Others, ReadPage
<1>2. OtherClients
  BY <1>1 DEF OtherClients
<1>3. CacheInv' /\ CallState' /\ TuplesNow' = TuplesNow
  BY <1>2, OtherClientsStep
<1>4. CallInv'
  BY <1>1 DEF heapVars, CallInv
<1>5. Unnoticed
  BY <1>1, ReadHitUnnoticed, ReadMissUnnoticed
<1> QED
  BY <1>1, <1>3, <1>4, <1>5, GetsPin, UnnoticedTables DEF TupleInv

\* Execute gives a page back.
LEMMA GiveBackStep ==
    ASSUME OneHandle, TupleInv, Ready, UNCHANGED heapVars,
           NEW c \in Others, UnPin(c, FALSE)
    PROVE  /\ TupleInv' /\ TuplesNow' = TuplesNow /\ TablesStay
           /\ ~Active(c)'
           /\ \A e \in Clients \ {c} : session'[e] = session[e]
<1>1. IInv /\ CacheInv /\ CallInv /\ c \in Clients
  BY TupleInvParts DEF TupleInv, Others
<1>2. OtherClients
  BY DEF OtherClients
<1>3. CacheInv' /\ CallState' /\ TuplesNow' = TuplesNow
  BY <1>2, OtherClientsStep
<1>4. CallInv'
  BY <1>1 DEF heapVars, CallInv
<1>5. Unnoticed
  BY <1>1, UnPinUnnoticed
<1> QED
  BY <1>1, <1>3, <1>4, <1>5, GivesPinBack, UnnoticedTables DEF TupleInv

\* Nothing but the variables of execute changes.
LEMMA NoCallStep ==
    ASSUME OneHandle, TupleInv, UNCHANGED allVars
    PROVE  /\ TupleInv' /\ TuplesNow' = TuplesNow /\ TablesStay
           /\ session' = session /\ disk' = disk /\ pc' = pc /\ call' = call /\ quiet' = quiet
<1>1. /\ session' = session /\ disk' = disk /\ bufDescTable' = bufDescTable
      /\ bufPool' = bufPool /\ UNCHANGED heapVars
  BY DEF allVars, vars, pool
<1>2. CacheInv' /\ CallState' /\ TuplesNow' = TuplesNow
  BY HeapStutter
<1>3. CallInv'
  BY <1>1 DEF heapVars, CallInv, TupleInv
<1>4. TablesStay
  BY <1>1, PoolUntouched, UnnoticedTables DEF TupleInv
<1> QED
  BY <1>1, <1>2, <1>3, <1>4 DEF TupleInv, heapVars


-----------------------------------------------------------------------------
(* What the pointers of execute show *)

LEMMA PinnedTable ==
    ASSUME OneHandle, CacheInv, NEW c \in Clients, Active(c),
           NEW h \in Handles, session[c].file = h
    PROVE  /\ session[c].page \in PageIds
           /\ session[c].page \in InUse(disk[FileOf[h]])
           /\ \A s \in Slots : /\ <<session[c].page, s>> \in RecordIds
                               /\ TupleAt(h, <<session[c].page, s>>) = PageOf(c)[s]
                               /\ PageOf(c)[s] \in Tuples \cup {NoTuple}
<1> DEFINE f == session[c].frame
           p == session[c].page
           n == FileOf[h]
<1>1. /\ PinInv /\ IsPool(bufDescTable, hash, bufPool)
      /\ Stored(bufDescTable, disk)
  BY DEF CacheInv, PinInv, IInv, SoundCache
<1>2. /\ f \in Frames /\ bufDescTable[f].valid
      /\ bufDescTable[f].file = h /\ bufDescTable[f].pageNo = p
  BY <1>1, PinnedSession DEF PinInv, PinnedPageStays
<1>3. n \in Files /\ p \in InUse(disk[n]) /\ p \in PageIds
  BY <1>1, <1>2, InUseType, FileOfAssumption DEF Stored
<1>4. Holds(bufDescTable, f, n, p)
  BY <1>2 DEF Holds
<1>5. bufPool[f].data \in Data
  BY <1>1, <1>2 DEF IsPool, Page
<1> HIDE DEF f, p, n
<1>6. Now(n, p) = bufPool[f].data
  BY <1>1, <1>2, <1>3, <1>4, ValueInFrame DEF Now
<1>7. ASSUME NEW s \in Slots
      PROVE  /\ <<p, s>> \in RecordIds
             /\ TupleAt(h, <<p, s>>) = bufPool[f].data[s]
             /\ bufPool[f].data[s] \in Tuples \cup {NoTuple}
  <2>1. <<p, s>> \in RecordIds
    BY <1>3 DEF RecordIds
  <2>2. TupleAt(h, <<p, s>>) = TupleIn(Now(n, p), s)
    BY <2>1, TupleAtIs DEF n
  <2>3. bufPool[f].data # NoData /\ bufPool[f].data \in Contents
    BY <1>5, NoPageDataAssumption, ContentsAssumption
  <2> QED
    BY <1>6, <2>1, <2>2, <2>3 DEF TupleIn, Contents
<1> QED
  BY <1>3, <1>7 DEF f, p, n, PageOf

-----------------------------------------------------------------------------
(* A pool without a free frame *)

\* No write of a victim throws, so readPage fails only when every frame is pinned.
LEMMA NoFrameMeansPinned ==
    ASSUME CacheInv, NEW h \in Handles, NEW p \in PageIds, ReadNoFrame(h, p)
    PROVE  Exceeded
<1> SUFFICES ASSUME AllocBufFails(disk) PROVE FALSE
  BY DEF ReadNoFrame, AllocBufExceeded
<1>1. /\ PinInv /\ IsPool(bufDescTable, hash, bufPool) /\ Stored(bufDescTable, disk)
      /\ clockHand \in Frames
  BY DEF CacheInv, PinInv, IInv, SoundCache
<1>2. ~Exceeded /\ bufDescTable[victim].valid /\ WriteBackThrows(disk, victim)
  BY DEF AllocBufFails, VictimFails
<1>3. victim \in Frames
  BY <1>1, <1>2, VictimIsUnpinned
<1>4. bufPool[victim].num \in InUse(disk[FileIn(victim)])
  BY <1>1, <1>2, <1>3, FramePage DEF Stored, FileIn
<1> QED
  BY <1>2, <1>4 DEF WriteBackThrows, WriteThrows, InUse

\* Then there are as many pins as frames, at least.
LEMMA FramesArePinned ==
    ASSUME PinInv, Exceeded, NEW n \in Nat, NEW w \in [1..n -> Clients],
           \A c \in Clients : Active(c) => \E i \in 1..n : w[i] = c
    PROVE  NumBufs <= n
<1> DEFINE g == [f \in Frames |-> CHOOSE i \in 1..n : session[w[i]].frame = f]
<1>1. ASSUME NEW f \in Frames
      PROVE  g[f] \in 1..n /\ session[w[g[f]]].frame = f
  <2>1. bufDescTable[f].pinCnt > 0
    BY DEF Exceeded, Busy
  <2>2. Owners(f) # {}
    <3>1. bufDescTable[f].pinCnt = Cardinality(Owners(f)) /\ Cardinality(Owners(f)) \in Nat
      BY OwnersFinite DEF PinInv, PinsCounted, Owners
    <3>2. Cardinality(Owners(f)) # 0
      BY <2>1, <3>1
    <3> QED
      BY <3>2, FS_EmptySet
  <2>3. PICK c \in Clients : session[c].frame = f
    BY <2>2 DEF Owners
  <2>4. PICK i \in 1..n : w[i] = c
    BY <2>3, OwnerIsActive
  <2> QED
    BY <2>3, <2>4
<1> HIDE DEF g
<1>2. g \in Injection(Frames, 1..n)
  <2>1. g \in [Frames -> 1..n]
    BY <1>1 DEF g
  <2> QED
    BY <1>1, <2>1 DEF Injection, IsInjective
<1>3. IsFiniteSet(1..n) /\ Cardinality(1..n) = n
  BY FS_Interval
<1>4. Cardinality(Frames) <= n
  BY <1>2, <1>3, FS_Injection
<1>5. Cardinality(Frames) = NumBufs
  BY FS_Interval, NumBufsAssumption DEF Frames
<1> QED
  BY <1>4, <1>5


-----------------------------------------------------------------------------
(* Pairs of tuples *)

RPart(pair) == IF join.swapped THEN pair[1] ELSE pair[2]
SPart(pair) == IF join.swapped THEN pair[2] ELSE pair[1]

\* A pair that joins is a record of R and a record of S, in pages in use.
LEMMA PairParts ==
    ASSUME OneHandle, CacheInv, NEW t \in Tuples, NEW pair \in PairsFor(t),
           NEW r, r = RPart(pair), NEW s, s = SPart(pair)
    PROVE  /\ r \in RecordIds /\ s \in RecordIds
           /\ r[1] \in InUse(disk[FileOf[rfile]]) /\ s[1] \in InUse(disk[FileOf[sfile]])
           /\ TupleAt(rfile, r) # NoTuple /\ TupleAt(sfile, s) # NoTuple
           /\ t = IF join.swapped THEN Joined[TupleAt(rfile, r)][TupleAt(sfile, s)]
                  ELSE Joined[TupleAt(sfile, s)][TupleAt(rfile, r)]
           /\ Inserted(pair) <=> Compared(r, s)
           /\ pair = IF join.swapped THEN <<r, s>> ELSE <<s, r>>
<1>1. /\ pair \in RecordIds \X RecordIds
      /\ TupleAt(LeftTable, pair[1]) # NoTuple /\ TupleAt(RightTable, pair[2]) # NoTuple
      /\ Joined[TupleAt(LeftTable, pair[1])][TupleAt(RightTable, pair[2])] = t
  BY DEF PairsFor
<1>2. /\ pair = <<pair[1], pair[2]>>
      /\ pair[1] \in RecordIds /\ pair[2] \in RecordIds
  BY <1>1
<1>3. LeftTable \in Handles /\ RightTable \in Handles
  BY TablesAssumption
<1>4. CASE join.swapped
  <2>1. r = pair[1] /\ s = pair[2] /\ rfile = LeftTable /\ sfile = RightTable
        /\ (Inserted(pair) <=> Compared(r, s))
    BY <1>4 DEF RPart, SPart, sfile, rfile, Inserted
  <2> QED
    BY <1>1, <1>2, <1>3, <1>4, <2>1, TupleHasPage
<1>5. CASE ~join.swapped
  <2>1. r = pair[2] /\ s = pair[1] /\ rfile = RightTable /\ sfile = LeftTable
        /\ (Inserted(pair) <=> Compared(r, s))
    BY <1>5 DEF RPart, SPart, sfile, rfile, Inserted
  <2> QED
    BY <1>1, <1>2, <1>3, <1>5, <2>1, TupleHasPage
<1> QED
  BY <1>4, <1>5

LEMMA RecordsFinite ==
    /\ IsFiniteSet(RecordIds)
    /\ IsFiniteSet(RecordIds \X RecordIds)
<1>1. IsFiniteSet(PageIds) /\ IsFiniteSet(Slots)
  BY FS_Interval, MaxPagesAssumption, SlotsAssumption DEF PageIds, Slots
<1>2. IsFiniteSet(RecordIds)
  BY <1>1, FS_Product DEF RecordIds
<1> QED
  BY <1>2, FS_Product

LEMMA PairsFinite ==
    ASSUME NEW t
    PROVE  /\ IsFiniteSet(PairsFor(t)) /\ Cardinality(PairsFor(t)) \in Nat
           /\ IsFiniteSet(PairsDone(t)) /\ Cardinality(PairsDone(t)) \in Nat
           /\ IsFiniteSet(AllDone) /\ Cardinality(AllDone) \in Nat
           /\ CopiesOf(t) \in Nat
           /\ Cardinality(PairsDone(t)) <= Cardinality(PairsFor(t))
<1>1. \A u : PairsFor(u) \subseteq RecordIds \X RecordIds
  BY DEF PairsFor
<1>2. PairsFor(t) \in SUBSET (RecordIds \X RecordIds)
  BY <1>1
<1>3. PairsDone(t) \in SUBSET PairsFor(t)
  BY DEF PairsDone
<1>4. AllDone \in SUBSET (RecordIds \X RecordIds)
  BY <1>1 DEF AllDone, PairsDone
<1>5. {r \in RecordIds : TuplesNow[r] = t} \in SUBSET RecordIds
  OBVIOUS
<1>6. IsFiniteSet(PairsFor(t)) /\ IsFiniteSet(AllDone)
  BY <1>2, <1>4, RecordsFinite, FS_Subset
<1>7. CopiesOf(t) \in Nat
  BY <1>5, RecordsFinite, FS_Subset, FS_CardinalityType DEF CopiesOf
<1> QED
  BY <1>3, <1>6, <1>7, FS_Subset, FS_CardinalityType

\* A step that does not come to another pair.
LEMMA DoneStays ==
    ASSUME OneHandle, CacheInv, CacheInv', TablesStay,
           \A t \in Tuples : \A pair \in PairsFor(t) : Inserted(pair)' <=> Inserted(pair)
    PROVE  /\ \A t \in Tuples : PairsDone(t)' = PairsDone(t)
           /\ AllDone' = AllDone
<1>1. ASSUME NEW t \in Tuples PROVE PairsDone(t)' = PairsDone(t)
  <2>1. PairsFor(t)' = PairsFor(t)
    BY PairsStay
  <2> QED
    BY <2>1 DEF PairsDone
<1>2. AllDone' = AllDone
  BY <1>1 DEF AllDone
<1> QED
  BY <1>1, <1>2

LEMMA CopyStays ==
    ASSUME OneHandle, CacheInv, CacheInv', TablesStay, TuplesNow' = TuplesNow,
           \A t \in Tuples : \A pair \in PairsFor(t) : Inserted(pair)' <=> Inserted(pair),
           CopyPart, join'.numResultTuples = join.numResultTuples,
           join.pc # "insert" /\ join'.pc # "insert"
    PROVE  CopyPart'
<1>1. \A t \in Tuples : CopiesOf(t)' = CopiesOf(t) /\ (Waits(t)' <=> Waits(t))
  BY DEF CopiesOf, Waits
<1> QED
  BY <1>1, DoneStays DEF CopyPart


-----------------------------------------------------------------------------
(* The comparison of the sizes *)

\* The pages of the tables are the same after a step.
LEMMA WalksStay ==
    ASSUME OneHandle, CacheInv, CacheInv', TablesStay, join'.swapped = join.swapped
    PROVE  /\ sfile' = sfile /\ rfile' = rfile
           /\ InUse(disk'[FileOf[sfile]]) = InUse(disk[FileOf[sfile]])
           /\ InUse(disk'[FileOf[rfile]]) = InUse(disk[FileOf[rfile]])
           /\ SPages' = Before(FileOf[sfile], join'.sPage)
           /\ RPages' = Before(FileOf[rfile], join'.rPage)
<1>1. sfile' = sfile /\ rfile' = rfile
  BY DEF sfile, rfile
<1>2. /\ InUse(disk'[FileOf[sfile]]) = InUse(disk[FileOf[sfile]])
      /\ InUse(disk'[FileOf[rfile]]) = InUse(disk[FileOf[rfile]])
  BY TablesTypes, UsedStay
<1> QED
  BY <1>1, <1>2 DEF SPages, RPages, Before

\* With no page of a block, of a scan or of insertTuple nothing is pinned.
LEMMA NothingPinned ==
    ASSUME PinPart, ~Scans, join.frameUsed = 0, NEW c \in Clients
    PROVE  ~Active(c)
<1> SUFFICES ASSUME Active(c) PROVE FALSE
  OBVIOUS
<1>1. c \in ToSet(BlockPins) \cup {ScanPin, InsertPin}
  BY DEF PinPart
<1>2. c # ScanPin /\ c # InsertPin
  BY DEF PinPart, Scans
<1>3. PICK i \in DOMAIN BlockPins : BlockPins[i] = c
  BY <1>1, <1>2 DEF ToSet
<1>4. i <= 0 /\ i \in 1..Len(BlockPins)
  BY <1>3, PinTypes DEF PinPart
<1> QED
  BY <1>4, PinTypes

LEMMA CompareSizesStep ==
    ASSUME OneHandle, NEW b \in Nat, JoinRuns(b), CompareSizes
    PROVE  JoinRuns(b)' /\ Runs'
<1> DEFINE s == IF Swaps THEN RightTable ELSE LeftTable
           r == IF Swaps THEN LeftTable ELSE RightTable
<1>1. /\ join.pc = "size" /\ join \in Join /\ TupleInv /\ CacheInv
      /\ PinPart /\ CallPart /\ LoopPart /\ CopyPart
      /\ b = 0 /\ join.numIOs = 0
  BY DEF CompareSizes, JoinRuns, ReadPart, TupleInv
<1>2. /\ join' = [join EXCEPT !.pc = "load", !.swapped = Swaps, !.sPage = FirstPage(s)]
      /\ UNCHANGED allVars
  BY DEF CompareSizes
<1>3. /\ TupleInv' /\ CacheInv' /\ TuplesNow' = TuplesNow /\ TablesStay
      /\ session' = session /\ disk' = disk /\ pc' = pc /\ call' = call /\ quiet' = quiet
  BY <1>1, <1>2, NoCallStep DEF TupleInv
<1>4. /\ s \in Handles /\ r \in Handles /\ FileOf[s] \in Files /\ FileOf[r] \in Files
  BY TablesAssumption, FileOfAssumption
<1>5. /\ FirstPage(s) \in InUse(disk[FileOf[s]]) \cup {NoPage}
      /\ Before(FileOf[s], FirstPage(s)) = {}
  BY <1>1, <1>4, WalkBegins DEF FirstPage, ImageOf
<1>6. /\ join'.pc = "load" /\ join'.swapped = Swaps /\ join'.sPage = FirstPage(s)
      /\ join'.budget = join.budget /\ join'.rPage = join.rPage
      /\ join'.frameUsed = join.frameUsed /\ join'.at = join.at
      /\ join'.numIOs = join.numIOs /\ join'.numResultTuples = join.numResultTuples
  BY <1>1, <1>2 DEF Join
<1>7. join' \in Join
  <2>1. FirstPage(s) \in PageRefs
    BY <1>5, InUseType, PageNumbers
  <2>2. Swaps \in BOOLEAN
    BY DEF Swaps
  <2> HIDE DEF s
  <2> QED
    BY <1>1, <1>2, <2>1, <2>2 DEF Join
<1>8. /\ sfile' = s /\ rfile' = r
      /\ SPages' = {} /\ Cardinality(SPages') = 0
  BY <1>3, <1>5, <1>6, FS_EmptySet DEF sfile, rfile, SPages, Before
<1>9. ~Scans /\ ~Scans' /\ join.frameUsed = 0
  BY <1>1, <1>6 DEF LoopPart, Scans
<1>10. \A c \in Clients : ~Active(c)'
  BY <1>1, <1>3, <1>9, NothingPinned DEF Active
<1>11. PinPart'
  BY <1>3, <1>6, <1>9, <1>10, PinTypes, PinsAssumption DEF PinPart
<1>12. CallPart'
  BY <1>1, <1>3, <1>6 DEF CallPart
<1>13. LoopPart'
  <2>1. join'.frameUsed <= frameAmt' /\ join'.frameUsed <= Cardinality(SPages')
    BY <1>1, <1>6, <1>8, <1>9, FrameAmtType DEF frameAmt
  <2>2. join'.sPage \in InUse(disk'[FileOf[sfile']]) \cup {NoPage} /\ join'.rPage = NoPage
    BY <1>1, <1>3, <1>5, <1>6, <1>8 DEF LoopPart
  <2> QED
    BY <1>6, <1>9, <2>1, <2>2 DEF LoopPart
<1>14. CopyPart'
  <2>1. ASSUME NEW t \in Tuples, NEW pair \in PairsFor(t) PROVE ~Inserted(pair) /\ ~Inserted(pair)'
    BY <1>1, <1>8 DEF Inserted, Compared
  <2> QED
    BY <1>1, <1>3, <1>6, <2>1, CopyStays
<1>15. ReadPart(b)'
  <2>1. Cardinality(InUse(disk'[FileOf[s]])) <= Cardinality(InUse(disk'[FileOf[r]]))
    <3>1. \A h \in Handles : TableSize(h) = Cardinality(InUse(disk[FileOf[h]]))
      BY <1>1, TableSizeIs
    <3>2. \A n : Cardinality(InUse(disk[n])) \in Nat
      BY BeforeFinite
    <3> QED
      BY <1>3, <3>1, <3>2, TablesAssumption DEF Swaps
  <2>2. RRead' = 0 /\ frameAmt' \in Nat /\ Cardinality(InUse(disk'[FileOf[r]])) \in Nat
    BY <1>1, <1>6, FrameAmtType, BeforeFinite, <1>3 DEF RRead, frameAmt
  <2>3. BlocksPart(b)'
    BY <1>1, <1>6, <1>8, <1>9, <2>2 DEF BlocksPart
  <2> HIDE DEF s, r
  <2>4. join'.numIOs = Cardinality(SPages') + b * Cardinality(InUse(disk'[FileOf[rfile']])) + RRead'
    BY <1>1, <1>6, <1>8, <2>2
  <2> QED
    BY <1>6, <1>8, <2>1, <2>3, <2>4 DEF ReadPart
<1> QED
  BY <1>3, <1>6, <1>7, <1>11, <1>12, <1>13, <1>14, <1>15 DEF JoinRuns, Runs


-----------------------------------------------------------------------------
(* A page of the block is read *)

\* The block is not full, and its next page is one of S.
LEMMA NextOfBlock ==
    ASSUME NEW b \in Nat, JoinRuns(b), join.pc = "load", ~BlockFull
    PROVE  /\ join.sPage \in InUse(disk[FileOf[sfile]])
           /\ join.frameUsed < frameAmt
           /\ join.frameUsed + 1 \in 1..Len(BlockPins)
           /\ join.frameUsed < Cardinality(InUse(disk[FileOf[sfile]]))
<1>1. LoopPart /\ join \in Join /\ CacheInv
  BY DEF JoinRuns, TupleInv
<1>2. join.sPage \in InUse(disk[FileOf[sfile]]) /\ join.frameUsed # frameAmt
  BY <1>1 DEF BlockFull, LoopPart
<1>3. /\ frameAmt \in Nat /\ join.frameUsed \in Nat /\ frameAmt <= Len(BlockPins)
      /\ Len(BlockPins) \in Nat /\ join.frameUsed <= frameAmt
  BY <1>1, FrameAmtType, PinTypes DEF LoopPart
<1>4. Cardinality(SPages) < Cardinality(InUse(disk[FileOf[sfile]]))
  <2>1. SPages \in SUBSET InUse(disk[FileOf[sfile]]) /\ join.sPage \notin SPages
    BY <1>1, <1>2, WalkGoesOn, TablesTypes DEF SPages, Before
  <2> QED
    BY <1>2, <2>1, BeforeFinite, FS_Subset, FS_CardinalityType DEF SPages
<1>5. join.frameUsed <= Cardinality(SPages) /\ Cardinality(SPages) \in Nat
  BY <1>1, BeforeFinite DEF LoopPart, SPages
<1>6. Cardinality(InUse(disk[FileOf[sfile]])) \in Nat
  BY BeforeFinite
<1>7. join.frameUsed < frameAmt /\ join.frameUsed + 1 \in 1..Len(BlockPins)
  BY <1>2, <1>3
<1>8. join.frameUsed < Cardinality(InUse(disk[FileOf[sfile]]))
  BY <1>3, <1>4, <1>5, <1>6
<1> QED
  BY <1>2, <1>7, <1>8

LEMMA LoadPageStep ==
    ASSUME OneHandle, NEW b \in Nat, JoinRuns(b), LoadPage
    PROVE  JoinRuns(b)' /\ Runs'
<1>0. PICK i \in 1..Len(BlockPins), n \in Files : i = join.frameUsed + 1 /\ n = FileOf[sfile]
  <2>1. join.frameUsed + 1 \in 1..Len(BlockPins)
    BY NextOfBlock DEF LoadPage
  <2> QED
    BY <2>1, TablesTypes
<1>1. /\ join.pc = "load" /\ join \in Join /\ TupleInv /\ CacheInv
      /\ PinPart /\ CallPart /\ LoopPart /\ CopyPart /\ ReadPart(b)
      /\ ~Scans
  BY DEF LoadPage, JoinRuns, TupleInv, Scans
<1>2. /\ ReadPage(BlockPins[i], sfile, join.sPage)
      /\ join' = [join EXCEPT !.frameUsed = i, !.numIOs = @ + 1,
                              !.sPage = Successor(disk[n], @)]
      /\ UNCHANGED heapVars
  BY <1>0 DEF LoadPage, ImageOf
<1>3. /\ join.sPage \in InUse(disk[n]) /\ join.frameUsed < frameAmt
      /\ i \in 1..Len(BlockPins) /\ join.sPage \in PageIds
      /\ n \in Files /\ sfile \in Handles
      /\ BlockPins[i] \in Others /\ BlockPins[i] # ScanPin /\ BlockPins[i] # InsertPin
      /\ BlockPins[i] \in Clients
  BY <1>0, <1>1, NextOfBlock, InUseType, PinTypes, TablesTypes DEF LoadPage, Others
<1>4. /\ TupleInv' /\ CacheInv' /\ TuplesNow' = TuplesNow /\ TablesStay
      /\ Active(BlockPins[i])'
      /\ session'[BlockPins[i]].file = sfile /\ session'[BlockPins[i]].page = join.sPage
      /\ \A e \in Clients \ {BlockPins[i]} : session'[e] = session[e]
      /\ pc' = pc /\ call' = call /\ quiet' = quiet
  <2>1. Ready
    BY <1>1 DEF CallPart, Ready
  <2> QED
    BY <1>1, <1>2, <1>3, <2>1, ReadStep DEF TupleInv, heapVars
<1>5. /\ join'.pc = "load" /\ join'.swapped = join.swapped
      /\ join'.sPage = Successor(disk[n], join.sPage)
      /\ join'.budget = join.budget /\ join'.rPage = join.rPage
      /\ join'.frameUsed = i /\ join'.at = join.at
      /\ join'.numIOs = join.numIOs + 1 /\ join'.numResultTuples = join.numResultTuples
  BY <1>1, <1>2 DEF Join
<1>6. /\ sfile' = sfile /\ rfile' = rfile
      /\ InUse(disk'[n]) = InUse(disk[n])
      /\ InUse(disk'[FileOf[rfile]]) = InUse(disk[FileOf[rfile]])
      /\ SPages' = Before(n, join'.sPage) /\ RPages' = RPages
  BY <1>0, <1>1, <1>4, <1>5, WalksStay DEF RPages
<1>7. /\ join'.sPage \in InUse(disk[n]) \cup {NoPage}
      /\ join.sPage \notin SPages
      /\ \A p \in SPages : p < join.sPage
      /\ SPages' = SPages \cup {join.sPage}
      /\ Cardinality(SPages') = Cardinality(SPages) + 1
  <2>1. SPages = Before(n, join.sPage)
    BY <1>0 DEF SPages
  <2> QED
    BY <1>1, <1>3, <1>5, <1>6, <2>1, WalkGoesOn
<1>8. Cardinality(SPages) \in Nat /\ frameAmt \in Nat /\ join.frameUsed \in Nat
      /\ frameAmt' = frameAmt /\ join.numIOs \in Nat
  BY <1>1, <1>5, BeforeFinite, FrameAmtType DEF SPages, frameAmt, Join
<1>9. join' \in Join
  <2>1. Successor(disk[n], join.sPage) \in PageRefs
    BY <1>5, <1>7, InUseType, PageNumbers
  <2>2. i \in 0..Len(BlockPins) /\ join.numIOs + 1 \in Nat
    BY <1>3, <1>8, PinTypes
  <2> QED
    BY <1>1, <1>2, <2>1, <2>2 DEF Join
<1>10. \A j \in DOMAIN BlockPins : j # i =>
          /\ Active(BlockPins[j])' <=> Active(BlockPins[j])
          /\ BlockPin(j)' = BlockPin(j)
  BY <1>3, <1>4, PinTypes DEF Active, BlockPin, Others
<1>11. /\ Active(BlockPins[i])' /\ BlockPin(i)'.file = sfile
       /\ BlockPin(i)'.page = join.sPage
  BY <1>4 DEF BlockPin
<1>12. /\ ~Scans' /\ (Active(ScanPin)' <=> Active(ScanPin))
       /\ (Active(InsertPin)' <=> Active(InsertPin))
  BY <1>3, <1>4, <1>5, PinTypes DEF Scans, Active, Others
<1>13. \A j \in 1..join.frameUsed : Active(BlockPins[j]) /\ j \in DOMAIN BlockPins /\ j # i
  BY <1>0, <1>1, <1>3, <1>8, PinTypes DEF PinPart
<1>14. PinPart'
  <2>1. \A c \in Clients : Active(c)' => c \in ToSet(BlockPins) \cup {ScanPin, InsertPin}
    <3>1. BlockPins[i] \in ToSet(BlockPins)
      BY <1>3, PinTypes DEF ToSet
    <3>2. \A c \in Clients \ {BlockPins[i]} : Active(c)' <=> Active(c)
      BY <1>4 DEF Active
    <3> QED
      BY <1>1, <3>1, <3>2 DEF PinPart
  <2>2. ~Active(ScanPin)' /\ ~Active(InsertPin)'
    BY <1>1, <1>12 DEF PinPart
  <2>3. ASSUME NEW j \in DOMAIN BlockPins, Active(BlockPins[j])'
        PROVE  /\ j <= join'.frameUsed
               /\ BlockPin(j)'.file = sfile' /\ BlockPin(j)'.page \in SPages'
    <3>1. CASE j = i
      BY <1>3, <1>5, <1>6, <1>7, <1>11, <3>1
    <3>2. CASE j # i
      <4>1. j <= join.frameUsed /\ BlockPin(j).file = sfile /\ BlockPin(j).page \in SPages
        BY <1>1, <1>10, <2>3, <3>2 DEF PinPart
      <4>2. j <= i
        BY <1>0, <1>8, <4>1, PinTypes
      <4> QED
        BY <1>5, <1>6, <1>7, <1>10, <3>2, <4>1, <4>2
    <3> QED
      BY <3>1, <3>2
  <2>4. \A j \in 1..join'.frameUsed : Active(BlockPins[j])'
    <3>1. \A j \in 1..join'.frameUsed : j = i \/ j \in 1..join.frameUsed
      BY <1>0, <1>5, <1>8
    <3> QED
      BY <1>10, <1>11, <1>13, <3>1
  <2>5. ASSUME NEW j \in DOMAIN BlockPins, NEW k \in DOMAIN BlockPins,
               Active(BlockPins[j])', Active(BlockPins[k])', j < k
        PROVE  BlockPin(j)'.page < BlockPin(k)'.page
    <3>1. j # i
      <4>1. j <= i /\ k <= i
        BY <1>5, <2>3, <2>5
      <4> QED
        BY <2>5, <4>1, PinTypes, <1>3
    <3>2. Active(BlockPins[j]) /\ BlockPin(j)' = BlockPin(j)
      BY <1>10, <2>5, <3>1
    <3>3. CASE k = i
      BY <1>1, <1>7, <1>11, <3>2, <3>3 DEF PinPart
    <3>4. CASE k # i
      BY <1>1, <1>10, <2>5, <3>2, <3>4 DEF PinPart
    <3> QED
      BY <3>3, <3>4
  <2> QED
    BY <1>12, <2>1, <2>2, <2>3, <2>4, <2>5 DEF PinPart
<1>15. CallPart'
  BY <1>1, <1>4, <1>5 DEF CallPart
<1>16. LoopPart'
  <2>1. i <= frameAmt /\ i <= Cardinality(SPages')
    BY <1>0, <1>1, <1>3, <1>7, <1>8 DEF LoopPart
  <2> QED
    BY <1>0, <1>1, <1>5, <1>6, <1>7, <1>8, <1>12, <2>1 DEF LoopPart
<1>17. CopyPart'
  <2>1. \A p : InBlock(p)' <=> InBlock(p) \/ p = join.sPage
    <3>1. \A j \in 1..i : j = i \/ j \in 1..join.frameUsed
      BY <1>0, <1>8
    <3>2. i \in 1..i /\ \A j \in 1..join.frameUsed : j \in 1..i
      BY <1>0, <1>3, <1>8
    <3>3. \A j \in 1..join.frameUsed : Active(BlockPins[j])' /\ BlockPin(j)' = BlockPin(j)
      BY <1>10, <1>13
    <3> QED
      BY <1>5, <1>11, <1>13, <3>1, <3>2, <3>3 DEF InBlock
  <2>2. \A p \in SPages : InBlock(p) => InBlock(p)'
    BY <2>1
  <2>3. ASSUME NEW r, NEW s PROVE Compared(r, s)' <=> Compared(r, s)
    BY <1>1, <1>5, <1>7, <2>1 DEF Compared
  <2>4. \A t \in Tuples : \A pair \in PairsFor(t) : Inserted(pair)' <=> Inserted(pair)
    BY <1>5, <2>3 DEF Inserted
  <2> QED
    BY <1>1, <1>4, <1>5, <2>4, CopyStays
<1>18. ReadPart(b)'
  <2>1. RRead' = 0 /\ RRead = 0
    BY <1>1, <1>5 DEF RRead
  <2>2. join.numIOs = Cardinality(SPages) + b * Cardinality(InUse(disk[FileOf[rfile]])) + RRead
    BY <1>1 DEF ReadPart
  <2>3. b * Cardinality(InUse(disk[FileOf[rfile]])) \in Nat
    BY BeforeFinite, TimesNat
  <2>4. join'.numIOs = Cardinality(SPages') + b * Cardinality(InUse(disk'[FileOf[rfile']])) + RRead'
    BY <1>5, <1>6, <1>7, <1>8, <2>1, <2>2, <2>3
  <2>5. BlocksPart(b)'
    <3>1. Cardinality(SPages) = b * frameAmt + join.frameUsed
      BY <1>0, <1>1, <1>3, InUseType DEF ReadPart, BlocksPart, NoPage
    <3>2. b * frameAmt \in Nat
      BY <1>8
    <3>3. Cardinality(SPages') = b * frameAmt + i
      BY <1>0, <1>7, <1>8, <3>1, <3>2
    <3>4. SPages' # {}
      BY <1>7
    <3> QED
      BY <1>5, <1>8, <3>3, <3>4 DEF BlocksPart
  <2> QED
    BY <1>0, <1>1, <1>5, <1>6, <2>4, <2>5 DEF ReadPart
<1> QED
  BY <1>4, <1>5, <1>9, <1>14, <1>15, <1>16, <1>17, <1>18 DEF JoinRuns, Runs


-----------------------------------------------------------------------------
(* R is scanned from its start *)

LEMMA StartScanStep ==
    ASSUME OneHandle, NEW b \in Nat, JoinRuns(b), StartScan
    PROVE  JoinRuns(b)' /\ Runs'
<1>0. PICK m \in Files : m = FileOf[rfile]
  BY TablesTypes
<1>1. /\ join.pc = "load" /\ join \in Join /\ TupleInv /\ CacheInv
      /\ PinPart /\ CallPart /\ LoopPart /\ CopyPart /\ ReadPart(b)
      /\ ~Scans /\ BlockFull
  BY DEF StartScan, JoinRuns, TupleInv, Scans
<1>2. /\ TupleInv' /\ CacheInv' /\ TuplesNow' = TuplesNow /\ TablesStay
      /\ session' = session /\ disk' = disk /\ pc' = pc /\ call' = call /\ quiet' = quiet
  BY <1>1, NoCallStep DEF StartScan, TupleInv
<1>3. /\ join'.swapped = join.swapped /\ join'.sPage = join.sPage
      /\ join'.budget = join.budget
      /\ join'.frameUsed = join.frameUsed /\ join'.at = join.at
      /\ join'.numIOs = join.numIOs /\ join'.numResultTuples = join.numResultTuples
      /\ \/ /\ join.frameUsed = 0 /\ join.sPage = NoPage
            /\ join'.pc = "done" /\ join'.rPage = join.rPage
         \/ /\ join.frameUsed > 0 \/ join.sPage # NoPage
            /\ join'.pc = "scan" /\ join'.rPage = FirstPage(rfile)
  BY <1>1, FrameAmtType DEF StartScan, ScanStart, Join
<1>4. /\ sfile' = sfile /\ rfile' = rfile
      /\ InUse(disk'[FileOf[sfile]]) = InUse(disk[FileOf[sfile]])
      /\ InUse(disk'[FileOf[rfile]]) = InUse(disk[FileOf[rfile]])
      /\ SPages' = SPages
      /\ RPages' = Before(m, join'.rPage)
  BY <1>0, <1>1, <1>2, <1>3, WalksStay DEF SPages
<1>5. /\ FirstPage(rfile) \in InUse(disk[m]) \cup {NoPage}
      /\ Before(m, FirstPage(rfile)) = {}
  BY <1>0, <1>1, WalkBegins DEF FirstPage, ImageOf
<1>6. join' \in Join
  <2>1. FirstPage(rfile) \in PageRefs
    BY <1>5, InUseType, PageNumbers
  <2> QED
    BY <1>1, <2>1 DEF Join, StartScan, ScanStart
<1>7. /\ ~Scans' /\ frameAmt' = frameAmt
      /\ \A c \in Clients : Active(c)' <=> Active(c)
      /\ \A j : BlockPin(j)' = BlockPin(j)
  BY <1>2, <1>3 DEF Scans, frameAmt, Active, BlockPin
<1>8. PinPart'
  <2>1. join'.pc # "insert" /\ ~Active(ScanPin) /\ ~Active(InsertPin)
    BY <1>1, <1>3 DEF PinPart
  <2>2. \A j \in DOMAIN BlockPins : Active(BlockPins[j])' <=> Active(BlockPins[j])
    BY <1>7, PinTypes DEF Others
  <2>3. \A j \in 1..join.frameUsed : Active(BlockPins[j])'
    BY <1>1, <1>2 DEF PinPart, Active
  <2> QED
    BY <1>1, <1>3, <1>4, <1>7, <2>1, <2>2, <2>3, PinsAssumption DEF PinPart
<1>9. CallPart'
  BY <1>1, <1>2, <1>3 DEF CallPart
<1>10. LoopPart'
  <2>1. join.frameUsed \in Nat /\ frameAmt \in Nat
    BY <1>1, FrameAmtType
  <2>2. join'.rPage \in InUse(disk'[FileOf[rfile']]) \cup {NoPage}
    BY <1>0, <1>1, <1>3, <1>4, <1>5 DEF LoopPart
  <2> QED
    BY <1>1, <1>3, <1>4, <1>7, <2>1, <2>2 DEF LoopPart, BlockFull
<1>11. CopyPart'
  <2>1. \A p : InBlock(p)' <=> InBlock(p)
    BY <1>2, <1>3 DEF InBlock, Active, BlockPin
  <2>2. join'.pc = "done" => \A p : ~InBlock(p)
    BY <1>3 DEF InBlock
  <2>3. join'.pc # "done" => RPages' = {}
    BY <1>3, <1>4, <1>5
  <2>4. ASSUME NEW r, NEW s PROVE Compared(r, s)' <=> Compared(r, s)
    BY <1>1, <1>3, <1>4, <1>7, <2>1, <2>2, <2>3 DEF Compared
  <2>5. \A t \in Tuples : \A pair \in PairsFor(t) : Inserted(pair)' <=> Inserted(pair)
    BY <1>3, <2>4 DEF Inserted
  <2> QED
    BY <1>1, <1>2, <1>3, <2>5, CopyStays
<1>12. ReadPart(b)'
  <2>1. RRead' = 0 /\ RRead = 0
    BY <1>1, <1>3, <1>4, <1>5, <1>7, FS_EmptySet DEF RRead
  <2>2. BlocksPart(b)'
    BY <1>1, <1>3, <1>4, <1>7 DEF ReadPart, BlocksPart
  <2> QED
    BY <1>1, <1>3, <1>4, <2>1, <2>2 DEF ReadPart
<1> QED
  BY <1>2, <1>3, <1>6, <1>8, <1>9, <1>10, <1>11, <1>12 DEF JoinRuns, Runs

LEMMA EndScanStep ==
    ASSUME OneHandle, NEW b \in Nat, JoinRuns(b), EndScan
    PROVE  JoinRuns(b)' /\ Runs'
<1>1. /\ join.pc = "scan" /\ join.rPage = NoPage /\ join \in Join /\ TupleInv /\ CacheInv
      /\ PinPart /\ CallPart /\ LoopPart /\ CopyPart /\ ReadPart(b)
      /\ ~Scans
  BY DEF EndScan, JoinRuns, TupleInv, Scans
<1>2. /\ TupleInv' /\ CacheInv' /\ TuplesNow' = TuplesNow /\ TablesStay
      /\ session' = session /\ disk' = disk /\ pc' = pc /\ call' = call /\ quiet' = quiet
  BY <1>1, NoCallStep DEF EndScan, TupleInv
<1>3. /\ join'.swapped = join.swapped /\ join'.sPage = join.sPage
      /\ join'.budget = join.budget /\ join'.rPage = join.rPage
      /\ join'.frameUsed = join.frameUsed /\ join'.at = join.at
      /\ join'.numIOs = join.numIOs /\ join'.numResultTuples = join.numResultTuples
      /\ join'.pc = "release" /\ join' \in Join
  BY <1>1 DEF EndScan, Join
<1>4. /\ sfile' = sfile /\ rfile' = rfile
      /\ InUse(disk'[FileOf[sfile]]) = InUse(disk[FileOf[sfile]])
      /\ InUse(disk'[FileOf[rfile]]) = InUse(disk[FileOf[rfile]])
      /\ SPages' = SPages /\ RPages' = RPages
  BY <1>1, <1>2, <1>3, WalksStay DEF SPages, RPages
<1>5. /\ ~Scans' /\ frameAmt' = frameAmt
      /\ \A c : Active(c)' <=> Active(c)
      /\ \A j : BlockPin(j)' = BlockPin(j)
  BY <1>2, <1>3 DEF Scans, frameAmt, Active, BlockPin
<1>6. PinPart'
  BY <1>1, <1>3, <1>4, <1>5 DEF PinPart
<1>7. CallPart'
  BY <1>1, <1>2, <1>3 DEF CallPart
<1>8. LoopPart'
  BY <1>1, <1>3, <1>4, <1>5 DEF LoopPart
<1>9. CopyPart'
  <2>1. \A p : InBlock(p)' <=> InBlock(p)
    BY <1>3, <1>5 DEF InBlock
  <2>2. ASSUME NEW r, NEW s PROVE Compared(r, s)' <=> Compared(r, s)
    BY <1>1, <1>3, <1>4, <1>5, <2>1 DEF Compared
  <2>3. \A t \in Tuples : \A pair \in PairsFor(t) : Inserted(pair)' <=> Inserted(pair)
    BY <1>3, <2>2 DEF Inserted
  <2> QED
    BY <1>1, <1>2, <1>3, <2>3, CopyStays
<1>10. ReadPart(b)'
  <2>1. RRead' = RRead
    BY <1>1, <1>3, <1>4, <1>5 DEF RRead
  <2>2. BlocksPart(b)'
    BY <1>1, <1>3, <1>4, <1>5 DEF ReadPart, BlocksPart
  <2> QED
    BY <1>1, <1>3, <1>4, <2>1, <2>2 DEF ReadPart
<1> QED
  BY <1>2, <1>3, <1>6, <1>7, <1>8, <1>9, <1>10 DEF JoinRuns, Runs


LEMMA ScanPageStep ==
    ASSUME OneHandle, NEW b \in Nat, JoinRuns(b), ScanPage
    PROVE  JoinRuns(b)' /\ Runs'
<1>1. /\ join.pc = "scan" /\ join.rPage # NoPage /\ join \in Join /\ TupleInv /\ CacheInv
      /\ PinPart /\ CallPart /\ LoopPart /\ CopyPart /\ ReadPart(b)
      /\ ~Scans
  BY DEF ScanPage, JoinRuns, TupleInv, Scans
<1>2. /\ ReadPage(ScanPin, rfile, join.rPage)
      /\ join' = [join EXCEPT !.pc = "match", !.at = <<0, 0, 0>>, !.numIOs = @ + 1]
      /\ UNCHANGED heapVars
  BY DEF ScanPage
<1>3. /\ join.rPage \in InUse(disk[FileOf[rfile]]) /\ join.rPage \in PageIds
      /\ ScanPin \in Others /\ rfile \in Handles /\ Ready
  BY <1>1, InUseType, PinTypes, TablesTypes DEF LoopPart, CallPart, Ready
<1>4. /\ TupleInv' /\ CacheInv' /\ TuplesNow' = TuplesNow /\ TablesStay
      /\ Active(ScanPin)'
      /\ session'[ScanPin].file = rfile /\ session'[ScanPin].page = join.rPage
      /\ \A e \in Clients \ {ScanPin} : session'[e] = session[e]
      /\ pc' = pc /\ call' = call /\ quiet' = quiet
  BY <1>1, <1>2, <1>3, ReadStep DEF TupleInv, heapVars
<1>5. /\ join'.swapped = join.swapped /\ join'.sPage = join.sPage
      /\ join'.budget = join.budget /\ join'.rPage = join.rPage
      /\ join'.frameUsed = join.frameUsed /\ join'.at = <<0, 0, 0>>
      /\ join'.numIOs = join.numIOs + 1 /\ join'.numResultTuples = join.numResultTuples
      /\ join'.pc = "match" /\ join' \in Join /\ join.numIOs \in Nat
  <2>1. <<0, 0, 0>> \in Nat \X Nat \X Nat /\ join.numIOs + 1 \in Nat /\ join.numIOs \in Nat
    BY <1>1 DEF Join
  <2>2. join' \in Join
    BY <1>1, <1>2, <2>1 DEF Join
  <2> QED
    BY <1>1, <1>2, <2>1, <2>2 DEF Join
<1>6. /\ sfile' = sfile /\ rfile' = rfile
      /\ InUse(disk'[FileOf[sfile]]) = InUse(disk[FileOf[sfile]])
      /\ InUse(disk'[FileOf[rfile]]) = InUse(disk[FileOf[rfile]])
      /\ SPages' = SPages /\ RPages' = RPages
  BY <1>1, <1>4, <1>5, WalksStay DEF SPages, RPages
<1>7. /\ Scans' /\ frameAmt' = frameAmt
      /\ \A c \in Clients \ {ScanPin} : Active(c)' <=> Active(c)
      /\ \A j \in DOMAIN BlockPins : /\ Active(BlockPins[j])' <=> Active(BlockPins[j])
                                     /\ BlockPin(j)' = BlockPin(j)
      /\ Active(InsertPin)' <=> Active(InsertPin)
  BY <1>4, <1>5, PinTypes, PinsAssumption DEF Scans, frameAmt, Active, BlockPin, Others
<1>8. /\ join.frameUsed \in Nat /\ \A j \in 1..join.frameUsed : j \in DOMAIN BlockPins
      /\ Cardinality(RPages) \in Nat /\ Cardinality(SPages) \in Nat
  <2>1. join.frameUsed \in 0..Len(BlockPins)
    BY <1>1 DEF Join
  <2> QED
    BY <2>1, PinTypes, BeforeFinite DEF RPages, SPages
<1>9. PinPart'
  <2>1. \A c \in Clients : Active(c)' => c \in ToSet(BlockPins) \cup {ScanPin, InsertPin}
    BY <1>1, <1>7 DEF PinPart
  <2>2. ~Active(InsertPin)'
    BY <1>1, <1>7 DEF PinPart
  <2>3. \A j \in DOMAIN BlockPins : Active(BlockPins[j])' =>
          /\ j <= join'.frameUsed
          /\ BlockPin(j)'.file = sfile' /\ BlockPin(j)'.page \in SPages'
    BY <1>1, <1>5, <1>6, <1>7 DEF PinPart
  <2>4. \A j \in 1..join'.frameUsed : Active(BlockPins[j])'
    BY <1>1, <1>5, <1>7, <1>8 DEF PinPart
  <2>5. \A j, k \in DOMAIN BlockPins :
           Active(BlockPins[j])' /\ Active(BlockPins[k])' /\ j < k
              => BlockPin(j)'.page < BlockPin(k)'.page
    BY <1>1, <1>7 DEF PinPart
  <2> QED
    BY <1>4, <1>5, <1>6, <1>7, <2>1, <2>2, <2>3, <2>4, <2>5 DEF PinPart
<1>10. CallPart'
  BY <1>1, <1>4, <1>5 DEF CallPart
<1>11. LoopPart'
  BY <1>1, <1>5, <1>6, <1>7 DEF LoopPart
<1>12. CopyPart'
  <2>1. \A p : InBlock(p)' <=> InBlock(p)
    BY <1>5, <1>7, <1>8 DEF InBlock
  <2>2. ASSUME NEW r \in RecordIds, NEW s PROVE ~Passed(r, s)'
    BY <1>5 DEF Passed, Earlier, RecordIds, Slots
  <2>3. ASSUME NEW r \in RecordIds, NEW s PROVE Compared(r, s)' <=> Compared(r, s)
    BY <1>1, <1>5, <1>6, <1>7, <2>1, <2>2 DEF Compared
  <2>4. ASSUME NEW t \in Tuples, NEW pair \in PairsFor(t)
        PROVE  Inserted(pair)' <=> Inserted(pair)
    <3>1. pair[1] \in RecordIds /\ pair[2] \in RecordIds
      BY DEF PairsFor
    <3> QED
      BY <1>5, <2>3, <3>1 DEF Inserted
  <2> QED
    BY <1>1, <1>4, <1>5, <2>4, CopyStays
<1>13. ReadPart(b)'
  <2>1. RRead' = RRead + 1 /\ RRead \in Nat
    BY <1>1, <1>5, <1>6, <1>7, <1>8 DEF RRead
  <2>2. b * Cardinality(InUse(disk[FileOf[rfile]])) \in Nat
    BY BeforeFinite, TimesNat
  <2>3. join.numIOs = Cardinality(SPages) + b * Cardinality(InUse(disk[FileOf[rfile]])) + RRead
    BY <1>1 DEF ReadPart
  <2>4. join'.numIOs = Cardinality(SPages') + b * Cardinality(InUse(disk'[FileOf[rfile']])) + RRead'
    BY <1>5, <1>6, <1>8, <2>1, <2>2, <2>3
  <2>5. BlocksPart(b)'
    BY <1>1, <1>5, <1>6, <1>7 DEF ReadPart, BlocksPart
  <2> QED
    BY <1>1, <1>5, <1>6, <2>4, <2>5 DEF ReadPart
<1> QED
  BY <1>4, <1>5, <1>9, <1>10, <1>11, <1>12, <1>13 DEF JoinRuns, Runs

-----------------------------------------------------------------------------
(* The block is released *)

LEMMA EndBlockStep ==
    ASSUME OneHandle, NEW b \in Nat, JoinRuns(b), EndBlock
    PROVE  JoinRuns(b + 1)' /\ Runs'
<1>1. /\ join.pc = "release" /\ join \in Join /\ TupleInv /\ CacheInv
      /\ PinPart /\ CallPart /\ LoopPart /\ CopyPart /\ ReadPart(b)
      /\ ~Scans /\ Released = {} /\ join.rPage = NoPage
  BY DEF EndBlock, JoinRuns, TupleInv, Scans, LoopPart
<1>2. /\ TupleInv' /\ CacheInv' /\ TuplesNow' = TuplesNow /\ TablesStay
      /\ session' = session /\ disk' = disk /\ pc' = pc /\ call' = call /\ quiet' = quiet
  BY <1>1, NoCallStep DEF EndBlock, TupleInv
<1>3. /\ join'.swapped = join.swapped /\ join'.sPage = join.sPage
      /\ join'.budget = join.budget /\ join'.rPage = join.rPage
      /\ join'.frameUsed = 0 /\ join'.at = join.at
      /\ join'.numIOs = join.numIOs /\ join'.numResultTuples = join.numResultTuples
      /\ join'.pc = "load" /\ join' \in Join
  <2>1. 0 \in 0..Len(BlockPins)
    BY PinTypes
  <2>2. join' = [join EXCEPT !.pc = "load", !.frameUsed = 0]
    BY DEF EndBlock
  <2>3. join' \in Join
    BY <1>1, <2>1, <2>2 DEF Join
  <2> QED
    BY <1>1, <2>2, <2>3 DEF Join
<1>4. /\ sfile' = sfile /\ rfile' = rfile
      /\ InUse(disk'[FileOf[sfile]]) = InUse(disk[FileOf[sfile]])
      /\ InUse(disk'[FileOf[rfile]]) = InUse(disk[FileOf[rfile]])
      /\ SPages' = SPages
      /\ RPages = InUse(disk[FileOf[rfile]])
  BY <1>1, <1>2, <1>3, WalksStay, WalkEnds DEF SPages, RPages
<1>5. /\ ~Scans' /\ frameAmt' = frameAmt
      /\ frameAmt \in Nat /\ join.frameUsed \in Nat
      /\ Cardinality(SPages) \in Nat /\ Cardinality(InUse(disk[FileOf[rfile]])) \in Nat
  BY <1>1, <1>3, FrameAmtType, BeforeFinite DEF Scans, frameAmt, SPages
<1>6. \A c \in Clients : ~Active(c)
  <2> SUFFICES ASSUME NEW c \in Clients, Active(c) PROVE FALSE
    OBVIOUS
  <2>1. c \in ToSet(BlockPins)
    BY <1>1 DEF PinPart
  <2>2. PICK j \in DOMAIN BlockPins : BlockPins[j] = c
    BY <2>1 DEF ToSet
  <2>3. j \in 1..join.frameUsed
    BY <1>1, <1>5, <2>2, PinTypes DEF PinPart
  <2> QED
    BY <1>1, <2>2, <2>3 DEF Released
<1>7. \A c \in Clients : ~Active(c)'
  BY <1>2, <1>6 DEF Active
<1>8. PinPart'
  BY <1>3, <1>5, <1>7, PinTypes, PinsAssumption DEF PinPart
<1>9. CallPart'
  BY <1>1, <1>2, <1>3 DEF CallPart
<1>10. LoopPart'
  BY <1>1, <1>3, <1>4, <1>5 DEF LoopPart
<1>11. CopyPart'
  <2>1. \A p : ~InBlock(p)'
    BY <1>3 DEF InBlock
  <2>2. ASSUME NEW r, NEW s, r[1] \in InUse(disk[FileOf[rfile]])
        PROVE  Compared(r, s)' <=> Compared(r, s)
    BY <1>1, <1>3, <1>4, <2>1, <2>2 DEF Compared
  <2>3. ASSUME NEW t \in Tuples, NEW pair \in PairsFor(t)
        PROVE  Inserted(pair)' <=> Inserted(pair)
    <3>1. RPart(pair)[1] \in InUse(disk[FileOf[rfile]])
      BY <1>1, PairParts
    <3>2. /\ Inserted(pair) <=> Compared(RPart(pair), SPart(pair))
          /\ Inserted(pair)' <=> Compared(RPart(pair), SPart(pair))'
      BY <1>3 DEF Inserted, RPart, SPart
    <3>3. /\ RPart(pair)' = RPart(pair) /\ SPart(pair)' = SPart(pair)
      BY <1>3 DEF RPart, SPart
    <3> QED
      BY <2>2, <3>1, <3>2, <3>3 DEF Compared
  <2> QED
    BY <1>1, <1>2, <1>3, <2>3, CopyStays
<1>12. ReadPart(b + 1)'
  <2> DEFINE sizeR == Cardinality(InUse(disk[FileOf[rfile]]))
             read == Cardinality(SPages)
             used == join.frameUsed
  <2>1. RRead = sizeR /\ RRead' = 0
    BY <1>1, <1>3, <1>4, <1>5 DEF RRead
  <2>2. join.numIOs = read + b * sizeR + sizeR
    BY <1>1, <2>1 DEF ReadPart
  <2>3. b * sizeR + sizeR = (b + 1) * sizeR /\ b * sizeR \in Nat
    BY <1>5, TimesNat
  <2>4. join'.numIOs = Cardinality(SPages') + (b + 1) * Cardinality(InUse(disk'[FileOf[rfile']])) + RRead'
    BY <1>3, <1>4, <1>5, <2>1, <2>2, <2>3
  <2>5. read = b * frameAmt + used /\ used <= frameAmt /\ used <= read
        /\ (used = frameAmt \/ join.sPage = NoPage)
        /\ (used > 0 \/ join.sPage # NoPage)
    BY <1>1 DEF ReadPart, BlocksPart, LoopPart
  <2>6. b * frameAmt + frameAmt = (b + 1) * frameAmt /\ b * frameAmt \in Nat
        /\ (b + 1) - 1 = b
    BY <1>5, TimesNat
  <2>7. \/ read = (b + 1) * frameAmt
        \/ join.sPage = NoPage /\ read \in (b * frameAmt + 1)..((b + 1) * frameAmt)
    <3>1. PICK x \in Nat : x = b * frameAmt
      BY <2>6
    <3>2. (b + 1) * frameAmt = x + frameAmt /\ read = x + used
      BY <2>5, <2>6, <3>1
    <3> HIDE DEF read, used
    <3> QED
      BY <1>5, <2>5, <3>1, <3>2 DEF used, read
  <2>8. SPages # {} \/ join.sPage # NoPage
    <3>1. SPages = {} => read = 0
      BY FS_EmptySet
    <3>2. used <= read /\ used \in Nat /\ (used > 0 \/ join.sPage # NoPage)
      BY <1>5, <2>5
    <3> QED
      BY <3>1, <3>2
  <2>9. BlocksPart(b + 1)'
    <3>1. /\ join'.pc = "load" /\ join'.frameUsed = 0 /\ join'.sPage = join.sPage
          /\ frameAmt' = frameAmt /\ SPages' = SPages
      BY <1>3, <1>4, <1>5
    <3>2. (b + 1) * frameAmt + 0 = (b + 1) * frameAmt
      BY <1>5, TimesNat
    <3>3. \/ read = (b + 1) * frameAmt + 0
          \/ join.sPage = NoPage /\ b + 1 > 0
             /\ read \in (((b + 1) - 1) * frameAmt + 1)..((b + 1) * frameAmt)
      BY <2>6, <2>7, <3>2
    <3> QED
      BY <2>8, <3>1, <3>3 DEF BlocksPart
  <2> QED
    BY <1>1, <1>3, <1>4, <2>4, <2>9 DEF ReadPart
<1> QED
  BY <1>2, <1>3, <1>8, <1>9, <1>10, <1>11, <1>12 DEF JoinRuns, Runs


LEMMA ReleasePageStep ==
    ASSUME OneHandle, NEW b \in Nat, JoinRuns(b), ReleasePage
    PROVE  JoinRuns(b)' /\ Runs'
<1>1. /\ join.pc = "release" /\ join \in Join /\ TupleInv /\ CacheInv
      /\ PinPart /\ CallPart /\ LoopPart /\ CopyPart /\ ReadPart(b)
      /\ ~Scans /\ Released # {} /\ join.rPage = NoPage
      /\ UnPin(BlockPins[Min(Released)], FALSE)
      /\ UNCHANGED heapVars /\ join' = join
  BY DEF ReleasePage, JoinRuns, TupleInv, Scans, LoopPart
<1>2. PICK k \in 1..Len(BlockPins) : k = Min(Released)
  <2>1. Released \in SUBSET (1..join.frameUsed) /\ join.frameUsed \in 0..Len(BlockPins)
    BY <1>1 DEF Released, Join
  <2>2. Released \in SUBSET Nat /\ Released \in SUBSET (1..Len(BlockPins))
    BY <2>1, PinTypes
  <2>3. \E x \in Released : \A y \in Released : x <= y
    BY <1>1, <2>2, LeastNatural
  <2>4. Min(Released) \in Released
    BY <2>3 DEF Min
  <2> QED
    BY <2>2, <2>4
<1>3. /\ TupleInv' /\ CacheInv' /\ TuplesNow' = TuplesNow /\ TablesStay
      /\ ~Active(BlockPins[k])'
      /\ \A e \in Clients \ {BlockPins[k]} : session'[e] = session[e]
      /\ pc' = pc /\ call' = call /\ quiet' = quiet
  <2>1. BlockPins[k] \in Others /\ Ready
    BY <1>1, PinTypes DEF CallPart, Ready
  <2> QED
    BY <1>1, <1>2, <2>1, GiveBackStep DEF TupleInv, heapVars
<1>4. /\ sfile' = sfile /\ rfile' = rfile
      /\ InUse(disk'[FileOf[sfile]]) = InUse(disk[FileOf[sfile]])
      /\ InUse(disk'[FileOf[rfile]]) = InUse(disk[FileOf[rfile]])
      /\ SPages' = SPages /\ RPages' = RPages
      /\ RPages = InUse(disk[FileOf[rfile]])
  BY <1>1, <1>3, WalksStay, WalkEnds DEF SPages, RPages
<1>5. /\ ~Scans' /\ frameAmt' = frameAmt
      /\ \A c \in Clients : Active(c)' => Active(c) /\ session'[c] = session[c]
  BY <1>1, <1>3 DEF Scans, frameAmt, Active
<1>6. \A j \in DOMAIN BlockPins : Active(BlockPins[j])' =>
          Active(BlockPins[j]) /\ BlockPin(j)' = BlockPin(j)
  BY <1>5, PinTypes DEF BlockPin, Others
<1>7. PinPart'
  <2>1. ~Active(ScanPin)' /\ ~Active(InsertPin)'
    BY <1>1, <1>5, PinsAssumption DEF PinPart
  <2>2. \A j \in DOMAIN BlockPins : Active(BlockPins[j])' =>
          /\ j <= join'.frameUsed
          /\ BlockPin(j)'.file = sfile' /\ BlockPin(j)'.page \in SPages'
    BY <1>1, <1>4, <1>6 DEF PinPart
  <2>3. \A j, i \in DOMAIN BlockPins :
           Active(BlockPins[j])' /\ Active(BlockPins[i])' /\ j < i
              => BlockPin(j)'.page < BlockPin(i)'.page
    BY <1>1, <1>6 DEF PinPart
  <2>4. \A c \in Clients : Active(c)' => c \in ToSet(BlockPins) \cup {ScanPin, InsertPin}
    BY <1>1, <1>5 DEF PinPart
  <2> QED
    BY <1>1, <1>5, <2>1, <2>2, <2>3, <2>4 DEF PinPart
<1>8. CallPart'
  BY <1>1, <1>3 DEF CallPart
<1>9. LoopPart'
  BY <1>1, <1>4, <1>5 DEF LoopPart
<1>10. CopyPart'
  <2>1. ASSUME NEW r, NEW s, r[1] \in InUse(disk[FileOf[rfile]])
        PROVE  Compared(r, s)' <=> Compared(r, s)
    BY <1>1, <1>4, <2>1 DEF Compared
  <2>2. ASSUME NEW t \in Tuples, NEW pair \in PairsFor(t)
        PROVE  Inserted(pair)' <=> Inserted(pair)
    <3>1. RPart(pair)[1] \in InUse(disk[FileOf[rfile]])
      BY <1>1, PairParts
    <3>2. /\ Inserted(pair) <=> Compared(RPart(pair), SPart(pair))
          /\ Inserted(pair)' <=> Compared(RPart(pair), SPart(pair))'
      BY DEF Inserted, RPart, SPart
    <3>3. /\ RPart(pair)' = RPart(pair) /\ SPart(pair)' = SPart(pair)
      BY <1>1 DEF RPart, SPart
    <3> QED
      BY <2>1, <3>1, <3>2, <3>3 DEF Compared
  <2> QED
    BY <1>1, <1>3, <2>2, CopyStays
<1>11. ReadPart(b)'
  <2>1. RRead' = RRead
    BY <1>1, <1>4, <1>5 DEF RRead
  <2>2. BlocksPart(b)'
    BY <1>1, <1>4, <1>5 DEF ReadPart, BlocksPart
  <2> QED
    BY <1>1, <1>4, <2>1, <2>2 DEF ReadPart
<1> QED
  BY <1>1, <1>3, <1>7, <1>8, <1>9, <1>10, <1>11 DEF JoinRuns, Runs

-----------------------------------------------------------------------------
(* The positions in a block *)

LEMMA EarlierOrders ==
    ASSUME NEW a \in Nat \X Nat \X Nat, NEW b \in Nat \X Nat \X Nat,
           NEW c \in Nat \X Nat \X Nat
    PROVE  /\ ~Earlier(a, a)
           /\ Earlier(a, b) => ~Earlier(b, a)
           /\ Earlier(a, b) /\ ~Earlier(c, b) => Earlier(a, c)
           /\ ~Earlier(a, b) /\ ~Earlier(b, a) => a = b
<1>1. a = <<a[1], a[2], a[3]>> /\ b = <<b[1], b[2], b[3]>>
  OBVIOUS
<1>2. \A x \in {a, b, c} : x[1] \in Nat /\ x[2] \in Nat /\ x[3] \in Nat
  OBVIOUS
<1>3. ~Earlier(a, b) /\ ~Earlier(b, a) => a = b
  <2>1. ~Earlier(a, b) /\ ~Earlier(b, a) => a[1] = b[1] /\ a[2] = b[2] /\ a[3] = b[3]
    BY <1>2 DEF Earlier
  <2> QED
    BY <1>1, <2>1
<1>4. ~Earlier(a, a) /\ (Earlier(a, b) => ~Earlier(b, a))
  BY <1>2 DEF Earlier
<1>5. Earlier(a, b) /\ ~Earlier(c, b) => Earlier(a, c)
  BY <1>2 DEF Earlier
<1> QED
  BY <1>3, <1>4, <1>5

\* While the page of R is pinned, the tuples at a position are the records of
\* the pages that the pins are on.
LEMMA PositionRecords ==
    ASSUME OneHandle, CacheInv, join \in Join, PinPart, Scans, NEW at \in Positions,
           NEW r, r = <<join.rPage, at[1]>>,
           NEW s, s = <<BlockPin(at[2]).page, at[3]>>
    PROVE  /\ at \in Nat \X Nat \X Nat
           /\ Active(BlockPins[at[2]])
           /\ r \in RecordIds /\ s \in RecordIds
           /\ r[1] \in InUse(disk[FileOf[rfile]]) /\ s[1] \in SPages
           /\ RTuple(at[1]) = TupleAt(rfile, r)
           /\ STuple(at[2], at[3]) = TupleAt(sfile, s)
           /\ RTuple(at[1]) \in Tuples \cup {NoTuple}
           /\ STuple(at[2], at[3]) \in Tuples \cup {NoTuple}
<1>1. /\ at[1] \in Slots /\ at[2] \in 1..join.frameUsed /\ at[3] \in Slots
      /\ at = <<at[1], at[2], at[3]>>
  BY DEF Positions
<1>2. join.frameUsed \in 0..Len(BlockPins)
  BY DEF Join
<1>3. at \in Nat \X Nat \X Nat /\ at[2] \in DOMAIN BlockPins
  BY <1>1, <1>2, PinTypes, SlotsAssumption DEF Slots
<1>4. Active(BlockPins[at[2]]) /\ BlockPins[at[2]] \in Clients
  BY <1>1, <1>3, PinTypes DEF PinPart, Scans, Others
<1>5. BlockPin(at[2]).file = sfile /\ BlockPin(at[2]).page \in SPages
  BY <1>3, <1>4 DEF PinPart
<1>6. /\ ScanPin \in Clients /\ Active(ScanPin) /\ session[ScanPin].file = rfile
      /\ session[ScanPin].page = join.rPage
  BY PinsAssumption DEF PinPart
<1>7. rfile \in Handles /\ sfile \in Handles
  BY TablesTypes
<1>8. /\ r \in RecordIds /\ r[1] \in InUse(disk[FileOf[rfile]])
      /\ RTuple(at[1]) = TupleAt(rfile, r) /\ RTuple(at[1]) \in Tuples \cup {NoTuple}
  BY <1>1, <1>6, <1>7, PinnedTable DEF RTuple
<1>9. /\ s \in RecordIds
      /\ STuple(at[2], at[3]) = TupleAt(sfile, s)
      /\ STuple(at[2], at[3]) \in Tuples \cup {NoTuple}
  BY <1>1, <1>4, <1>5, <1>7, PinnedTable DEF STuple, BlockPin
<1> QED
  BY <1>3, <1>4, <1>5, <1>8, <1>9


\* A pair of the pinned pages is at a position that is compared.
LEMMA PositionOfPair ==
    ASSUME OneHandle, CacheInv, join \in Join, PinPart, Scans,
           NEW t \in Tuples, NEW pair \in PairsFor(t),
           NEW r, r = RPart(pair), NEW s, s = SPart(pair), r[1] = join.rPage,
           NEW i \in 1..join.frameUsed, BlockPin(i).page = s[1],
           NEW at, at = <<r[2], i, s[2]>>
    PROVE  at \in Pairs /\ Result(at) = t
<1>1. /\ r \in RecordIds /\ s \in RecordIds
      /\ TupleAt(rfile, r) # NoTuple /\ TupleAt(sfile, s) # NoTuple
      /\ t = IF join.swapped THEN Joined[TupleAt(rfile, r)][TupleAt(sfile, s)]
             ELSE Joined[TupleAt(sfile, s)][TupleAt(rfile, r)]
  BY PairParts
<1>2. at \in Positions /\ at[1] = r[2] /\ at[2] = i /\ at[3] = s[2]
  BY <1>1 DEF Positions, RecordIds
<1>3. r = <<join.rPage, at[1]>> /\ s = <<BlockPin(at[2]).page, at[3]>>
  BY <1>1, <1>2 DEF RecordIds
<1>4. RTuple(at[1]) = TupleAt(rfile, r) /\ STuple(at[2], at[3]) = TupleAt(sfile, s)
  BY <1>2, <1>3, PositionRecords
<1>5. Result(at) = t /\ BothThere(at)
  BY <1>1, <1>4 DEF Result, BothThere
<1>6. t # NoTuple
  BY TuplesAssumption
<1> QED
  BY <1>2, <1>5, <1>6 DEF Pairs

\* What is put together at a position is the tuple of a pair.
LEMMA PairOfPosition ==
    ASSUME OneHandle, CacheInv, join \in Join, PinPart, Scans, NEW at \in Pairs,
           NEW r, r = <<join.rPage, at[1]>>,
           NEW s, s = <<BlockPin(at[2]).page, at[3]>>,
           NEW pair, pair = IF join.swapped THEN <<r, s>> ELSE <<s, r>>
    PROVE  /\ Result(at) \in Tuples
           /\ pair \in PairsFor(Result(at))
           /\ RPart(pair) = r /\ SPart(pair) = s
<1>1. at \in Positions /\ BothThere(at) /\ Result(at) # NoTuple
  BY DEF Pairs
<1>2. /\ r \in RecordIds /\ s \in RecordIds
      /\ RTuple(at[1]) = TupleAt(rfile, r) /\ RTuple(at[1]) \in Tuples
      /\ STuple(at[2], at[3]) = TupleAt(sfile, s) /\ STuple(at[2], at[3]) \in Tuples
  BY <1>1, PositionRecords DEF BothThere
<1>3. \A l, k \in Tuples : Joined[l][k] \in Tuples \cup {NoTuple}
  BY JoinedAssumption
<1>4. Result(at) \in Tuples
  BY <1>1, <1>2, <1>3 DEF Result
<1>5. CASE join.swapped
  <2>1. /\ pair = <<r, s>> /\ rfile = LeftTable /\ sfile = RightTable
        /\ Result(at) = Joined[TupleAt(LeftTable, r)][TupleAt(RightTable, s)]
    BY <1>2, <1>5 DEF rfile, sfile, Result
  <2>2. pair \in PairsFor(Result(at))
    BY <1>1, <1>2, <2>1 DEF PairsFor, BothThere
  <2> QED
    BY <1>4, <1>5, <2>1, <2>2 DEF RPart, SPart
<1>6. CASE ~join.swapped
  <2>1. /\ pair = <<s, r>> /\ rfile = RightTable /\ sfile = LeftTable
        /\ Result(at) = Joined[TupleAt(LeftTable, s)][TupleAt(RightTable, r)]
    BY <1>2, <1>6 DEF rfile, sfile, Result
  <2>2. pair \in PairsFor(Result(at))
    BY <1>1, <1>2, <2>1 DEF PairsFor, BothThere
  <2> QED
    BY <1>4, <1>6, <2>1, <2>2 DEF RPart, SPart
<1> QED
  BY <1>5, <1>6

-----------------------------------------------------------------------------
(* The page of R is given back *)

LEMMA EndPageStep ==
    ASSUME OneHandle, NEW b \in Nat, JoinRuns(b), EndPage
    PROVE  JoinRuns(b)' /\ Runs'
<1>1. /\ join.pc = "match" /\ join \in Join /\ TupleInv /\ CacheInv
      /\ PinPart /\ CallPart /\ LoopPart /\ CopyPart /\ ReadPart(b)
      /\ Scans /\ PairsLeft = {} /\ UnPin(ScanPin, FALSE) /\ UNCHANGED heapVars
  BY DEF EndPage, JoinRuns, TupleInv, Scans
<1>2. PICK m \in Files : m = FileOf[rfile]
  BY TablesTypes
<1>3. /\ TupleInv' /\ CacheInv' /\ TuplesNow' = TuplesNow /\ TablesStay
      /\ ~Active(ScanPin)'
      /\ \A e \in Clients \ {ScanPin} : session'[e] = session[e]
      /\ pc' = pc /\ call' = call /\ quiet' = quiet
  <2>1. ScanPin \in Others /\ Ready
    BY <1>1, PinTypes DEF CallPart, Ready
  <2> QED
    BY <1>1, <2>1, GiveBackStep DEF TupleInv, heapVars
<1>4. join' = [join EXCEPT !.pc = "scan", !.rPage = Successor(disk[m], join.rPage)]
  BY <1>1, <1>2 DEF EndPage, ImageOf
<1>5. /\ join'.swapped = join.swapped /\ join'.sPage = join.sPage
      /\ join'.budget = join.budget /\ join'.rPage = Successor(disk[m], join.rPage)
      /\ join'.frameUsed = join.frameUsed /\ join'.at = join.at
      /\ join'.numIOs = join.numIOs /\ join'.numResultTuples = join.numResultTuples
      /\ join'.pc = "scan"
  BY <1>1, <1>4 DEF Join
<1>6. /\ sfile' = sfile /\ rfile' = rfile
      /\ InUse(disk'[FileOf[sfile]]) = InUse(disk[FileOf[sfile]])
      /\ InUse(disk'[m]) = InUse(disk[m])
      /\ SPages' = SPages /\ RPages' = Before(m, join'.rPage)
  BY <1>1, <1>2, <1>3, <1>5, WalksStay DEF SPages
<1>7. join.rPage \in InUse(disk[m]) /\ RPages = Before(m, join.rPage)
  BY <1>1, <1>2 DEF LoopPart, RPages
<1>8. /\ join'.rPage \in InUse(disk[m]) \cup {NoPage}
      /\ join.rPage \notin RPages
      /\ RPages' = RPages \cup {join.rPage}
      /\ Cardinality(RPages') = Cardinality(RPages) + 1
      /\ Cardinality(RPages) \in Nat
  BY <1>1, <1>5, <1>6, <1>7, WalkGoesOn, BeforeFinite
<1>9. join' \in Join
  <2>1. Successor(disk[m], join.rPage) \in PageRefs
    BY <1>5, <1>8, InUseType, PageNumbers
  <2> QED
    BY <1>1, <1>4, <2>1 DEF Join
<1>10. /\ ~Scans' /\ frameAmt' = frameAmt
       /\ \A c \in Clients \ {ScanPin} : Active(c)' <=> Active(c)
       /\ \A j \in DOMAIN BlockPins : /\ Active(BlockPins[j])' <=> Active(BlockPins[j])
                                      /\ BlockPin(j)' = BlockPin(j)
       /\ Active(InsertPin)' <=> Active(InsertPin)
  BY <1>3, <1>5, PinTypes, PinsAssumption DEF Scans, frameAmt, Active, BlockPin, Others
<1>11. /\ join.frameUsed \in Nat
       /\ \A j \in 1..join.frameUsed : j \in DOMAIN BlockPins /\ Active(BlockPins[j])
  <2>1. join.frameUsed \in 0..Len(BlockPins)
    BY <1>1 DEF Join
  <2>2. join.frameUsed \in Nat /\ \A j \in 1..join.frameUsed : j \in DOMAIN BlockPins
    BY <2>1, PinTypes
  <2> QED
    BY <1>1, <2>2 DEF PinPart
<1>12. PinPart'
  <2>1. \A c \in Clients : Active(c)' => c \in ToSet(BlockPins) \cup {ScanPin, InsertPin}
    BY <1>1, <1>3, <1>10 DEF PinPart
  <2>2. ~Active(InsertPin)'
    BY <1>1, <1>10 DEF PinPart
  <2>3. \A j \in DOMAIN BlockPins : Active(BlockPins[j])' =>
          /\ j <= join'.frameUsed
          /\ BlockPin(j)'.file = sfile' /\ BlockPin(j)'.page \in SPages'
    BY <1>1, <1>5, <1>6, <1>10 DEF PinPart
  <2>4. \A j \in 1..join'.frameUsed : Active(BlockPins[j])'
    BY <1>5, <1>10, <1>11
  <2>5. \A j, k \in DOMAIN BlockPins :
           Active(BlockPins[j])' /\ Active(BlockPins[k])' /\ j < k
              => BlockPin(j)'.page < BlockPin(k)'.page
    BY <1>1, <1>10 DEF PinPart
  <2> QED
    BY <1>3, <1>10, <2>1, <2>2, <2>3, <2>4, <2>5 DEF PinPart
<1>13. CallPart'
  BY <1>1, <1>3, <1>5 DEF CallPart
<1>14. LoopPart'
  BY <1>1, <1>2, <1>5, <1>6, <1>8, <1>10 DEF LoopPart
<1>15. CopyPart'
  <2>1. \A p : InBlock(p)' <=> InBlock(p)
    BY <1>5, <1>10, <1>11 DEF InBlock
  <2>2. ASSUME NEW t \in Tuples, NEW pair \in PairsFor(t)
        PROVE  Inserted(pair)' <=> Inserted(pair)
    <3>1. PICK r, s : r = RPart(pair) /\ s = SPart(pair)
      OBVIOUS
    <3>2. /\ Inserted(pair) <=> Compared(r, s)
          /\ Inserted(pair)' <=> Compared(r, s)'
      BY <1>5, <3>1 DEF Inserted, RPart, SPart
    <3>3. ASSUME InBlock(s[1]), r[1] = join.rPage PROVE Passed(r, s)
      <4>1. PICK i \in 1..join.frameUsed : BlockPin(i).page = s[1]
        BY <3>3 DEF InBlock
      <4>2. PICK at : at = <<r[2], i, s[2]>>
        OBVIOUS
      <4>3. at \in Pairs
        BY <1>1, <3>1, <3>3, <4>1, <4>2, PositionOfPair
      <4>4. ~Earlier(join.at, at)
        BY <1>1, <4>3 DEF PairsLeft
      <4> QED
        BY <4>1, <4>2, <4>4 DEF Passed
    <3> QED
      BY <1>1, <1>5, <1>6, <1>8, <1>10, <2>1, <3>2, <3>3 DEF Compared
  <2> QED
    BY <1>1, <1>3, <1>5, <2>2, CopyStays
<1>16. ReadPart(b)'
  <2>1. RRead' = RRead
    BY <1>1, <1>5, <1>8, <1>10 DEF RRead
  <2>2. BlocksPart(b)'
    BY <1>1, <1>5, <1>6, <1>10 DEF ReadPart, BlocksPart
  <2> QED
    BY <1>1, <1>2, <1>5, <1>6, <2>1, <2>2 DEF ReadPart
<1> QED
  BY <1>3, <1>5, <1>9, <1>12, <1>13, <1>14, <1>15, <1>16 DEF JoinRuns, Runs


-----------------------------------------------------------------------------
(* The next pair is found *)

\* No two pins of the block are on one page.
LEMMA FrameOfPage ==
    ASSUME join \in Join, PinPart, Scans, NEW x, NEW p, NEW k, NEW l,
           NEW i \in 1..join.frameUsed, BlockPin(i).page = p
    PROVE  /\ \A j \in 1..join.frameUsed : BlockPin(j).page = p => j = i
           /\ (\E j \in 1..join.frameUsed :
                   BlockPin(j).page = p /\ ~Earlier(x, <<k, j, l>>))
                 <=> ~Earlier(x, <<k, i, l>>)
           /\ InBlock(p)
<1>1. join.frameUsed \in 0..Len(BlockPins)
  BY DEF Join
<1>2. /\ \A j \in 1..join.frameUsed : j \in DOMAIN BlockPins /\ Active(BlockPins[j])
      /\ \A j \in 1..join.frameUsed : BlockPin(j).page \in SPages
  <2>1. \A j \in 1..join.frameUsed : j \in DOMAIN BlockPins
    BY <1>1, PinTypes
  <2>2. \A j \in 1..join.frameUsed : Active(BlockPins[j])
    BY DEF PinPart, Scans
  <2> QED
    BY <2>1, <2>2 DEF PinPart
<1>3. SPages \in SUBSET Nat
  BY InUseType DEF SPages, Before
<1>4. ASSUME NEW j \in 1..join.frameUsed, BlockPin(j).page = p PROVE j = i
  <2>1. j < i => BlockPin(j).page < BlockPin(i).page
    BY <1>2 DEF PinPart
  <2>2. i < j => BlockPin(i).page < BlockPin(j).page
    BY <1>2 DEF PinPart
  <2>3. p \in Nat
    BY <1>2, <1>3
  <2>4. i \in Nat /\ j \in Nat
    BY <1>1, PinTypes
  <2> QED
    BY <1>4, <2>1, <2>2, <2>3, <2>4
<1> QED
  BY <1>2, <1>4 DEF InBlock

\* Between two calls nobody has a page of the result pinned.
LEMMA ResultUnpinned ==
    ASSUME TupleInv, PinPart, join.pc # "insert"
    PROVE  \A f \in FramesOf(Table) : bufDescTable[f].pinCnt = 0
<1> SUFFICES ASSUME NEW f \in FramesOf(Table), bufDescTable[f].pinCnt # 0 PROVE FALSE
  OBVIOUS
<1>1. PinInv /\ f \in Frames /\ bufDescTable[f].file = Table
  BY TupleInvParts DEF FramesOf
<1>2. bufDescTable[f].pinCnt = Cardinality(Owners(f))
  BY <1>1 DEF PinInv, PinsCounted, Owners
<1>3. PICK c \in Clients : session[c].frame = f
  BY <1>2, FS_EmptySet DEF Owners
<1>4. Active(c) /\ session[c].file = Table
  BY <1>1, <1>3, OwnerIsActive DEF PinInv, PinnedPageStays
<1>5. c \in ToSet(BlockPins) \cup {ScanPin}
  BY <1>4 DEF PinPart
<1>6. session[c].file \in {sfile, rfile}
  <2>1. CASE c = ScanPin
    BY <1>4, <2>1 DEF PinPart
  <2>2. CASE c \in ToSet(BlockPins)
    <3>1. PICK j \in DOMAIN BlockPins : BlockPins[j] = c
      BY <2>2 DEF ToSet
    <3> QED
      BY <1>4, <3>1 DEF PinPart, BlockPin
  <2> QED
    BY <1>5, <2>1, <2>2
<1> QED
  BY <1>4, <1>6, TablesTypes

\* insertTuple begins: quietly, and as a step that no client notices in a table.
LEMMA BeginStep ==
    ASSUME OneHandle, TupleInv, PinPart, join.pc # "insert", pc = "returned",
           NEW t \in Tuples, BeginInsert(InsertPin, t) \/ BeginInsertInNewPage(InsertPin, t)
    PROVE  /\ TupleInv' /\ TuplesNow' = TuplesNow /\ TablesStay
           /\ session' = session /\ quiet' /\ pc' = "pin"
           /\ call'.op = "insert" /\ call'.tuple = t
<1>1. InsertPin \in Callers
  BY PinTypes
<1>2. /\ quiet' /\ pc' = "pin" /\ session' = session
      /\ call'.op = "insert" /\ call'.tuple = t
  <2>1. Begins(InsertPin)
    BY DEF BeginInsert, BeginInsertInNewPage
  <2>2. quiet'
    BY <2>1, ResultUnpinned DEF Begins
  <2> QED
    BY <2>2 DEF BeginInsert, BeginInsertInNewPage, vars
<1>3. CacheInv' /\ CallState' /\ TuplesNow' = TuplesNow
  BY <1>1, BeginInsertStep, BeginInsertInNewPageStep
<1>4. CallInv'
  <2>1. HeapNext
    BY <1>1 DEF HeapNext
  <2> QED
    BY <2>1, HeapInvNext, TupleInvParts DEF HeapInv, TupleInv
<1>5. TablesStay
  <2>1. CASE BeginInsert(InsertPin, t)
    BY <2>1, PoolUntouched, UnnoticedTables DEF TupleInv, BeginInsert, vars, pool
  <2>2. CASE BeginInsertInNewPage(InsertPin, t)
    <3>1. Becomes(TableFile, NewNumber(Table), EmptyData)
      BY <2>2, GrownBehind DEF BeginInsertInNewPage, TupleInv
    <3> QED
      BY <3>1 DEF Becomes, TablesStay
  <2> QED
    BY <2>1, <2>2
<1> QED
  BY <1>2, <1>3, <1>4, <1>5 DEF TupleInv

\* Execute comes to the next pair.
LEMMA OnePairMore ==
    ASSUME OneHandle, NEW b, JoinRuns(b), join.pc = "match", NEW at \in PairsLeft,
           \A c \in PairsLeft : ~Earlier(c, at),
           join' = [join EXCEPT !.pc = "insert", !.at = at], session' = session,
           TupleInv', TablesStay,
           NEW new, new = LET r == <<join.rPage, at[1]>>
                              s == <<BlockPin(at[2]).page, at[3]>>
                          IN  IF join.swapped THEN <<r, s>> ELSE <<s, r>>
    PROVE  /\ new \in PairsFor(Result(at)) /\ Result(at) \in Tuples
           /\ ~Inserted(new)
           /\ \A t \in Tuples : \A pair \in PairsFor(t) :
                 Inserted(pair)' <=> Inserted(pair) \/ pair = new
<1>1. /\ join \in Join /\ CacheInv /\ CacheInv' /\ PinPart /\ LoopPart /\ Scans
      /\ at \in Pairs /\ Earlier(join.at, at)
  BY DEF JoinRuns, TupleInv, Scans, PairsLeft
<1>2. PICK r0, s0 : r0 = <<join.rPage, at[1]>> /\ s0 = <<BlockPin(at[2]).page, at[3]>>
  OBVIOUS
<1>3. new = IF join.swapped THEN <<r0, s0>> ELSE <<s0, r0>>
  BY <1>2
<1>4. /\ Result(at) \in Tuples /\ new \in PairsFor(Result(at))
      /\ RPart(new) = r0 /\ SPart(new) = s0
  BY <1>1, <1>2, <1>3, PairOfPosition
<1>5. /\ at \in Positions /\ at \in Nat \X Nat \X Nat
      /\ join.at \in Nat \X Nat \X Nat
      /\ r0 \in RecordIds /\ s0 \in RecordIds /\ s0[1] \in SPages
  BY <1>1, <1>2, PositionRecords DEF Pairs, Join
<1>6. at[2] \in 1..join.frameUsed /\ at = <<at[1], at[2], at[3]>>
  BY <1>5 DEF Positions
<1>7. join.rPage \in InUse(disk[FileOf[rfile]]) /\ join.rPage \notin RPages
  <2>1. join.rPage \in InUse(disk[FileOf[rfile]]) /\ join.rPage # NoPage
    BY <1>1 DEF LoopPart
  <2>2. join.rPage \in Nat
    BY <2>1, InUseType
  <2> QED
    BY <2>1, <2>2 DEF RPages, Before
<1>8. ~Inserted(new)
  <2>1. InBlock(s0[1]) /\ ~Passed(r0, s0)
    BY <1>1, <1>2, <1>6, FrameOfPage DEF Passed
  <2>2. ~Compared(r0, s0)
    BY <1>1, <1>2, <1>5, <1>7, <2>1 DEF Compared
  <2> QED
    BY <1>4, <2>2 DEF Inserted, RPart, SPart
<1>9. /\ join'.pc = "insert" /\ join'.at = at /\ join'.swapped = join.swapped
      /\ join'.sPage = join.sPage /\ join'.rPage = join.rPage
      /\ join'.frameUsed = join.frameUsed
  BY <1>1 DEF Join
<1>10. /\ Scans' /\ SPages' = SPages /\ RPages' = RPages
       /\ \A j : BlockPin(j)' = BlockPin(j)
       /\ \A p : InBlock(p)' <=> InBlock(p)
  BY <1>1, <1>9, WalksStay DEF Scans, SPages, RPages, BlockPin, InBlock, Active
<1>11. ASSUME NEW t \in Tuples, NEW pair \in PairsFor(t)
       PROVE  Inserted(pair)' <=> Inserted(pair) \/ pair = new
  <2>1. PICK r, s : r = RPart(pair) /\ s = SPart(pair)
    OBVIOUS
  <2>2. /\ Inserted(pair) <=> Compared(r, s)
        /\ Inserted(pair)' <=> Compared(r, s)'
    BY <1>9, <2>1 DEF Inserted, RPart, SPart
  <2>3. r \in RecordIds /\ s \in RecordIds /\ pair = IF join.swapped THEN <<r, s>> ELSE <<s, r>>
    BY <1>1, <2>1, PairParts
  <2>4. pair = new <=> r = r0 /\ s = s0
    BY <1>3, <1>4, <2>1, <2>3
  <2>5. ASSUME InBlock(s[1]), r[1] = join.rPage, s[1] \in SPages
        PROVE  Passed(r, s)' <=> Passed(r, s) \/ (r = r0 /\ s = s0)
    <3>1. PICK i \in 1..join.frameUsed : BlockPin(i).page = s[1]
      BY <2>5 DEF InBlock
    <3>2. PICK pos : pos = <<r[2], i, s[2]>>
      OBVIOUS
    <3>3. pos \in Pairs
      BY <1>1, <2>1, <2>5, <3>1, <3>2, PositionOfPair
    <3>4. /\ Passed(r, s) <=> ~Earlier(join.at, pos)
          /\ Passed(r, s)' <=> ~Earlier(at, pos)
      <4>1. \A x : (\E j \in 1..join.frameUsed :
                        BlockPin(j).page = s[1] /\ ~Earlier(x, <<r[2], j, s[2]>>))
                      <=> ~Earlier(x, pos)
        <5>1. \A j \in 1..join.frameUsed : BlockPin(j).page = s[1] => j = i
          BY <1>1, <3>1, FrameOfPage
        <5> QED
          BY <3>1, <3>2, <5>1
      <4>2. /\ Passed(r, s) <=> \E j \in 1..join.frameUsed :
                    BlockPin(j).page = s[1] /\ ~Earlier(join.at, <<r[2], j, s[2]>>)
            /\ Passed(r, s)' <=> \E j \in 1..join.frameUsed :
                    BlockPin(j).page = s[1] /\ ~Earlier(at, <<r[2], j, s[2]>>)
        BY <1>9, <1>10 DEF Passed, Earlier
      <4> QED
        BY <4>1, <4>2
    <3>5. pos = at <=> r = r0 /\ s = s0
      <4>1. r = <<join.rPage, r[2]>> /\ s = <<s[1], s[2]>>
        BY <2>3, <2>5 DEF RecordIds
      <4>2. at[2] = i <=> BlockPin(at[2]).page = s[1]
        BY <1>1, <1>6, <3>1, FrameOfPage
      <4> QED
        BY <1>2, <1>6, <3>1, <3>2, <4>1, <4>2
    <3>6. pos \in Nat \X Nat \X Nat
      BY <1>1, <3>3, PositionRecords DEF Pairs
    <3>7. Earlier(join.at, pos) => ~Earlier(pos, at)
      BY <3>3 DEF PairsLeft
    <3>8. ~Earlier(join.at, pos) => Earlier(pos, at)
      BY <1>1, <1>5, <3>6, EarlierOrders
    <3>9. /\ Earlier(pos, at) => ~Earlier(at, pos)
          /\ ~Earlier(pos, at) => (~Earlier(at, pos) <=> pos = at)
      BY <1>5, <3>6, EarlierOrders
    <3>10. pos = at => Earlier(join.at, pos)
      BY <1>1
    <3> QED
      BY <3>4, <3>5, <3>7, <3>8, <3>9, <3>10
  <2>6. r = r0 /\ s = s0 => InBlock(s[1]) /\ r[1] = join.rPage /\ s[1] \in SPages
    BY <1>1, <1>2, <1>5, <1>6, FrameOfPage
  <2>7. Compared(r, s)' <=> Compared(r, s) \/ (r = r0 /\ s = s0)
    BY <1>1, <1>7, <1>9, <1>10, <2>5, <2>6 DEF Compared
  <2> QED
    BY <2>2, <2>4, <2>7
<1> QED
  BY <1>4, <1>8, <1>11


LEMMA InsertPairStep ==
    ASSUME OneHandle, NEW b \in Nat, JoinRuns(b), InsertPair
    PROVE  JoinRuns(b)' /\ Runs'
<1>1. /\ join.pc = "match" /\ join \in Join /\ TupleInv /\ CacheInv
      /\ PinPart /\ CallPart /\ LoopPart /\ CopyPart /\ ReadPart(b)
      /\ Scans /\ pc = "returned"
  BY DEF InsertPair, JoinRuns, TupleInv, Scans, CallPart
<1>2. PICK at \in PairsLeft :
          /\ \A c \in PairsLeft : ~Earlier(c, at)
          /\ BeginInsert(InsertPin, Result(at)) \/ BeginInsertInNewPage(InsertPin, Result(at))
          /\ join' = [join EXCEPT !.pc = "insert", !.at = at]
  BY DEF InsertPair
<1>3. PICK r, s : r = <<join.rPage, at[1]>> /\ s = <<BlockPin(at[2]).page, at[3]>>
  OBVIOUS
<1>4. PICK new : new = IF join.swapped THEN <<r, s>> ELSE <<s, r>>
  OBVIOUS
<1>5. at \in Pairs /\ Result(at) \in Tuples /\ at \in Nat \X Nat \X Nat
  BY <1>1, <1>3, <1>4, PairOfPosition, PositionRecords DEF PairsLeft, Pairs
<1>6. /\ TupleInv' /\ CacheInv' /\ TuplesNow' = TuplesNow /\ TablesStay
      /\ session' = session /\ quiet' /\ pc' = "pin"
      /\ call'.op = "insert" /\ call'.tuple = Result(at)
  BY <1>1, <1>2, <1>5, BeginStep DEF TupleInv
<1>7. /\ new \in PairsFor(Result(at)) /\ ~Inserted(new)
      /\ \A t \in Tuples : \A pair \in PairsFor(t) :
            Inserted(pair)' <=> Inserted(pair) \/ pair = new
  BY <1>1, <1>2, <1>3, <1>4, <1>6, OnePairMore
<1>8. /\ join'.swapped = join.swapped /\ join'.sPage = join.sPage
      /\ join'.budget = join.budget /\ join'.rPage = join.rPage
      /\ join'.frameUsed = join.frameUsed
      /\ join'.numIOs = join.numIOs /\ join'.numResultTuples = join.numResultTuples
      /\ join'.pc = "insert" /\ join' \in Join /\ join.numResultTuples \in Nat
  BY <1>1, <1>2, <1>5 DEF Join
<1>9. /\ sfile' = sfile /\ rfile' = rfile
      /\ InUse(disk'[FileOf[sfile]]) = InUse(disk[FileOf[sfile]])
      /\ InUse(disk'[FileOf[rfile]]) = InUse(disk[FileOf[rfile]])
      /\ SPages' = SPages /\ RPages' = RPages
  BY <1>1, <1>6, <1>8, WalksStay DEF SPages, RPages
<1>10. /\ Scans' /\ frameAmt' = frameAmt
       /\ \A c : Active(c)' <=> Active(c)
       /\ \A j : BlockPin(j)' = BlockPin(j)
  BY <1>6, <1>8 DEF Scans, frameAmt, Active, BlockPin
<1>11. PinPart'
  BY <1>1, <1>6, <1>8, <1>9, <1>10 DEF PinPart
<1>12. CallPart'
  BY <1>6, <1>8 DEF CallPart, Ready
<1>13. LoopPart'
  BY <1>1, <1>8, <1>9, <1>10 DEF LoopPart
<1>14. CopyPart'
  <2>1. ASSUME NEW t \in Tuples
        PROVE  /\ PairsDone(t)' = IF t = Result(at) THEN PairsDone(t) \cup {new} ELSE PairsDone(t)
               /\ new \notin PairsDone(t)
               /\ IsFiniteSet(PairsDone(t)) /\ Cardinality(PairsDone(t)) \in Nat
    <3>1. PairsFor(t)' = PairsFor(t)
      BY <1>1, <1>6, PairsStay
    <3>2. new \in PairsFor(t) => t = Result(at)
      BY <1>7 DEF PairsFor
    <3>3. PairsDone(t)' = IF t = Result(at) THEN PairsDone(t) \cup {new} ELSE PairsDone(t)
      BY <1>7, <3>1, <3>2 DEF PairsDone
    <3> QED
      BY <1>7, <3>3, PairsFinite DEF PairsDone
  <2>2. ASSUME NEW t \in Tuples
        PROVE  Cardinality(PairsDone(t)') = CopiesOf(t)' + (IF Waits(t)' THEN 1 ELSE 0)
    <3>1. Cardinality(PairsDone(t)) = CopiesOf(t) /\ CopiesOf(t)' = CopiesOf(t)
      <4>1. ~Waits(t) /\ CopiesOf(t) \in Nat
        BY <1>1, PairsFinite DEF Waits
      <4>2. Cardinality(PairsDone(t)) = CopiesOf(t) + (IF Waits(t) THEN 1 ELSE 0)
        BY <1>1 DEF CopyPart
      <4>3. CopiesOf(t)' = CopiesOf(t)
        BY <1>6 DEF CopiesOf
      <4> QED
        BY <4>1, <4>2, <4>3
    <3>2. Waits(t)' <=> t = Result(at)
      BY <1>6, <1>8 DEF Waits
    <3>3. Cardinality(PairsDone(t)') = Cardinality(PairsDone(t)) + (IF t = Result(at) THEN 1 ELSE 0)
      BY <2>1, FS_AddElement
    <3> QED
      BY <3>1, <3>2, <3>3
  <2>3. AllDone' = AllDone \cup {new} /\ new \notin AllDone
    BY <1>5, <2>1 DEF AllDone
  <2>4. Cardinality(AllDone') = Cardinality(AllDone) + 1 /\ Cardinality(AllDone) \in Nat
    BY <2>3, PairsFinite, FS_AddElement
  <2>5. Cardinality(AllDone) = join.numResultTuples
    BY <1>1, <1>8 DEF CopyPart
  <2> QED
    BY <1>8, <2>2, <2>4, <2>5 DEF CopyPart
<1>15. ReadPart(b)'
  <2>1. RRead' = RRead
    BY <1>1, <1>8, <1>9, <1>10 DEF RRead
  <2>2. BlocksPart(b)'
    BY <1>1, <1>8, <1>9, <1>10 DEF ReadPart, BlocksPart
  <2> QED
    BY <1>1, <1>8, <1>9, <2>1, <2>2 DEF ReadPart
<1> QED
  BY <1>6, <1>8, <1>11, <1>12, <1>13, <1>14, <1>15 DEF JoinRuns, Runs

-----------------------------------------------------------------------------
(* insertTuple runs *)

\* No step of insertTuple touches a table or another pin, and none of them fails
\* but the one that needs a frame and the one that needs room for the tuple.
LEMMA InsertStep ==
    ASSUME OneHandle, TupleInv, quiet, ~Ready, call.op = "insert",
           Pin \/ InsertRecord \/ UnpinEdited \/ Flush
    PROVE  /\ TupleInv' /\ TablesStay
           /\ \A e \in Clients \ {InsertPin} : session'[e] = session[e]
           /\ quiet' /\ call' = call
           /\ \/ /\ pc = "pin" /\ pc' = "edit" /\ TuplesNow' = TuplesNow
              \/ /\ pc = "edit" /\ pc' = "unpin" /\ call.tuple \in Tuples
                 /\ \E r \in RecordIds : Heap!Insert(r, call.tuple)
              \/ /\ pc = "unpin" /\ pc' = "flush" /\ TuplesNow' = TuplesNow
              \/ /\ pc = "flush" /\ pc' = "returned" /\ TuplesNow' = TuplesNow
           /\ Active(InsertPin)' => session'[InsertPin].file = Table
<1>1. /\ IInv /\ CacheInv /\ call.caller = InsertPin /\ InsertPin \in Clients
      /\ Table \in Handles /\ TableFile = FileOf[Table]
  BY TupleInvParts, PinTypes, TableAssumption
  DEF TupleInv, CallState, Quietness, TableFile
<1>2. HeapNext
  BY DEF HeapNext
<1>3. CallInv'
  BY <1>2, HeapInvNext, TupleInvParts DEF HeapInv, TupleInv
<1>4. CASE Pin
  <2>1. CacheInv' /\ CallState' /\ TuplesNow' = TuplesNow
    BY <1>4, PinStep
  <2>2. /\ pc = "pin" /\ pc' = "edit" /\ call' = call /\ quiet' = quiet
        /\ call.page \in PageIds
        /\ ReadHit(InsertPin, Table, call.page) \/ ReadMiss(InsertPin, Table, call.page)
    BY <1>1, <1>4, TupleInvParts DEF Pin
  <2>3. TablesStay
    BY <1>1, <2>2, ReadHitUnnoticed, ReadMissUnnoticed, UnnoticedTables
  <2>4. session'[InsertPin].file = Table /\ \A e \in Clients \ {InsertPin} : session'[e] = session[e]
    BY <1>1, <2>2, GetsPin
  <2> QED
    BY <1>3, <2>1, <2>2, <2>3, <2>4 DEF TupleInv
<1>5. CASE InsertRecord
  <2>1. /\ CacheInv' /\ CallState' /\ call.tuple \in Tuples
        /\ \E r \in RecordIds : Heap!Insert(r, call.tuple)
    BY <1>5, InsertRecordStep
  <2>2. /\ pc = "edit" /\ pc' = "unpin" /\ call' = call /\ quiet' = quiet
        /\ HasSpace(Pinned, call.tuple)
        /\ WritePinned(InsertPin, [Pinned EXCEPT ![FirstFree(Pinned)] = call.tuple])
    BY <1>1, <1>5 DEF InsertRecord
  <2>3. Active(InsertPin) /\ session[InsertPin].file = Table /\ Pinned \in Data
    BY <1>1, <2>2, EditedPage DEF TupleInv, CallState, PinOfCall
  <2>4. [Pinned EXCEPT ![FirstFree(Pinned)] = call.tuple] \in Data
    BY <2>1, <2>2, <2>3, FirstFreeIsFree, ContentsAssumption DEF Contents
  <2>5. Becomes(TableFile, session[InsertPin].page, [Pinned EXCEPT ![FirstFree(Pinned)] = call.tuple])
    BY <1>1, <2>2, <2>3, <2>4, WritePinnedWrites
  <2>6. TablesStay
    BY <2>5 DEF Becomes, TablesStay
  <2>7. session'[InsertPin].file = Table /\ \A e \in Clients \ {InsertPin} : session'[e] = session[e]
    BY <1>1, <2>2, <2>3, WritesPinned
  <2> QED
    BY <1>3, <2>1, <2>2, <2>6, <2>7 DEF TupleInv
<1>6. CASE UnpinEdited
  <2>1. CacheInv' /\ CallState' /\ TuplesNow' = TuplesNow
    BY <1>6, UnpinEditedStep
  <2>2. /\ pc = "unpin" /\ pc' = "flush" /\ call' = call /\ quiet' = quiet
        /\ UnPin(InsertPin, TRUE)
    BY <1>1, <1>6 DEF UnpinEdited
  <2>3. TablesStay
    BY <1>1, <2>2, UnPinUnnoticed, UnnoticedTables
  <2>4. ~Active(InsertPin)' /\ \A e \in Clients \ {InsertPin} : session'[e] = session[e]
    BY <1>1, <2>2, GivesPinBack
  <2> QED
    BY <1>3, <2>1, <2>2, <2>3, <2>4 DEF TupleInv
<1>7. CASE Flush
  <2>1. CacheInv' /\ CallState' /\ TuplesNow' = TuplesNow
    BY <1>7, FlushStep
  <2>2. /\ pc = "flush" /\ call' = call /\ quiet' = quiet
        /\ FlushFile(Table) \/ UNCHANGED vars
    BY <1>7 DEF Flush
  <2>3. pc' = "returned"
    BY <1>7, <2>2, QuietFlush DEF Flush
  <2>4. TablesStay /\ session' = session
    <3>1. CASE FlushFile(Table)
      BY <1>1, <3>1, FlushUnnoticed, UnnoticedTables DEF FlushFile
    <3>2. CASE UNCHANGED vars
      BY <1>1, <3>2, PoolUntouched, UnnoticedTables DEF vars, pool
    <3> QED
      BY <2>2, <3>1, <3>2
  <2>5. ~Active(InsertPin)'
    BY <1>1, <2>2, <2>4 DEF TupleInv, CallState, PinOfCall, Active
  <2> QED
    BY <1>3, <2>1, <2>2, <2>3, <2>4, <2>5 DEF TupleInv
<1> QED
  BY <1>4, <1>5, <1>6, <1>7


\* A tuple put into a free record is one copy more.
LEMMA OneCopyMore ==
    ASSUME NEW r \in RecordIds, NEW new \in Tuples, Heap!Insert(r, new), NEW t \in Tuples
    PROVE  CopiesOf(t)' = CopiesOf(t) + (IF t = new THEN 1 ELSE 0)
<1> DEFINE Of(f) == {q \in RecordIds : f[q] = t}
<1>1. PICK old : old = TuplesNow
  OBVIOUS
<1>2. PICK now : now = TuplesNow'
  OBVIOUS
<1>3. old[r] = NoTuple /\ now = [old EXCEPT ![r] = new] /\ DOMAIN old = RecordIds
  BY <1>1, <1>2 DEF Heap!Insert, TuplesNow
<1>4. CopiesOf(t) = Cardinality(Of(old)) /\ CopiesOf(t)' = Cardinality(Of(now))
  BY <1>1, <1>2 DEF CopiesOf
<1>5. IsFiniteSet(Of(old))
  BY RecordsFinite, FS_Subset
<1>6. r \notin Of(old)
  BY <1>3, TuplesAssumption
<1>7. CASE t = new
  <2>1. Of(now) = Of(old) \cup {r}
    BY <1>3, <1>7
  <2> QED
    BY <1>4, <1>5, <1>6, <1>7, <2>1, FS_AddElement
<1>8. CASE t # new
  <2>1. Of(now) = Of(old)
    BY <1>3, <1>6, <1>8
  <2>2. Cardinality(Of(old)) \in Nat
    BY <1>5, FS_CardinalityType
  <2> QED
    BY <1>4, <1>8, <2>1, <2>2
<1> QED
  BY <1>7, <1>8

LEMMA InsertingStep ==
    ASSUME OneHandle, NEW b \in Nat, JoinRuns(b), Inserting, pc' # "threw"
    PROVE  JoinRuns(b)' /\ Runs'
<1>1. /\ join.pc = "insert" /\ join \in Join /\ TupleInv /\ CacheInv
      /\ PinPart /\ CallPart /\ LoopPart /\ CopyPart /\ ReadPart(b)
      /\ Scans /\ quiet /\ ~Ready /\ call.op = "insert"
  BY DEF Inserting, JoinRuns, TupleInv, Scans, CallPart
<1>2. Pin \/ InsertRecord \/ UnpinEdited \/ Flush
  BY DEF Inserting, PinFails, InsertRecordFails
<1>3. /\ TupleInv' /\ CacheInv' /\ TablesStay
      /\ \A e \in Clients \ {InsertPin} : session'[e] = session[e]
      /\ quiet' /\ call' = call
      /\ \/ /\ pc = "pin" /\ pc' = "edit" /\ TuplesNow' = TuplesNow
         \/ /\ pc = "edit" /\ pc' = "unpin" /\ call.tuple \in Tuples
            /\ \E r \in RecordIds : Heap!Insert(r, call.tuple)
         \/ /\ pc = "unpin" /\ pc' = "flush" /\ TuplesNow' = TuplesNow
         \/ /\ pc = "flush" /\ pc' = "returned" /\ TuplesNow' = TuplesNow
      /\ Active(InsertPin)' => session'[InsertPin].file = Table
  BY <1>1, <1>2, InsertStep DEF TupleInv
<1>4. /\ pc' = "returned" => join' = [join EXCEPT !.pc = "match", !.numResultTuples = @ + 1]
      /\ pc' # "returned" => join' = join
  BY DEF Inserting
<1>5. /\ join'.swapped = join.swapped /\ join'.sPage = join.sPage
      /\ join'.budget = join.budget /\ join'.rPage = join.rPage
      /\ join'.frameUsed = join.frameUsed /\ join'.at = join.at
      /\ join'.numIOs = join.numIOs /\ join' \in Join /\ join.numResultTuples \in Nat
      /\ join'.pc = IF pc' = "returned" THEN "match" ELSE "insert"
      /\ join'.numResultTuples = join.numResultTuples + (IF pc' = "returned" THEN 1 ELSE 0)
  <2>1. join.numResultTuples \in Nat
    BY <1>1 DEF Join
  <2> DEFINE AsBefore(j) ==
          /\ j.swapped = join.swapped /\ j.sPage = join.sPage
          /\ j.budget = join.budget /\ j.rPage = join.rPage
          /\ j.frameUsed = join.frameUsed /\ j.at = join.at
          /\ j.numIOs = join.numIOs /\ j \in Join
  <2>2. ASSUME pc' = "returned"
        PROVE  /\ AsBefore(join') /\ join'.pc = "match"
               /\ join'.numResultTuples = join.numResultTuples + 1
    <3>1. join' = [join EXCEPT !.pc = "match", !.numResultTuples = @ + 1]
      BY <1>4, <2>2
    <3>2. join'.numResultTuples = join.numResultTuples + 1 /\ join'.pc = "match"
      BY <1>1, <3>1 DEF Join
    <3>3. join.numResultTuples + 1 \in Nat
      BY <2>1
    <3>4. join' \in Join
      BY <1>1, <3>1, <3>3 DEF Join
    <3>5. /\ join'.swapped = join.swapped /\ join'.sPage = join.sPage
          /\ join'.budget = join.budget /\ join'.rPage = join.rPage
          /\ join'.frameUsed = join.frameUsed /\ join'.at = join.at
          /\ join'.numIOs = join.numIOs
      BY <1>1, <3>1 DEF Join
    <3> QED
      BY <3>2, <3>4, <3>5
  <2>3. ASSUME pc' # "returned"
        PROVE  /\ AsBefore(join') /\ join'.pc = "insert"
               /\ join'.numResultTuples = join.numResultTuples
    BY <1>1, <1>4, <2>3
  <2> QED
    BY <2>1, <2>2, <2>3
<1>6. /\ sfile' = sfile /\ rfile' = rfile
      /\ InUse(disk'[FileOf[sfile]]) = InUse(disk[FileOf[sfile]])
      /\ InUse(disk'[FileOf[rfile]]) = InUse(disk[FileOf[rfile]])
      /\ SPages' = SPages /\ RPages' = RPages
  BY <1>1, <1>3, <1>5, WalksStay DEF SPages, RPages
<1>7. /\ Scans' /\ frameAmt' = frameAmt
      /\ \A c \in Clients \ {InsertPin} : Active(c)' <=> Active(c)
      /\ \A i \in DOMAIN BlockPins :
            /\ BlockPin(i)' = BlockPin(i)
            /\ Active(BlockPins[i])' <=> Active(BlockPins[i])
      /\ session'[ScanPin] = session[ScanPin]
      /\ Active(ScanPin)' <=> Active(ScanPin)
  <2>1. /\ \A i \in DOMAIN BlockPins : BlockPins[i] \in Clients \ {InsertPin}
        /\ ScanPin \in Clients \ {InsertPin}
    BY PinTypes DEF Others
  <2> QED
    BY <1>3, <1>5, <2>1 DEF Scans, frameAmt, Active, BlockPin
<1>8. pc' = "returned" => ~Active(InsertPin)'
  <2>1. Quietness'
    BY <1>3 DEF TupleInv, CallState
  <2>2. pc' = "returned" => call'.caller \in Callers /\ session'[call'.caller] = Idle
    BY <1>3, <2>1 DEF Quietness, Ready, Active
  <2> QED
    BY <2>2, PinTypes DEF Active
<1>9. PinPart'
  <2>1. Active(InsertPin)' => join'.pc = "insert" /\ session'[InsertPin].file = Table
    BY <1>3, <1>5, <1>8
  <2>2. \A c \in Clients : Active(c)' => c \in ToSet(BlockPins) \cup {ScanPin, InsertPin}
    BY <1>1, <1>7 DEF PinPart
  <2>3. /\ Active(ScanPin)'
        /\ session'[ScanPin].file = rfile' /\ session'[ScanPin].page = join'.rPage
    BY <1>1, <1>5, <1>6, <1>7 DEF PinPart
  <2>4. \A i \in DOMAIN BlockPins : Active(BlockPins[i])' =>
           /\ i <= join'.frameUsed
           /\ BlockPin(i)'.file = sfile' /\ BlockPin(i)'.page \in SPages'
    BY <1>1, <1>5, <1>6, <1>7 DEF PinPart
  <2>5. \A i \in 1..join'.frameUsed : Active(BlockPins[i])'
    <3>1. \A i \in 1..join.frameUsed : Active(BlockPins[i])
      BY <1>1 DEF PinPart
    <3>2. 1..join.frameUsed \subseteq DOMAIN BlockPins
      BY <1>1, PinTypes DEF Join
    <3> QED
      BY <1>5, <1>7, <3>1, <3>2
  <2>6. \A i, j \in DOMAIN BlockPins :
           Active(BlockPins[i])' /\ Active(BlockPins[j])' /\ i < j
              => BlockPin(i)'.page < BlockPin(j)'.page
    BY <1>1, <1>7 DEF PinPart
  <2> QED
    BY <1>7, <2>1, <2>2, <2>3, <2>4, <2>5, <2>6 DEF PinPart
<1>10. CallPart'
  <2>1. pc' \in {"edit", "unpin", "flush", "returned"}
    BY <1>3
  <2> QED
    BY <1>1, <1>3, <1>5, <2>1 DEF CallPart, Ready
<1>11. LoopPart'
  BY <1>1, <1>5, <1>6, <1>7 DEF LoopPart
<1>12. CopyPart'
  <2>1. \A i \in 1..join.frameUsed : i \in DOMAIN BlockPins
    BY <1>1, PinTypes DEF Join
  <2>2. \A p : InBlock(p)' <=> InBlock(p)
    BY <1>5, <1>7, <2>1 DEF InBlock
  <2>3. \A r, s : Passed(r, s)' <=> Passed(r, s)
    BY <1>5, <1>7, <2>1 DEF Passed, Earlier
  <2>4. \A r, s : Compared(r, s)' <=> Compared(r, s)
    BY <1>1, <1>5, <1>6, <1>7, <2>2, <2>3 DEF Compared
  <2>5. \A pair : Inserted(pair)' <=> Inserted(pair)
    BY <1>5, <2>4 DEF Inserted
  <2>6. AllDone' = AllDone /\ \A t \in Tuples : PairsDone(t)' = PairsDone(t)
    BY <1>1, <1>3, <2>5, DoneStays
  <2>7. ASSUME NEW t \in Tuples
        PROVE  CopiesOf(t)' + (IF Waits(t)' THEN 1 ELSE 0)
                  = CopiesOf(t) + (IF Waits(t) THEN 1 ELSE 0)
    <3>1. CopiesOf(t) \in Nat
      BY PairsFinite
    <3>2. CASE pc = "edit"
      <4>1. PICK r \in RecordIds : Heap!Insert(r, call.tuple)
        BY <1>3, <3>2
      <4>2. CopiesOf(t)' = CopiesOf(t) + (IF t = call.tuple THEN 1 ELSE 0)
        BY <1>3, <3>2, <4>1, OneCopyMore
      <4>3. (Waits(t) <=> t = call.tuple) /\ ~Waits(t)'
        BY <1>1, <1>3, <3>2 DEF Waits
      <4> QED
        BY <3>1, <4>2, <4>3
    <3>3. CASE pc # "edit"
      <4>1. CopiesOf(t)' = CopiesOf(t)
        BY <1>3, <3>3 DEF CopiesOf
      <4>2. Waits(t)' <=> Waits(t)
        BY <1>1, <1>3, <1>5, <3>3 DEF Waits
      <4> QED
        BY <4>1, <4>2
    <3> QED
      BY <3>2, <3>3
  <2>8. ASSUME NEW t \in Tuples
        PROVE  Cardinality(PairsDone(t)') = CopiesOf(t)' + (IF Waits(t)' THEN 1 ELSE 0)
    <3>1. Cardinality(PairsDone(t)) = CopiesOf(t) + (IF Waits(t) THEN 1 ELSE 0)
      BY <1>1 DEF CopyPart
    <3> QED
      BY <2>6, <2>7, <3>1
  <2>9. Cardinality(AllDone) = join.numResultTuples + 1
    BY <1>1 DEF CopyPart
  <2>10. Cardinality(AllDone')
           = join'.numResultTuples + (IF join'.pc = "insert" THEN 1 ELSE 0)
    BY <1>5, <2>6, <2>9
  <2> QED
    BY <2>8, <2>10 DEF CopyPart
<1>13. ReadPart(b)'
  <2>1. RRead' = RRead
    BY <1>1, <1>5, <1>6, <1>7 DEF RRead
  <2>2. BlocksPart(b)'
    BY <1>1, <1>5, <1>6, <1>7 DEF ReadPart, BlocksPart
  <2> QED
    BY <1>1, <1>5, <1>6, <2>1, <2>2 DEF ReadPart
<1> QED
  BY <1>3, <1>5, <1>9, <1>10, <1>11, <1>12, <1>13 DEF JoinRuns, Runs


-----------------------------------------------------------------------------
(* Execute is left by an exception, or by a read in front of a tuple *)

\* No pair was inserted twice so far.
LEMMA NoneTwice ==
    ASSUME OneHandle, CacheInv, CacheInv', TablesStay, TuplesNow' = TuplesNow, CopyPart,
           NEW t \in Tuples
    PROVE  CopiesOf(t)' <= Cardinality(PairsFor(t)')
<1>1. /\ PairsFor(t)' = PairsFor(t) /\ CopiesOf(t)' = CopiesOf(t)
      /\ CopiesOf(t) \in Nat /\ Cardinality(PairsFor(t)) \in Nat
      /\ Cardinality(PairsDone(t)) <= Cardinality(PairsFor(t))
  BY PairsStay, PairsFinite DEF CopiesOf
<1>2. Cardinality(PairsDone(t)) = CopiesOf(t) + (IF Waits(t) THEN 1 ELSE 0)
  BY DEF CopyPart
<1> QED
  BY <1>1, <1>2

\* The smaller of two numbers is one of them.
LEMMA MinOfTwo ==
    ASSUME NEW a \in Int, NEW b \in Int
    PROVE  Min({a, b}) = IF a <= b THEN a ELSE b
<1>1. PICK m \in {a, b} : \A y \in {a, b} : m <= y
  BY DEF Min
<1>2. Min({a, b}) \in {a, b} /\ \A y \in {a, b} : Min({a, b}) <= y
  BY <1>1 DEF Min
<1> QED
  BY <1>2

\* Every pin is one of the block but the one of the scan, unless insertTuple
\* has its own.
LEMMA PinsOfJoin ==
    ASSUME join \in Join, PinInv, PinPart, Exceeded, ~Active(InsertPin)
    PROVE  NumBufs <= join.frameUsed + (IF Scans THEN 1 ELSE 0)
<1> DEFINE n == join.frameUsed + (IF Scans THEN 1 ELSE 0)
           w == [i \in 1..n |-> IF i <= join.frameUsed THEN BlockPins[i] ELSE ScanPin]
<1>1. join.frameUsed \in Nat /\ join.frameUsed <= Len(BlockPins) /\ n \in Nat
  BY PinTypes DEF Join
<1>2. w \in [1..n -> Clients]
  <2>1. \A i \in 1..n : i <= join.frameUsed => i \in 1..Len(BlockPins)
    BY <1>1, PinTypes
  <2> QED
    BY <2>1, PinTypes DEF Others
<1>3. ASSUME NEW c \in Clients, Active(c)
      PROVE  \E i \in 1..n : w[i] = c
  <2>1. c \in ToSet(BlockPins) \cup {ScanPin}
    BY <1>3 DEF PinPart
  <2>2. CASE c = ScanPin
    <3>1. Scans
      BY <1>3, <2>2 DEF PinPart
    <3>2. n = join.frameUsed + 1 /\ n \in 1..n /\ ~(n <= join.frameUsed)
      BY <1>1, <3>1
    <3>3. w[n] = ScanPin
      BY <3>2
    <3> QED
      BY <2>2, <3>2, <3>3
  <2>3. CASE c \in ToSet(BlockPins)
    <3>1. PICK j \in DOMAIN BlockPins : BlockPins[j] = c
      BY <2>3 DEF ToSet
    <3>2. j <= join.frameUsed /\ j \in Nat \ {0}
      BY <1>3, <3>1, PinTypes DEF PinPart
    <3>3. j \in 1..n
      BY <1>1, <3>2
    <3>4. w[j] = c
      BY <3>1, <3>2, <3>3
    <3> QED
      BY <3>3, <3>4
  <2> QED
    BY <2>1, <2>2, <2>3
<1> HIDE DEF w, n
<1>4. NumBufs <= n
  BY <1>1, <1>2, <1>3, FramesArePinned
<1> QED
  BY <1>4 DEF n

\* What an exception leaves behind when the pool has no frame.
LEMMA ThrownOutcome ==
    ASSUME OneHandle, NEW b \in Nat, JoinRuns(b), CacheInv', TablesStay,
           TuplesNow' = TuplesNow, join' = [join EXCEPT !.pc = "threw"],
           Exceeded, ~Active(InsertPin)
    PROVE  join' \in Join /\ ~Runs' /\ Outcome'
<1>1. /\ join \in Join /\ CacheInv /\ PinInv /\ PinPart /\ LoopPart /\ CopyPart
  BY DEF JoinRuns, TupleInv, CacheInv
<1>2. /\ join'.pc = "threw" /\ join'.swapped = join.swapped
      /\ join'.budget = join.budget /\ join' \in Join
  BY <1>1 DEF Join
<1>3. PICK size \in Nat : size = Cardinality(InUse(disk[FileOf[sfile]]))
  BY BeforeFinite
<1>4. sfile' = sfile /\ TableSize(sfile)' = size
  <2>1. PICK h : h = sfile
    OBVIOUS
  <2>2. h \in {LeftTable, RightTable} /\ h \in Handles /\ sfile' = h
    BY <1>2, <2>1, TablesTypes DEF sfile
  <2>3. TableSize(h)' = size
    BY <1>1, <1>3, <2>1, <2>2, TableSizeStays, TableSizeIs
  <2>4. TableSize(sfile)' = TableSize(h)'
    BY <2>2 DEF TableSize, ImageOf
  <2> QED
    BY <2>1, <2>2, <2>3, <2>4
<1>5. /\ join.frameUsed \in Nat /\ frameAmt \in Nat /\ join.budget - 1 = frameAmt
      /\ join.frameUsed <= frameAmt
  BY <1>1, FrameAmtType DEF LoopPart
<1>6. join.frameUsed <= size
  <2>1. join.frameUsed <= Cardinality(SPages)
    BY <1>1 DEF LoopPart
  <2>2. Cardinality(SPages) <= size /\ Cardinality(SPages) \in Nat
    BY <1>3, BeforeFinite DEF SPages
  <2> QED
    BY <1>5, <2>1, <2>2
<1>7. NumBufs <= join.frameUsed + 1
  <2>1. NumBufs <= join.frameUsed + (IF Scans THEN 1 ELSE 0)
    BY <1>1, PinsOfJoin
  <2> QED
    BY <1>5, <2>1, NumBufsAssumption
<1>8. Min({join'.budget - 1, TableSize(sfile)'}) = IF frameAmt <= size THEN frameAmt ELSE size
  BY <1>2, <1>4, <1>5, MinOfTwo
<1>9. NumBufs < Min({join'.budget - 1, TableSize(sfile)'}) + 2
  BY <1>5, <1>6, <1>7, <1>8, NumBufsAssumption
<1>10. \A t \in Tuples : CopiesOf(t)' <= Cardinality(PairsFor(t)')
  BY <1>1, NoneTwice
<1> QED
  BY <1>2, <1>9, <1>10 DEF Outcome, Runs

LEMMA ReadThrowsStep ==
    ASSUME OneHandle, NEW b \in Nat, JoinRuns(b), ReadThrows
    PROVE  HeapInv' /\ join' \in Join /\ ~Runs' /\ Outcome'
<1>1. /\ join.pc \in {"load", "scan"} /\ TupleInv /\ CacheInv /\ PinPart /\ CallPart
      /\ LoopPart /\ join \in Join
      /\ join' = [join EXCEPT !.pc = "threw"] /\ UNCHANGED heapVars
  BY DEF ReadThrows, JoinRuns, TupleInv
<1>2. PICK h \in Handles, p \in PageIds : ReadNoFrame(h, p)
  <2>1. CASE join.pc = "load"
    <3>1. ~BlockFull /\ ReadNoFrame(sfile, join.sPage)
      BY <2>1 DEF ReadThrows
    <3>2. join.sPage \in PageIds
      BY <2>1, <3>1, NextOfBlock, InUseType
    <3> QED
      BY <3>1, <3>2, TablesTypes
  <2>2. CASE join.pc = "scan"
    <3>1. join.rPage # NoPage /\ ReadNoFrame(rfile, join.rPage)
      BY <2>2 DEF ReadThrows
    <3>2. join.rPage \in PageIds
      BY <1>1, <3>1, InUseType DEF LoopPart
    <3> QED
      BY <3>1, <3>2, TablesTypes
  <2> QED
    BY <1>1, <2>1, <2>2
<1>3. KeepingNext /\ SoundCache' /\ Unnoticed
  BY <1>1, <1>2, ReadNoFrameUnnoticed DEF KeepingNext
<1>4. CacheInv' /\ TuplesNow' = TuplesNow /\ TablesStay
  BY <1>1, <1>3, PinKept, UnnoticedTuples, UnnoticedTables DEF CacheInv
<1>5. HeapInv'
  <2>1. CallInv'
    BY <1>1 DEF TupleInv, CallInv, heapVars
  <2> QED
    BY <1>4, <2>1 DEF HeapInv, CacheInv, PinInv
<1>6. ~Active(InsertPin)
  BY <1>1, PinTypes DEF PinPart
<1>7. Exceeded
  BY <1>1, <1>2, NoFrameMeansPinned
<1> QED
  BY <1>1, <1>4, <1>5, <1>6, <1>7, ThrownOutcome

LEMMA InsertingThrows ==
    ASSUME OneHandle, NEW b \in Nat, JoinRuns(b), Inserting, pc' = "threw"
    PROVE  HeapInv' /\ join' \in Join /\ ~Runs' /\ Outcome'
<1>1. /\ join.pc = "insert" /\ join \in Join /\ TupleInv /\ CacheInv /\ CallState
      /\ CopyPart /\ quiet /\ ~Ready /\ call.op = "insert"
      /\ join' = [join EXCEPT !.pc = "threw"]
  BY DEF Inserting, JoinRuns, TupleInv, CallPart
<1>2. PinFails \/ InsertRecordFails
  <2>1. ~(Pin \/ InsertRecord \/ UnpinEdited \/ Flush)
    BY <1>1, InsertStep
  <2> QED
    BY <2>1 DEF Inserting
<1>3. HeapInv'
  <2>1. HeapNext
    BY <1>2 DEF HeapNext
  <2> QED
    BY <1>1, <2>1, HeapInvNext, TupleInvParts DEF HeapInv, TupleInv
<1>4. CASE PinFails
  <2>1. pc = "pin" /\ ReadNoFrame(Table, call.page)
    BY <1>4 DEF PinFails
  <2>2. call.caller = InsertPin /\ call.page \in PageIds /\ Table \in Handles
    BY <1>1, <2>1, TupleInvParts, PinTypes, TableType DEF CallState, Quietness
  <2>3. CacheInv' /\ TuplesNow' = TuplesNow
    BY <1>1, <1>4, PinFailsStep
  <2>4. TablesStay
    BY <1>1, <2>1, <2>2, ReadNoFrameUnnoticed, UnnoticedTables
  <2>5. ~Active(InsertPin)
    BY <1>1, <2>1, <2>2 DEF CallState, PinOfCall
  <2>6. Exceeded
    BY <1>1, <2>1, <2>2, NoFrameMeansPinned
  <2> QED
    BY <1>1, <1>3, <2>3, <2>4, <2>5, <2>6, ThrownOutcome
<1>5. CASE InsertRecordFails
  <2>1. /\ pc = "edit" /\ ~HasSpace(Pinned, call.tuple)
        /\ UNCHANGED vars /\ call' = call
    BY <1>5 DEF InsertRecordFails
  <2>2. ~FitsAPage
    BY <1>1, <2>1, EditedPage DEF CallState, Quietness
  <2>3. CacheInv' /\ TuplesNow' = TuplesNow
    BY <1>1, <1>5, InsertRecordFailsStep
  <2>4. TablesStay
    BY <1>1, <2>1, PoolUntouched, UnnoticedTables DEF vars, pool
  <2>5. \A t \in Tuples : CopiesOf(t)' <= Cardinality(PairsFor(t)')
    BY <1>1, <2>3, <2>4, NoneTwice
  <2>6. join'.pc = "threw" /\ join' \in Join
    BY <1>1 DEF Join
  <2>7. ~FitsAPage'
    BY <2>1, <2>2 DEF FitsAPage
  <2> QED
    BY <1>3, <2>5, <2>6, <2>7 DEF Outcome, Runs
<1> QED
  BY <1>2, <1>4, <1>5

LEMMA ReadsBeforeTupleStep ==
    ASSUME OneHandle, NEW b \in Nat, JoinRuns(b), ReadsBeforeTuple
    PROVE  HeapInv' /\ join' \in Join /\ ~Runs' /\ Outcome'
<1>1. /\ join \in Join /\ TupleInv /\ CacheInv /\ CopyPart
      /\ join' = [join EXCEPT !.pc = "crashed"] /\ UNCHANGED allVars
  BY DEF ReadsBeforeTuple, JoinRuns, TupleInv
<1>2. TupleInv' /\ TuplesNow' = TuplesNow /\ TablesStay
  BY <1>1, NoCallStep
<1>3. CacheInv' /\ HeapInv'
  BY <1>2 DEF TupleInv, CacheInv, PinInv, HeapInv
<1>4. join'.pc = "crashed" /\ join' \in Join
  BY <1>1 DEF Join
<1>5. \A t \in Tuples : CopiesOf(t)' <= Cardinality(PairsFor(t)')
  BY <1>1, <1>2, <1>3, NoneTwice
<1> QED
  BY <1>3, <1>4, <1>5 DEF Outcome, Runs


-----------------------------------------------------------------------------
(* Execute begins *)

\* The pages of a filled table are linked one after the other.
LEMMA FilledExact ==
    ASSUME NEW pages \in Seq(Contents), Len(pages) <= MaxPages
    PROVE  Filled(pages) \in FileImage /\ ListsExact(Filled(pages))
<1> DEFINE n == Len(pages)
           f == Filled(pages)
<1>1. n \in Nat /\ n <= MaxPages /\ (pages = <<>> <=> n = 0)
  OBVIOUS
<1>2. \A p \in 1..n : pages[p] \in Data /\ p \in PageIds
  BY <1>1, MaxPagesAssumption, ContentsAssumption DEF PageIds
<1>3. /\ f.hdr.num_pages = n + 1 /\ f.hdr.num_free_pages = 0
      /\ f.hdr.first_used_page = (IF n = 0 THEN NoPage ELSE 1)
      /\ f.hdr.first_free_page = NoPage
  BY <1>1 DEF Filled
<1>4. ASSUME NEW p \in PageIds
      PROVE  f.page[p] = IF p > n THEN FreshPage
                         ELSE [num |-> p, next |-> IF p = n THEN NoPage ELSE p + 1,
                               data |-> pages[p]]
  BY DEF Filled
<1>5. f \in FileImage
  <2>1. f.hdr \in FileHeader
    BY <1>1, MaxPagesAssumption DEF Filled, FileHeader, PageRefs, NoPage
  <2>2. f.page \in [PageIds -> Page]
    <3>1. FreshPage \in Page
      BY PageNumbers, EmptyDataAssumption DEF FreshPage, Page
    <3>2. ASSUME NEW p \in PageIds, ~(p > n)
          PROVE  [num |-> p, next |-> IF p = n THEN NoPage ELSE p + 1, data |-> pages[p]] \in Page
      BY <1>1, <1>2, <3>2, MaxPagesAssumption DEF Page, PageIds, PageRefs, NoPage
    <3>3. \A p \in PageIds : f.page[p] \in Page
      BY <1>4, <3>1, <3>2
    <3> QED
      BY <3>3 DEF Filled
  <2> QED
    BY <2>1, <2>2 DEF Filled, FileImage
<1> HIDE DEF f
<1>51. ASSUME NEW p \in PageIds
       PROVE  /\ p \in Nat \ {0}
              /\ p > n => f.page[p].num = NoPage
              /\ ~(p > n) => /\ f.page[p].num = p
                            /\ f.page[p].next = IF p = n THEN NoPage ELSE p + 1
  <2>1. p \in Nat \ {0}
    BY MaxPagesAssumption DEF PageIds
  <2>2. CASE p > n
    <3>1. f.page[p] = FreshPage
      BY <1>1, <1>4, <2>1, <2>2
    <3> QED
      BY <2>1, <2>2, <3>1 DEF FreshPage
  <2>3. CASE ~(p > n)
    <3>1. f.page[p] = [num |-> p, next |-> IF p = n THEN NoPage ELSE p + 1,
                       data |-> pages[p]]
      BY <1>1, <1>4, <2>1, <2>3
    <3> QED
      BY <2>1, <2>3, <3>1
  <2> QED
    BY <2>1, <2>2, <2>3
<1>6. InUse(f) = 1..n
  BY <1>1, <1>2, <1>51 DEF InUse, NoPage
<1>7. \A p \in 1..n : /\ f.page[p].num = p
                      /\ f.page[p].next = IF p = n THEN NoPage ELSE p + 1
  BY <1>1, <1>2, <1>51
<1>8. Numbered(f)
  BY <1>1, <1>51 DEF Numbered
<1>9. Bounded(f) /\ FreePages(f) = {}
  BY <1>1, <1>3, <1>6, MaxPagesAssumption DEF Bounded, FreePages, PageIds
<1>10. FreeExact(f)
  <2>1. FreeChain(f)[0] = NoPage
    BY <1>3, <1>5, LinksSteps, PageNumbers DEF FreeChain
  <2> QED
    BY <1>3, <1>9, <2>1, MaxPagesAssumption DEF FreeExact
<1>11. Linked(f)
  <2>1. Follows(1..n, NoPage, f.hdr.first_used_page)
    BY <1>1, <1>3 DEF Follows, NoPage
  <2>2. \A p \in 1..n : Follows(1..n, p, f.page[p].next)
    BY <1>1, <1>7 DEF Follows, NoPage
  <2> QED
    BY <1>6, <2>1, <2>2 DEF Linked
<1> QED
  BY <1>3, <1>5, <1>8, <1>9, <1>10, <1>11 DEF ListsExact, OneFreeWhenEmpty, f

LEMMA JoinInitInv ==
    ASSUME OneHandle, JoinInit
    PROVE  JoinInv
<1>1. PICK left \in LeftContents, right \in RightContents :
         disk = [n \in Files |-> IF n = FileOf[LeftTable] THEN Filled(left)
                                 ELSE IF n = FileOf[RightTable] THEN Filled(right)
                                 ELSE NewFile]
  BY DEF JoinInit
<1>2. disk \in [Files -> FileImage] /\ \A n \in Files : ListsExact(disk[n])
  <2>1. /\ Filled(left) \in FileImage /\ ListsExact(Filled(left))
        /\ Filled(right) \in FileImage /\ ListsExact(Filled(right))
    BY ContentsFitAssumption, FilledExact
  <2>2. NewFile \in FileImage /\ ListsExact(NewFile)
    BY NewFileType, NewFileLists
  <2> QED
    BY <1>1, <2>1, <2>2
<1>3. /\ \A c \in Clients : session[c] = Idle /\ ~Active(c) /\ ~session[c].wrote
      /\ \A f \in Frames : bufDescTable[f] = Clear
      /\ pc = "returned" /\ quiet /\ before = TuplesNow
      /\ call = [op |-> "insert", caller |-> InsertPin, tuple |-> NoTuple,
                 rid |-> NoRecordId, page |-> NoPage]
  BY IdleType DEF JoinInit, Active
<1>4. IInv
  <2>1. clockHand \in Frames
    BY NumBufsAssumption DEF JoinInit, Frames
  <2>2. /\ bufDescTable \in [Frames -> BufDesc]
        /\ \A f \in Frames : bufDescTable[f] = Clear
    BY DescType DEF JoinInit
  <2>3. /\ hash \in [Handles -> [PageIds -> 0..NumBufs]]
        /\ \A h \in Handles, p \in PageIds : hash[h][p] = NoFrame
    BY NoFrameIsNone DEF JoinInit
  <2>4. bufPool \in [Frames -> Page]
    BY PageNumbers, EmptyDataAssumption DEF JoinInit, FreshPage, Page
  <2>5. IsPool(bufDescTable, hash, bufPool)
    BY <2>2, <2>3, <2>4, DescType DEF IsPool, EntriesLead, Hashed
  <2>6. IsDisk(disk)
    BY <1>2 DEF IsDisk, ListsExact
  <2>7. session \in [Clients -> Session]
    BY IdleType DEF JoinInit
  <2>8. bufStats \in Counters
    BY StatCapAssumption DEF JoinInit, Counters
  <2> QED
    BY <2>1, <2>5, <2>6, <2>7, <2>8 DEF IInv, IsRest
<1>5. CacheInv
  <2>1. \A f \in Frames : bufDescTable[f].pinCnt = 0 /\ ~bufDescTable[f].valid
    BY <1>3, DescType
  <2>2. \A f \in Frames : {c \in Clients : session[c].frame = f} = {}
    BY <1>3, IdleType, NoFrameIsNone
  <2>3. PinInv
    BY <1>3, <1>4, <2>1, <2>2, FS_EmptySet DEF PinInv, PinsCounted, PinnedPageStays
  <2>4. SoundCache
    BY <1>2, <1>4, <2>1 DEF IInv, SoundCache, SoundDisk, Stored, CleanSame
  <2> QED
    BY <2>3, <2>4 DEF CacheInv
<1>6. CallInv
  <2>1. TuplesNow \in [RecordIds -> Tuples \cup {NoTuple}]
    BY <1>4, TuplesType
  <2>2. call \in Call
    BY <1>3, PinTypes, PageNumbers DEF Call
  <2> QED
    BY <1>3, <2>1, <2>2 DEF CallInv
<1>7. CallState
  BY <1>3, PinTypes
  DEF CallState, PinOfCall, OneWriter, NoneDirty, FramesOf, Clear, Arguments, Progress,
      Quietness, Ready
<1>8. \A r \in RecordIds : TuplesNow[r] = NoTuple
  <2>1. disk[TableFile] = NewFile
    BY <1>1, TableType, TablesAssumption
  <2>2. \A p \in PageIds : Now(TableFile, p) = NoData
    BY <2>1, NewFileFree, TableType DEF Now, Value
  <2>3. \A r \in RecordIds : TupleIn(Now(TableFile, r[1]), r[2]) = NoTuple
    BY <2>2 DEF RecordIds, TupleIn
  <2> QED
    BY <1>5, <2>3, TuplesAre
<1>9. /\ join.pc = "size" /\ ~join.swapped /\ join.frameUsed = 0
      /\ join.sPage = NoPage /\ join.rPage = NoPage
      /\ join.numIOs = 0 /\ join.numResultTuples = 0
      /\ join \in Join
  <2>1. join \in [pc : {"size"}, budget : Budgets, swapped : {FALSE},
                  sPage : {NoPage}, rPage : {NoPage}, frameUsed : {0},
                  at : {<<0, 0, 0>>}, numIOs : {0}, numResultTuples : {0}]
    BY DEF JoinInit
  <2>2. /\ 0 \in 0..Len(BlockPins) /\ <<0, 0, 0>> \in Nat \X Nat \X Nat
        /\ NoPage \in PageRefs
    BY PinTypes, PageNumbers
  <2>3. join \in Join
    BY <2>1, <2>2 DEF Join
  <2> QED
    BY <2>1, <2>3
<1>10. PinPart
  BY <1>3, <1>9, PinTypes DEF PinPart, Scans, Others
<1>11. CallPart
  BY <1>3, <1>9 DEF CallPart
<1>12. LoopPart
  <2>1. frameAmt \in Nat /\ Cardinality(SPages) \in Nat
    BY <1>9, FrameAmtType, BeforeFinite DEF SPages
  <2> QED
    BY <1>9, <2>1 DEF LoopPart, Scans
<1>13. CopyPart
  <2>1. ASSUME NEW t \in Tuples
        PROVE  PairsDone(t) = {} /\ Cardinality(PairsDone(t)) = 0 /\ CopiesOf(t) = 0
    <3>1. PairsDone(t) = {}
      BY <1>9 DEF PairsDone, Inserted, Compared
    <3>2. {r \in RecordIds : TuplesNow[r] = t} = {}
      BY <1>8, TuplesAssumption
    <3> QED
      BY <3>1, <3>2, FS_EmptySet DEF CopiesOf
  <2>2. AllDone = {} /\ Cardinality(AllDone) = 0
    BY <2>1, FS_EmptySet DEF AllDone
  <2> QED
    BY <1>9, <2>1, <2>2 DEF CopyPart, Waits
<1>14. ReadPart(0)
  BY <1>9 DEF ReadPart
<1>15. JoinRuns(0) /\ Runs
  BY <1>5, <1>6, <1>7, <1>9, <1>10, <1>11, <1>12, <1>13, <1>14
  DEF JoinRuns, TupleInv, Runs
<1> QED
  BY <1>15 DEF JoinInv

-----------------------------------------------------------------------------
(* Every step keeps the invariant *)

LEMMA JoinStutter ==
    ASSUME OneHandle, NEW b \in Nat, JoinRuns(b), UNCHANGED joinVars
    PROVE  JoinRuns(b)'
<1>1. /\ join \in Join /\ TupleInv /\ CacheInv /\ join' = join /\ UNCHANGED allVars
      /\ PinPart /\ CallPart /\ LoopPart /\ CopyPart /\ ReadPart(b)
  BY DEF JoinRuns, TupleInv, joinVars
<1>2. /\ TupleInv' /\ CacheInv' /\ TuplesNow' = TuplesNow /\ TablesStay
      /\ session' = session /\ pc' = pc /\ call' = call /\ quiet' = quiet
  BY <1>1, NoCallStep DEF TupleInv
<1>3. /\ sfile' = sfile /\ rfile' = rfile
      /\ InUse(disk'[FileOf[sfile]]) = InUse(disk[FileOf[sfile]])
      /\ InUse(disk'[FileOf[rfile]]) = InUse(disk[FileOf[rfile]])
      /\ SPages' = SPages /\ RPages' = RPages
  BY <1>1, <1>2, WalksStay DEF SPages, RPages
<1>4. /\ (Scans' <=> Scans) /\ frameAmt' = frameAmt
      /\ \A c : Active(c)' <=> Active(c)
      /\ \A i : BlockPin(i)' = BlockPin(i)
  BY <1>1, <1>2 DEF Scans, frameAmt, Active, BlockPin
<1>5. PinPart'
  BY <1>1, <1>2, <1>3, <1>4 DEF PinPart
<1>6. CallPart'
  BY <1>1, <1>2 DEF CallPart, Ready
<1>7. LoopPart'
  BY <1>1, <1>3, <1>4 DEF LoopPart
<1>8. CopyPart'
  <2>1. \A p : InBlock(p)' <=> InBlock(p)
    BY <1>1, <1>4 DEF InBlock
  <2>2. \A r, s : Passed(r, s)' <=> Passed(r, s)
    BY <1>1, <1>4 DEF Passed, Earlier
  <2>3. \A r, s : Compared(r, s)' <=> Compared(r, s)
    BY <1>1, <1>3, <1>4, <2>1, <2>2 DEF Compared
  <2>4. \A pair : Inserted(pair)' <=> Inserted(pair)
    BY <1>1, <2>3 DEF Inserted
  <2>5. AllDone' = AllDone /\ \A t \in Tuples : PairsDone(t)' = PairsDone(t)
    BY <1>1, <1>2, <2>4, DoneStays
  <2>6. \A t \in Tuples : CopiesOf(t)' = CopiesOf(t) /\ (Waits(t)' <=> Waits(t))
    BY <1>1, <1>2 DEF CopiesOf, Waits
  <2> QED
    BY <1>1, <2>5, <2>6 DEF CopyPart
<1>9. ReadPart(b)'
  <2>1. RRead' = RRead
    BY <1>1, <1>3, <1>4 DEF RRead
  <2>2. BlocksPart(b) => BlocksPart(b)'
    BY <1>1, <1>3, <1>4 DEF BlocksPart
  <2> QED
    BY <1>1, <1>3, <2>1, <2>2 DEF ReadPart
<1> QED
  BY <1>1, <1>2, <1>5, <1>6, <1>7, <1>8, <1>9 DEF JoinRuns

LEMMA JoinInvNext ==
    ASSUME OneHandle, JoinInv, [JoinNext]_joinVars
    PROVE  JoinInv'
<1>1. CASE Runs
  <2>1. PICK b \in Nat : JoinRuns(b)
    BY <1>1 DEF JoinInv
  <2>2. ASSUME JoinStep
        PROVE  \/ \E d \in Nat : JoinRuns(d)' /\ Runs'
               \/ HeapInv' /\ join' \in Join /\ ~Runs' /\ Outcome'
    <3>1. CASE CompareSizes
      BY <2>1, <3>1, CompareSizesStep
    <3>2. CASE LoadPage
      BY <2>1, <3>2, LoadPageStep
    <3>3. CASE StartScan
      BY <2>1, <3>3, StartScanStep
    <3>4. CASE ScanPage
      BY <2>1, <3>4, ScanPageStep
    <3>5. CASE EndScan
      BY <2>1, <3>5, EndScanStep
    <3>6. CASE ReadThrows
      BY <2>1, <3>6, ReadThrowsStep
    <3>7. CASE InsertPair
      BY <2>1, <3>7, InsertPairStep
    <3>8. CASE Inserting
      BY <2>1, <3>8, InsertingStep, InsertingThrows
    <3>9. CASE EndPage
      BY <2>1, <3>9, EndPageStep
    <3>10. CASE ReleasePage
      BY <2>1, <3>10, ReleasePageStep
    <3>11. CASE EndBlock
      <4>1. JoinRuns(b + 1)' /\ Runs' /\ b + 1 \in Nat
        BY <2>1, <3>11, EndBlockStep
      <4> QED
        BY <4>1
    <3> QED
      BY <2>2, <3>1, <3>2, <3>3, <3>4, <3>5, <3>6, <3>7, <3>8, <3>9, <3>10, <3>11
      DEF JoinStep
  <2>3. CASE ReadsBeforeTuple
    BY <2>1, <2>3, ReadsBeforeTupleStep DEF JoinInv
  <2>4. CASE UNCHANGED joinVars
    <3>1. JoinRuns(b)' /\ join' = join
      BY <2>1, <2>4, JoinStutter DEF joinVars
    <3> QED
      BY <1>1, <3>1 DEF JoinInv, Runs
  <2> QED
    BY <2>2, <2>3, <2>4 DEF JoinNext, JoinInv
<1>2. CASE ~Runs
  <2>1. join.pc \in {"threw", "crashed"} /\ HeapInv /\ join \in Join /\ Outcome
    BY <1>2 DEF JoinInv, Runs
  <2>2. ~JoinStep /\ ~ReadsBeforeTuple
    BY <2>1 DEF JoinStep, CompareSizes, LoadPage, StartScan, ScanPage, EndScan, ReadThrows,
                InsertPair, Inserting, EndPage, ReleasePage, EndBlock, ReadsBeforeTuple
  <2>3. UNCHANGED joinVars
    BY <2>2 DEF JoinNext
  <2>4. HeapInv'
    BY <2>1, <2>3, HeapInvNext DEF joinVars
  <2>5. Outcome' /\ join' = join
    <3>1. join' = join /\ pc' = pc /\ call' = call /\ disk' = disk /\ hash' = hash /\ bufPool' = bufPool
      BY <2>3 DEF joinVars, allVars, heapVars, vars, pool
    <3>2. \A n, p : Content(n, p)' = Content(n, p)
      BY <3>1 DEF Content
    <3>3. TuplesNow' = TuplesNow /\ \A h, id : TupleAt(h, id)' = TupleAt(h, id)
      BY <3>2 DEF TuplesNow, TupleAt
    <3>4. \A t : CopiesOf(t)' = CopiesOf(t) /\ PairsFor(t)' = PairsFor(t)
      BY <3>3 DEF CopiesOf, PairsFor
    <3>5. TableSize(sfile)' = TableSize(sfile)
      BY <3>1 DEF TableSize, ImageOf, sfile
    <3> QED
      BY <2>1, <3>1, <3>4, <3>5 DEF Outcome, FitsAPage
  <2> QED
    BY <1>2, <2>1, <2>4, <2>5 DEF JoinInv, Runs
<1> QED
  BY <1>1, <1>2


-----------------------------------------------------------------------------
(* What execute promises *)

LEMMA JoinInvariant ==
    ASSUME OneHandle
    PROVE  JoinSpec => []JoinInv
<1>1. JoinInv /\ [JoinNext]_joinVars => JoinInv'
  BY JoinInvNext
<1>2. JoinInit => JoinInv
  BY JoinInitInv
<1> QED
  BY <1>1, <1>2, PTL DEF JoinSpec

\* The pool, the calls and the variables of execute have their types.
THEOREM JoinIsTyped ==
    ASSUME OneHandle
    PROVE  JoinSpec => []JoinTypeOK
<1>1. JoinInv => JoinTypeOK
  <2>1. JoinInv => HeapInv /\ join \in Join
    BY TupleInvParts DEF JoinInv, JoinRuns, HeapInv, TupleInv
  <2>2. HeapInv => HeapTypeOK
    BY InvImplies DEF HeapInv, CallInv, HeapTypeOK
  <2> QED
    BY <2>1, <2>2 DEF JoinTypeOK
<1> QED
  BY <1>1, JoinInvariant, PTL

\* A join that returns has given every pin back, and a join throws only in a
\* pool without a frame for insertTuple beside its block and its scan, or in
\* insertTuple of a tuple longer than a page.
THEOREM FramesAreEnough ==
    ASSUME OneHandle
    PROVE  JoinSpec => []FramesSuffice
<1>1. JoinInv => FramesSuffice
  <2>1. ASSUME JoinInv, join.pc = "done", NEW f \in Frames
        PROVE  bufDescTable[f].pinCnt = 0
    <3>1. PICK b \in Nat : JoinRuns(b)
      BY <2>1 DEF JoinInv, Runs
    <3>2. PinInv /\ PinPart /\ ~Scans /\ join.frameUsed = 0
      BY <2>1, <3>1 DEF JoinRuns, TupleInv, CacheInv, LoopPart, Scans
    <3>3. bufDescTable[f].pinCnt = Cardinality(Owners(f))
      BY <3>2, OwnersFinite DEF PinInv, PinsCounted, Owners
    <3>4. Owners(f) = {}
      <4>1. ASSUME NEW c \in Clients PROVE session[c].frame # f
        BY <3>2, NothingPinned, OwnerIsActive
      <4> QED
        BY <4>1 DEF Owners
    <3> QED
      BY <3>3, <3>4, FS_EmptySet
  <2>2. JoinInv /\ join.pc = "threw" =>
            \/ NumBufs < Min({join.budget - 1, TableSize(sfile)}) + 2
            \/ pc = "threw" /\ ~FitsAPage
    BY DEF JoinInv, Runs, Outcome
  <2> QED
    BY <2>1, <2>2 DEF FramesSuffice
<1> QED
  BY <1>1, JoinInvariant, PTL

\* When execute returns, every pair that joins has been inserted.
LEMMA AllPairsDone ==
    ASSUME OneHandle, NEW b, JoinRuns(b), join.pc = "done"
    PROVE  /\ \A t \in Tuples : PairsDone(t) = PairsFor(t)
           /\ AllDone = UNION {PairsFor(t) : t \in Tuples}
<1>1. /\ CacheInv /\ join \in Join
      /\ join.frameUsed = 0 /\ join.sPage = NoPage
  BY DEF JoinRuns, TupleInv, LoopPart
<1>2. SPages = InUse(disk[FileOf[sfile]])
  BY <1>1, WalkEnds DEF SPages
<1>3. \A p : ~InBlock(p)
  BY <1>1 DEF InBlock
<1>4. ASSUME NEW t \in Tuples PROVE PairsDone(t) = PairsFor(t)
  <2>1. ASSUME NEW pair \in PairsFor(t) PROVE Inserted(pair)
    <3>1. PICK r, s : r = RPart(pair) /\ s = SPart(pair)
      OBVIOUS
    <3>2. s[1] \in InUse(disk[FileOf[sfile]]) /\ (Inserted(pair) <=> Compared(r, s))
      BY <1>1, <3>1, PairParts
    <3> QED
      BY <1>2, <1>3, <3>2 DEF Compared
  <2> QED
    BY <2>1 DEF PairsDone
<1> QED
  BY <1>4 DEF AllDone

\* The result is the join as a bag, however the blocks and scans divide the
\* pairs: no pair twice, and none missing when execute returns.
THEOREM ResultIsJoin ==
    ASSUME OneHandle
    PROVE  JoinSpec => []JoinIsExact
<1>1. JoinInv => JoinIsExact
  <2>1. ASSUME JoinInv, NEW t \in Tuples
        PROVE  CopiesOf(t) <= Cardinality(PairsFor(t))
    <3>1. CASE Runs
      <4>1. CopyPart
        BY <2>1, <3>1 DEF JoinInv, JoinRuns
      <4>2. Cardinality(PairsDone(t)) = CopiesOf(t) + (IF Waits(t) THEN 1 ELSE 0)
        BY <4>1 DEF CopyPart
      <4>3. /\ CopiesOf(t) \in Nat /\ Cardinality(PairsFor(t)) \in Nat
            /\ Cardinality(PairsDone(t)) <= Cardinality(PairsFor(t))
        BY PairsFinite
      <4> QED
        BY <4>2, <4>3
    <3>2. CASE ~Runs
      BY <2>1, <3>2 DEF JoinInv, Outcome
    <3> QED
      BY <3>1, <3>2
  <2>2. ASSUME JoinInv, join.pc = "done"
        PROVE  /\ \A t \in Tuples : CopiesOf(t) = Cardinality(PairsFor(t))
               /\ join.numResultTuples = Cardinality(UNION {PairsFor(t) : t \in Tuples})
    <3>1. PICK b \in Nat : JoinRuns(b)
      BY <2>2 DEF JoinInv, Runs
    <3>2. /\ \A t \in Tuples : PairsDone(t) = PairsFor(t)
          /\ AllDone = UNION {PairsFor(t) : t \in Tuples}
      BY <2>2, <3>1, AllPairsDone
    <3>3. CopyPart /\ join.numResultTuples \in Nat
      BY <3>1 DEF JoinRuns, Join
    <3>4. ASSUME NEW t \in Tuples PROVE CopiesOf(t) = Cardinality(PairsFor(t))
      <4>1. Cardinality(PairsDone(t)) = CopiesOf(t) + (IF Waits(t) THEN 1 ELSE 0)
        BY <3>3 DEF CopyPart
      <4>2. ~Waits(t) /\ CopiesOf(t) \in Nat
        BY <2>2, PairsFinite DEF Waits
      <4> QED
        BY <3>2, <4>1, <4>2
    <3>5. join.numResultTuples = Cardinality(AllDone)
      <4>1. Cardinality(AllDone) = join.numResultTuples + (IF join.pc = "insert" THEN 1 ELSE 0)
        BY <3>3 DEF CopyPart
      <4> QED
        BY <2>2, <3>3, <4>1
    <3> QED
      BY <3>2, <3>4, <3>5
  <2> QED
    BY <2>1, <2>2 DEF JoinIsExact
<1> QED
  BY <1>1, JoinInvariant, PTL

\* A number between two multiples of m that follow one another.
LEMMA DivisionIs ==
    ASSUME NEW m \in Nat \ {0}, NEW b \in Nat, NEW x \in Nat,
           b * m <= x, x < b * m + m
    PROVE  x \div m = b
<1>1. PICK q \in Int : q = x \div m
  OBVIOUS
<1>2. q * m <= x /\ x < q * m + m
  BY <1>1
<1> QED
  BY <1>1, <1>2


\* Blocks of m pages, all of them full but the last: b of them for n pages.
LEMMA BlocksAre ==
    ASSUME join \in Join, NEW b \in Nat, NEW n \in Nat,
           n = 0 => b = 0,
           \/ n = b * frameAmt
           \/ b > 0 /\ n \in ((b - 1) * frameAmt + 1)..(b * frameAmt)
    PROVE  Blocks(n) = b
<1>1. PICK m \in Nat : m = frameAmt
  BY FrameAmtType
<1>2. CASE n = 0
  BY <1>2 DEF Blocks
<1>3. CASE n # 0
  <2>1. m # 0 /\ b # 0
    <3>1. b * m >= n
      <4>1. b * m \in Nat
        BY <1>1, TimesNat
      <4> QED
        BY <1>1, <4>1
    <3> QED
      BY <1>1, <1>3, <3>1
  <2>2. PICK c \in Nat : b = c + 1
    BY <2>1
  <2>3. PICK full \in Nat : full = c * m
    BY <1>1, TimesNat
  <2>4. b * m = full + m
    BY <1>1, <2>2, <2>3
  <2>5. full + 1 <= n /\ n <= full + m
    <3>1. b - 1 = c
      BY <2>2
    <3> QED
      BY <1>1, <2>1, <2>3, <2>4, <3>1
  <2>6. n + m - 1 \in Nat /\ b * m <= n + m - 1 /\ n + m - 1 < b * m + m
    BY <1>1, <2>1, <2>4, <2>5
  <2>7. (n + m - 1) \div m = b
    BY <1>1, <2>1, <2>6, DivisionIs
  <2> QED
    BY <1>1, <1>3, <2>7 DEF Blocks
<1> QED
  BY <1>2, <1>3

\* The greater of two numbers is one of them.
LEMMA MaxOfTwo ==
    ASSUME NEW a \in Int, NEW b \in Int
    PROVE  Max({a, b}) = IF a <= b THEN b ELSE a
<1>1. PICK m \in {a, b} : \A y \in {a, b} : m >= y
  BY DEF Max
<1>2. Max({a, b}) \in {a, b} /\ \A y \in {a, b} : Max({a, b}) >= y
  BY <1>1 DEF Max
<1> QED
  BY <1>2

\* The pages that execute has read when it returns are those of the formula:
\* the smaller table once, and the other one once for each block.
THEOREM ReadsAreComputed ==
    ASSUME OneHandle
    PROVE  JoinSpec => []IOsAsComputed
<1>1. JoinInv => IOsAsComputed
  <2> SUFFICES ASSUME JoinInv, join.pc = "done"
               PROVE  LET sizes == {TableSize(LeftTable), TableSize(RightTable)}
                      IN  join.numIOs = Min(sizes) + Max(sizes) * Blocks(Min(sizes))
    BY DEF IOsAsComputed
  <2>1. PICK b \in Nat : JoinRuns(b)
    BY DEF JoinInv, Runs
  <2>2. /\ join \in Join /\ CacheInv /\ ReadPart(b)
        /\ join.frameUsed = 0 /\ join.sPage = NoPage
    BY <2>1 DEF JoinRuns, TupleInv, LoopPart
  <2>3. PICK s \in Nat, r \in Nat :
           /\ s = Cardinality(InUse(disk[FileOf[sfile]]))
           /\ r = Cardinality(InUse(disk[FileOf[rfile]]))
    BY BeforeFinite
  <2>4. SPages = InUse(disk[FileOf[sfile]])
    BY <2>2, WalkEnds DEF SPages
  <2>5. join.numIOs = s + b * r /\ s <= r
    <3>1. RRead = 0
      BY DEF RRead
    <3>2. b * r \in Nat
      BY TimesNat
    <3>3. join.numIOs = s + b * r + RRead /\ s <= r
      BY <2>2, <2>3, <2>4 DEF ReadPart
    <3> QED
      BY <3>1, <3>2, <3>3
  <2>6. Blocks(s) = b
    <3>1. s = 0 => b = 0
      BY <2>2, <2>3, <2>4, BeforeFinite, FS_EmptySet DEF ReadPart, BlocksPart
    <3>2. \/ s = b * frameAmt
          \/ b > 0 /\ s \in ((b - 1) * frameAmt + 1)..(b * frameAmt)
      <4>1. frameAmt \in Nat /\ b * frameAmt \in Nat
        BY <2>2, FrameAmtType, TimesNat
      <4> QED
        BY <2>2, <2>3, <2>4, <4>1 DEF ReadPart, BlocksPart
    <3> QED
      BY <2>2, <3>1, <3>2, BlocksAre
  <2>7. {TableSize(LeftTable), TableSize(RightTable)} = {s, r}
    BY <2>2, <2>3, TableSizeIs, TablesAssumption DEF sfile, rfile
  <2>8. Min({s, r}) = s /\ Max({s, r}) = r
    BY <2>5, MinOfTwo, MaxOfTwo
  <2>9. b * r = r * b
    OBVIOUS
  <2> QED
    BY <2>5, <2>6, <2>7, <2>8, <2>9
<1> QED
  BY <1>1, JoinInvariant, PTL

-----------------------------------------------------------------------------
(* Every step of the join comes closer to its end *)

\* The parts of Rest in the order in which they count.
LEMMA LessParts ==
    ASSUME \/ StageLeft' < StageLeft
           \/ /\ StageLeft' = StageLeft
              /\ \/ SPagesLeft' < SPagesLeft
                 \/ /\ SPagesLeft' = SPagesLeft
                    /\ \/ BlockLeft' < BlockLeft
                       \/ /\ BlockLeft' = BlockLeft
                          /\ \/ ScanLeft' < ScanLeft
                             \/ /\ ScanLeft' = ScanLeft
                                /\ \/ ReadLeft' < ReadLeft
                                   \/ /\ ReadLeft' = ReadLeft
                                      /\ \/ LoopsLeft' < LoopsLeft
                                         \/ LoopsLeft' = LoopsLeft /\ InsertLeft' < InsertLeft
    PROVE  Less(Rest', Rest)
<1>0. Less(Rest', Rest) <=> \E i \in 1..7 : Rest'[i] < Rest[i] /\ \A j \in 1..(i - 1) : Rest'[j] = Rest[j]
  BY DEF Less
<1>1. /\ Rest[1] = StageLeft /\ Rest[2] = SPagesLeft /\ Rest[3] = BlockLeft
      /\ Rest[4] = ScanLeft /\ Rest[5] = ReadLeft /\ Rest[6] = LoopsLeft
      /\ Rest[7] = InsertLeft
  BY DEF Rest
<1>2. /\ Rest'[1] = StageLeft' /\ Rest'[2] = SPagesLeft' /\ Rest'[3] = BlockLeft'
      /\ Rest'[4] = ScanLeft' /\ Rest'[5] = ReadLeft' /\ Rest'[6] = LoopsLeft'
      /\ Rest'[7] = InsertLeft'
  BY DEF Rest
<1>3. ASSUME NEW i \in 1..7, Rest'[i] < Rest[i],
             \A j \in 1..7 : j < i => Rest'[j] = Rest[j]
      PROVE  Less(Rest', Rest)
  <2>1. \A j \in 1..(i - 1) : j \in 1..7 /\ j < i
    OBVIOUS
  <2> QED
    BY <1>0, <1>3, <2>1
<1>4. \A j \in 1..7 : j \in {1, 2, 3, 4, 5, 6, 7}
  OBVIOUS
<1>5. CASE StageLeft' < StageLeft
  <2>1. \A j \in 1..7 : ~(j < 1)
    OBVIOUS
  <2> QED
    BY <1>1, <1>2, <1>3, <1>5, <2>1
<1>6. CASE StageLeft' = StageLeft /\ SPagesLeft' < SPagesLeft
  <2>1. \A j \in 1..7 : j < 2 => j = 1
    OBVIOUS
  <2> QED
    BY <1>1, <1>2, <1>3, <1>6, <2>1
<1>7. CASE StageLeft' = StageLeft /\ SPagesLeft' = SPagesLeft /\ BlockLeft' < BlockLeft
  <2>1. \A j \in 1..7 : j < 3 => j \in {1, 2}
    OBVIOUS
  <2> QED
    BY <1>1, <1>2, <1>3, <1>7, <2>1
<1>8. CASE /\ StageLeft' = StageLeft /\ SPagesLeft' = SPagesLeft /\ BlockLeft' = BlockLeft
           /\ ScanLeft' < ScanLeft
  <2>1. \A j \in 1..7 : j < 4 => j \in {1, 2, 3}
    OBVIOUS
  <2> QED
    BY <1>1, <1>2, <1>3, <1>8, <2>1
<1>9. CASE /\ StageLeft' = StageLeft /\ SPagesLeft' = SPagesLeft /\ BlockLeft' = BlockLeft
           /\ ScanLeft' = ScanLeft /\ ReadLeft' < ReadLeft
  <2>1. \A j \in 1..7 : j < 5 => j \in {1, 2, 3, 4}
    OBVIOUS
  <2> QED
    BY <1>1, <1>2, <1>3, <1>9, <2>1
<1>10. CASE /\ StageLeft' = StageLeft /\ SPagesLeft' = SPagesLeft /\ BlockLeft' = BlockLeft
            /\ ScanLeft' = ScanLeft /\ ReadLeft' = ReadLeft /\ LoopsLeft' < LoopsLeft
  <2>1. \A j \in 1..7 : j < 6 => j \in {1, 2, 3, 4, 5}
    OBVIOUS
  <2> QED
    BY <1>1, <1>2, <1>3, <1>10, <2>1
<1>11. CASE /\ StageLeft' = StageLeft /\ SPagesLeft' = SPagesLeft /\ BlockLeft' = BlockLeft
            /\ ScanLeft' = ScanLeft /\ ReadLeft' = ReadLeft /\ LoopsLeft' = LoopsLeft
            /\ InsertLeft' < InsertLeft
  <2>1. \A j \in 1..7 : j < 7 => j \in {1, 2, 3, 4, 5, 6}
    OBVIOUS
  <2> QED
    BY <1>1, <1>2, <1>3, <1>11, <2>1
<1> QED
  BY <1>5, <1>6, <1>7, <1>8, <1>9, <1>10, <1>11

LEMMA FewerElements ==
    ASSUME NEW S, IsFiniteSet(S), NEW T \in SUBSET S, NEW x \in S, x \notin T
    PROVE  Cardinality(T) < Cardinality(S)
<1>1. T # S
  OBVIOUS
<1> QED
  BY <1>1, FS_Subset, FS_CardinalityType

\* A walk that goes on leaves fewer pages before it.
LEMMA PagesLeftFinite ==
    ASSUME NEW h, NEW x
    PROVE  IsFiniteSet(PagesLeft(h, x)) /\ Cardinality(PagesLeft(h, x)) \in Nat
<1>1. PagesLeft(h, x) \in SUBSET InUse(disk[FileOf[h]])
  BY DEF PagesLeft, ImageOf
<1> QED
  BY <1>1, BeforeFinite, FS_Subset, FS_CardinalityType

LEMMA FewerPages ==
    ASSUME CacheInv, NEW h \in Handles, NEW x \in InUse(disk[FileOf[h]]),
           NEW y, y = Successor(disk[FileOf[h]], x)
    PROVE  Cardinality(PagesLeft(h, y)) < Cardinality(PagesLeft(h, x))
<1>0. PICK n \in Files : n = FileOf[h]
  BY FileOfAssumption
<1>1. InUse(disk[n]) \in SUBSET (Nat \ {0}) /\ x \in InUse(disk[n]) /\ x \in Nat /\ x # NoPage
  BY <1>0, InUseType DEF NoPage
<1>2. Follows(InUse(disk[n]), x, y)
  BY <1>0, <1>1, FileOfTable DEF ListsExact, Linked, Successor
<1>3. /\ PagesLeft(h, x) = {p \in InUse(disk[n]) : x # NoPage /\ p >= x}
      /\ PagesLeft(h, y) = {p \in InUse(disk[n]) : y # NoPage /\ p >= y}
  BY <1>0 DEF PagesLeft, ImageOf
<1>4. y # NoPage => y \in Nat /\ x < y
  BY <1>1, <1>2 DEF Follows
<1>5. \A p \in Nat : y # NoPage /\ p >= y => p >= x /\ p # x
  BY <1>1, <1>4
<1>6. x \in PagesLeft(h, x) /\ x \notin PagesLeft(h, y)
  BY <1>1, <1>3, <1>5
<1>7. PagesLeft(h, y) \in SUBSET PagesLeft(h, x)
  BY <1>1, <1>3, <1>5
<1> QED
  BY <1>6, <1>7, PagesLeftFinite, FS_Subset

LEMMA PagesLeftStay ==
    ASSUME OneHandle, CacheInv, CacheInv', TablesStay, join'.swapped = join.swapped
    PROVE  /\ PagesLeft(sfile, join.sPage)' = PagesLeft(sfile, join'.sPage)
           /\ PagesLeft(rfile, join.rPage)' = PagesLeft(rfile, join'.rPage)
<1>1. /\ sfile' = sfile /\ rfile' = rfile
      /\ InUse(disk'[FileOf[sfile]]) = InUse(disk[FileOf[sfile]])
      /\ InUse(disk'[FileOf[rfile]]) = InUse(disk[FileOf[rfile]])
  BY WalksStay
<1> QED
  BY <1>1 DEF PagesLeft, ImageOf


\* There are finitely many positions.
LEMMA PositionsFinite ==
    ASSUME join \in Join
    PROVE  /\ Positions \in SUBSET (Nat \X Nat \X Nat)
           /\ IsFiniteSet(PositionsLeft) /\ Cardinality(PositionsLeft) \in Nat
<1>1. join.frameUsed \in Nat
  BY FrameAmtType
<1> DEFINE frames == 1..join.frameUsed
           pairs == (Slots \X frames) \X Slots
           triple == [x \in pairs |-> <<x[1][1], x[1][2], x[2]>>]
<1>2. IsFiniteSet(Slots) /\ IsFiniteSet(frames)
  BY <1>1, FS_Interval, SlotsAssumption DEF Slots
<1>3. Slots \in SUBSET Nat /\ frames \in SUBSET Nat
  BY <1>1, SlotsAssumption DEF Slots
<1>4. IsFiniteSet(pairs)
  BY <1>2, FS_Product
<1>5. Positions = Slots \X frames \X Slots
  BY DEF Positions
<1> HIDE DEF frames
<1>6. triple \in Surjection(pairs, Positions)
  <2>1. triple \in [pairs -> Positions]
    BY <1>5
  <2>2. ASSUME NEW at \in Positions PROVE \E x \in pairs : triple[x] = at
    <3>1. <<<<at[1], at[2]>>, at[3]>> \in pairs /\ at = <<at[1], at[2], at[3]>>
      BY <1>5
    <3>2. triple[<<<<at[1], at[2]>>, at[3]>>] = at
      BY <3>1
    <3> QED
      BY <3>1, <3>2
  <2> QED
    BY <2>1, <2>2 DEF Surjection
<1>7. IsFiniteSet(Positions)
  BY <1>4, <1>6, FS_Surjection
<1>8. Positions \in SUBSET (Nat \X Nat \X Nat)
  BY <1>3, <1>5
<1>9. PositionsLeft \in SUBSET Positions
  BY DEF PositionsLeft
<1> QED
  BY <1>7, <1>8, <1>9, FS_Subset, FS_CardinalityType

LEMMA ReleasedFinite ==
    ASSUME join \in Join
    PROVE  IsFiniteSet(Released) /\ Cardinality(Released) \in Nat
<1>0. join.frameUsed \in Nat
  BY FrameAmtType
<1>1. IsFiniteSet(1..join.frameUsed)
  BY <1>0, FS_Interval
<1>2. Released \in SUBSET (1..join.frameUsed)
  BY DEF Released
<1> QED
  BY <1>1, <1>2, FS_Subset, FS_CardinalityType

\* What is left is counted in natural numbers.
LEMMA RestIsNat ==
    ASSUME join \in Join
    PROVE  Rest \in [1..7 -> Nat]
<1>1. StageLeft \in Nat /\ BlockLeft \in Nat /\ ReadLeft \in Nat /\ InsertLeft \in Nat
  BY DEF StageLeft, BlockLeft, ReadLeft, InsertLeft
<1>2. SPagesLeft \in Nat /\ ScanLeft \in Nat /\ LoopsLeft \in Nat
  BY PagesLeftFinite, PositionsFinite, ReleasedFinite DEF SPagesLeft, ScanLeft, LoopsLeft
<1> QED
  BY <1>1, <1>2 DEF Rest

\* The step leaves execute, by its end, an exception or a crash.
LEMMA LeavingCloser ==
    ASSUME ~Ended, Ended'
    PROVE  StageLeft' < StageLeft
  BY DEF StageLeft, Ended

LEMMA CompareSizesCloser ==
    ASSUME join \in Join, CompareSizes
    PROVE  StageLeft' < StageLeft
<1>1. join.pc = "size" /\ join'.pc = "load"
  BY DEF CompareSizes, Join
<1> QED
  BY <1>1 DEF StageLeft, Ended

LEMMA LoadPageCloser ==
    ASSUME OneHandle, NEW b \in Nat, JoinRuns(b), LoadPage
    PROVE  StageLeft' = StageLeft /\ SPagesLeft' < SPagesLeft
<1>1. /\ join.pc = "load" /\ join \in Join /\ TupleInv /\ CacheInv
  BY DEF LoadPage, JoinRuns, TupleInv
<1>2. PICK i \in 1..Len(BlockPins), n \in Files : i = join.frameUsed + 1 /\ n = FileOf[sfile]
  BY NextOfBlock, TablesTypes DEF LoadPage
<1>3. join.sPage \in InUse(disk[n]) /\ join.sPage \in PageIds
  BY <1>1, <1>2, NextOfBlock, InUseType DEF LoadPage
<1>4. CacheInv' /\ TablesStay
  <2>1. Ready /\ BlockPins[i] \in Others /\ sfile \in Handles
    BY <1>1, PinTypes, TablesTypes DEF JoinRuns, CallPart, Ready
  <2>2. ReadPage(BlockPins[i], sfile, join.sPage) /\ UNCHANGED heapVars
    BY <1>2 DEF LoadPage
  <2> QED
    BY <1>1, <1>3, <2>1, <2>2, ReadStep DEF TupleInv
<1>5. /\ join'.pc = "load" /\ join'.swapped = join.swapped
      /\ join'.sPage = Successor(disk[FileOf[sfile]], join.sPage)
  BY <1>1 DEF LoadPage, ImageOf, Join
<1>6. SPagesLeft' = Cardinality(PagesLeft(sfile, join'.sPage))
  BY <1>1, <1>4, <1>5, PagesLeftStay DEF SPagesLeft
<1>7. SPagesLeft' < SPagesLeft
  BY <1>1, <1>2, <1>3, <1>5, <1>6, FewerPages, TablesTypes DEF SPagesLeft
<1> QED
  BY <1>1, <1>5, <1>7 DEF StageLeft, Ended

\* A step that leaves the tables and s_it alone.
LEMMA SameSPages ==
    ASSUME OneHandle, CacheInv, CacheInv', TablesStay,
           join'.swapped = join.swapped, join'.sPage = join.sPage
    PROVE  SPagesLeft' = SPagesLeft
  BY PagesLeftStay DEF SPagesLeft

LEMMA NoCallTables ==
    ASSUME OneHandle, NEW b \in Nat, JoinRuns(b), UNCHANGED allVars
    PROVE  CacheInv /\ CacheInv' /\ TablesStay /\ join \in Join
  BY NoCallStep DEF JoinRuns, TupleInv

LEMMA StartScanCloser ==
    ASSUME OneHandle, NEW b \in Nat, JoinRuns(b), StartScan, join.budget >= 2
    PROVE  \/ StageLeft' < StageLeft
           \/ StageLeft' = StageLeft /\ SPagesLeft' = SPagesLeft /\ BlockLeft' < BlockLeft
<1>1. /\ join.pc = "load" /\ BlockFull /\ UNCHANGED allVars
      /\ CacheInv /\ CacheInv' /\ TablesStay /\ join \in Join
  BY NoCallTables DEF StartScan
<1>2. CASE join.frameUsed = 0 /\ join.sPage = NoPage
  <2>1. join'.pc = "done"
    BY <1>1, <1>2 DEF StartScan, Join
  <2> QED
    BY <1>1, <2>1 DEF StageLeft, Ended
<1>3. CASE ~(join.frameUsed = 0 /\ join.sPage = NoPage)
  <2>1. join'.pc = "scan" /\ join'.swapped = join.swapped /\ join'.sPage = join.sPage
    BY <1>1, <1>3 DEF StartScan, Join
  <2>2. join.frameUsed > 0
    BY <1>1, <1>3, FrameAmtType DEF BlockFull
  <2>3. SPagesLeft' = SPagesLeft
    BY <1>1, <2>1, SameSPages
  <2>4. BlockLeft = 4 /\ BlockLeft' = 3
    BY <1>1, <2>1, <2>2 DEF BlockLeft
  <2> QED
    BY <1>1, <2>1, <2>3, <2>4 DEF StageLeft, Ended
<1> QED
  BY <1>2, <1>3

LEMMA EndScanCloser ==
    ASSUME OneHandle, NEW b \in Nat, JoinRuns(b), EndScan
    PROVE  StageLeft' = StageLeft /\ SPagesLeft' = SPagesLeft /\ BlockLeft' < BlockLeft
<1>1. /\ join.pc = "scan" /\ UNCHANGED allVars
      /\ CacheInv /\ CacheInv' /\ TablesStay /\ join \in Join
  BY NoCallTables DEF EndScan
<1>2. join'.pc = "release" /\ join'.swapped = join.swapped /\ join'.sPage = join.sPage
  BY <1>1 DEF EndScan, Join
<1>3. SPagesLeft' = SPagesLeft
  BY <1>1, <1>2, SameSPages
<1> QED
  BY <1>1, <1>2, <1>3 DEF StageLeft, Ended, BlockLeft

LEMMA EndBlockCloser ==
    ASSUME OneHandle, NEW b \in Nat, JoinRuns(b), EndBlock
    PROVE  StageLeft' = StageLeft /\ SPagesLeft' = SPagesLeft /\ BlockLeft' < BlockLeft
<1>1. /\ join.pc = "release" /\ UNCHANGED allVars
      /\ CacheInv /\ CacheInv' /\ TablesStay /\ join \in Join
  BY NoCallTables DEF EndBlock
<1>2. /\ join'.pc = "load" /\ join'.frameUsed = 0
      /\ join'.swapped = join.swapped /\ join'.sPage = join.sPage
  BY <1>1 DEF EndBlock, Join
<1>3. SPagesLeft' = SPagesLeft
  BY <1>1, <1>2, SameSPages
<1> QED
  BY <1>1, <1>2, <1>3 DEF StageLeft, Ended, BlockLeft

\* Of the loop over R: the pages of R are as they were, and so is r_it.
LEMMA SameRPages ==
    ASSUME OneHandle, CacheInv, CacheInv', TablesStay,
           join'.swapped = join.swapped, join'.rPage = join.rPage
    PROVE  PagesLeft(rfile, join.rPage)' = PagesLeft(rfile, join.rPage)
  BY PagesLeftStay

LEMMA ScanPageCloser ==
    ASSUME OneHandle, NEW b \in Nat, JoinRuns(b), ScanPage
    PROVE  /\ StageLeft' = StageLeft /\ SPagesLeft' = SPagesLeft /\ BlockLeft' = BlockLeft
           /\ ScanLeft' = ScanLeft /\ ReadLeft' < ReadLeft
<1>1. /\ join.pc = "scan" /\ join.rPage # NoPage /\ join \in Join
      /\ TupleInv /\ CacheInv /\ LoopPart /\ CallPart
  BY DEF ScanPage, JoinRuns, TupleInv
<1>2. CacheInv' /\ TablesStay
  <2>1. Ready /\ ScanPin \in Others /\ rfile \in Handles
    BY <1>1, PinTypes, TablesTypes DEF CallPart, Ready
  <2>2. join.rPage \in PageIds
    BY <1>1, InUseType DEF LoopPart
  <2>3. ReadPage(ScanPin, rfile, join.rPage) /\ UNCHANGED heapVars
    BY DEF ScanPage
  <2> QED
    BY <1>1, <2>1, <2>2, <2>3, ReadStep DEF TupleInv
<1>3. /\ join'.pc = "match" /\ join'.swapped = join.swapped
      /\ join'.sPage = join.sPage /\ join'.rPage = join.rPage
  BY <1>1 DEF ScanPage, Join
<1>4. SPagesLeft' = SPagesLeft
  BY <1>1, <1>2, <1>3, SameSPages
<1>5. ScanLeft' = ScanLeft
  BY <1>1, <1>2, <1>3, SameRPages DEF ScanLeft
<1> QED
  BY <1>1, <1>3, <1>4, <1>5 DEF StageLeft, Ended, BlockLeft, ReadLeft

LEMMA EndPageCloser ==
    ASSUME OneHandle, NEW b \in Nat, JoinRuns(b), EndPage
    PROVE  /\ StageLeft' = StageLeft /\ SPagesLeft' = SPagesLeft /\ BlockLeft' = BlockLeft
           /\ ScanLeft' < ScanLeft
<1>1. /\ join.pc = "match" /\ Scans /\ join \in Join
      /\ TupleInv /\ CacheInv /\ LoopPart /\ CallPart
  BY DEF EndPage, JoinRuns, TupleInv, Scans
<1>2. CacheInv' /\ TablesStay
  <2>1. ScanPin \in Others /\ Ready /\ UnPin(ScanPin, FALSE) /\ UNCHANGED heapVars
    BY <1>1, PinTypes DEF EndPage, CallPart, Ready
  <2> QED
    BY <1>1, <2>1, GiveBackStep DEF TupleInv
<1>3. /\ join'.pc = "scan" /\ join'.swapped = join.swapped /\ join'.sPage = join.sPage
      /\ join'.rPage = Successor(disk[FileOf[rfile]], join.rPage)
  BY <1>1 DEF EndPage, ImageOf, Join
<1>4. SPagesLeft' = SPagesLeft
  BY <1>1, <1>2, <1>3, SameSPages
<1>5. join.rPage \in InUse(disk[FileOf[rfile]])
  BY <1>1 DEF LoopPart
<1>6. ScanLeft' = Cardinality(PagesLeft(rfile, join'.rPage))
  BY <1>1, <1>2, <1>3, PagesLeftStay DEF ScanLeft
<1>7. ScanLeft' < ScanLeft
  BY <1>1, <1>3, <1>5, <1>6, FewerPages, TablesTypes DEF ScanLeft
<1> QED
  BY <1>1, <1>3, <1>4, <1>7 DEF StageLeft, Ended, BlockLeft

LEMMA ReleasePageCloser ==
    ASSUME OneHandle, NEW b \in Nat, JoinRuns(b), ReleasePage
    PROVE  /\ StageLeft' = StageLeft /\ SPagesLeft' = SPagesLeft /\ BlockLeft' = BlockLeft
           /\ ScanLeft' < ScanLeft
<1>1. /\ join.pc = "release" /\ join \in Join /\ join' = join
      /\ TupleInv /\ CacheInv /\ CallPart /\ UNCHANGED heapVars
      /\ Released # {} /\ UnPin(BlockPins[Min(Released)], FALSE)
  BY DEF ReleasePage, JoinRuns, TupleInv
<1>2. PICK k \in 1..Len(BlockPins) : k = Min(Released) /\ k \in Released
  <2>1. Released \in SUBSET (1..join.frameUsed) /\ join.frameUsed \in 0..Len(BlockPins)
    BY <1>1 DEF Released, Join
  <2>2. Released \in SUBSET Nat /\ Released \in SUBSET (1..Len(BlockPins))
    BY <2>1, PinTypes
  <2>3. \E x \in Released : \A y \in Released : x <= y
    BY <1>1, <2>2, LeastNatural
  <2>4. Min(Released) \in Released
    BY <2>3 DEF Min
  <2> QED
    BY <2>2, <2>4
<1>3. /\ CacheInv' /\ TablesStay /\ ~Active(BlockPins[k])'
      /\ \A e \in Clients \ {BlockPins[k]} : session'[e] = session[e]
  <2>1. BlockPins[k] \in Others /\ Ready
    BY <1>1, PinTypes DEF CallPart, Ready
  <2> QED
    BY <1>1, <1>2, <2>1, GiveBackStep DEF TupleInv
<1>4. SPagesLeft' = SPagesLeft
  BY <1>1, <1>3, SameSPages
<1>5. ScanLeft = Cardinality(Released) /\ ScanLeft' = Cardinality(Released')
  BY <1>1 DEF ScanLeft
<1>6. Released' \in SUBSET Released
  <2>1. ASSUME NEW i \in 1..join.frameUsed, Active(BlockPins[i])'
        PROVE  Active(BlockPins[i])
    <3>1. i \in 1..Len(BlockPins) /\ BlockPins[i] \in Clients
      <4>1. join.frameUsed \in 0..Len(BlockPins)
        BY <1>1 DEF Join
      <4>2. i \in 1..Len(BlockPins)
        BY <4>1, PinTypes
      <4> QED
        BY <4>2, PinTypes DEF Others
    <3>2. BlockPins[i] # BlockPins[k]
      BY <1>3, <2>1
    <3>3. session'[BlockPins[i]] = session[BlockPins[i]]
      BY <1>3, <3>1, <3>2
    <3> QED
      BY <2>1, <3>3 DEF Active
  <2> QED
    BY <1>1, <2>1 DEF Released
<1>7. k \notin Released'
  BY <1>3 DEF Released
<1>8. ScanLeft' < ScanLeft
  <2>1. IsFiniteSet(Released) /\ k \in Released
    BY <1>1, <1>2, ReleasedFinite
  <2>2. Cardinality(Released') < Cardinality(Released)
    BY <1>6, <1>7, <2>1, FewerElements
  <2> QED
    BY <1>5, <2>2
<1> QED
  BY <1>1, <1>4, <1>8 DEF StageLeft, Ended, BlockLeft

LEMMA InsertPairCloser ==
    ASSUME OneHandle, NEW b \in Nat, JoinRuns(b), InsertPair
    PROVE  /\ StageLeft' = StageLeft /\ SPagesLeft' = SPagesLeft /\ BlockLeft' = BlockLeft
           /\ ScanLeft' = ScanLeft /\ ReadLeft' = ReadLeft /\ LoopsLeft' < LoopsLeft
<1>1. /\ join.pc = "match" /\ join \in Join /\ TupleInv /\ CacheInv
      /\ PinPart /\ CallPart /\ Scans /\ pc = "returned"
  BY DEF InsertPair, JoinRuns, TupleInv, Scans, CallPart
<1>2. PICK at \in PairsLeft :
          /\ BeginInsert(InsertPin, Result(at)) \/ BeginInsertInNewPage(InsertPin, Result(at))
          /\ join' = [join EXCEPT !.pc = "insert", !.at = at]
  BY DEF InsertPair
<1>3. at \in Pairs /\ at \in Positions /\ Earlier(join.at, at)
  BY DEF PairsLeft, Pairs
<1>4. Result(at) \in Tuples
  BY <1>1, <1>3, PairOfPosition
<1>5. CacheInv' /\ TablesStay
  BY <1>1, <1>2, <1>4, BeginStep DEF TupleInv
<1>6. /\ join'.swapped = join.swapped /\ join'.sPage = join.sPage
      /\ join'.rPage = join.rPage /\ join'.frameUsed = join.frameUsed
      /\ join'.pc = "insert" /\ join'.at = at
  BY <1>1, <1>2 DEF Join
<1>7. SPagesLeft' = SPagesLeft
  BY <1>1, <1>5, <1>6, SameSPages
<1>8. ScanLeft' = ScanLeft
  BY <1>1, <1>5, <1>6, SameRPages DEF ScanLeft
<1>9. LoopsLeft' < LoopsLeft
  <2>1. Positions' = Positions /\ Positions \in SUBSET (Nat \X Nat \X Nat)
    BY <1>1, <1>6, PositionsFinite DEF Positions
  <2>2. join.at \in Nat \X Nat \X Nat
    BY <1>1 DEF Join
  <2>3. PositionsLeft' = {p \in Positions : Earlier(at, p)}
    BY <1>6, <2>1 DEF PositionsLeft
  <2>4. ASSUME NEW p \in Positions, Earlier(at, p) PROVE Earlier(join.at, p)
    <3>1. at \in Nat \X Nat \X Nat /\ p \in Nat \X Nat \X Nat
      BY <1>3, <2>1
    <3>2. ~Earlier(p, at)
      BY <2>4, <3>1, EarlierOrders
    <3> QED
      BY <1>3, <2>2, <2>4, <3>1, EarlierOrders
  <2>5. PositionsLeft' \in SUBSET PositionsLeft
    BY <2>3, <2>4 DEF PositionsLeft
  <2>6. at \in PositionsLeft /\ at \notin PositionsLeft'
    <3>1. at \in Nat \X Nat \X Nat
      BY <1>3, <2>1
    <3>2. ~Earlier(at, at)
      BY <3>1, EarlierOrders
    <3> QED
      BY <1>3, <2>3, <3>2 DEF PositionsLeft
  <2> QED
    BY <1>1, <2>5, <2>6, PositionsFinite, FS_Subset, FS_CardinalityType DEF LoopsLeft
<1> QED
  BY <1>1, <1>6, <1>7, <1>8, <1>9 DEF StageLeft, Ended, BlockLeft, ReadLeft

LEMMA InsertingCloser ==
    ASSUME OneHandle, NEW b \in Nat, JoinRuns(b), Inserting, pc' # "threw"
    PROVE  /\ StageLeft' = StageLeft /\ SPagesLeft' = SPagesLeft /\ BlockLeft' = BlockLeft
           /\ ScanLeft' = ScanLeft /\ ReadLeft' = ReadLeft /\ LoopsLeft' = LoopsLeft
           /\ InsertLeft' < InsertLeft
<1>1. /\ join.pc = "insert" /\ join \in Join /\ TupleInv /\ CacheInv
      /\ quiet /\ ~Ready /\ call.op = "insert"
  BY DEF Inserting, JoinRuns, TupleInv, CallPart
<1>2. Pin \/ InsertRecord \/ UnpinEdited \/ Flush
  BY DEF Inserting, PinFails, InsertRecordFails
<1>3. /\ CacheInv' /\ TablesStay
      /\ \/ pc = "pin" /\ pc' = "edit"
         \/ pc = "edit" /\ pc' = "unpin"
         \/ pc = "unpin" /\ pc' = "flush"
         \/ pc = "flush" /\ pc' = "returned"
  BY <1>1, <1>2, InsertStep DEF TupleInv
<1>4. /\ join'.swapped = join.swapped /\ join'.sPage = join.sPage
      /\ join'.rPage = join.rPage
      /\ join'.frameUsed = join.frameUsed /\ join'.at = join.at
      /\ join'.pc = IF pc' = "returned" THEN "match" ELSE "insert"
  <2>1. CASE pc' = "returned"
    <3>1. join' = [join EXCEPT !.pc = "match", !.numResultTuples = @ + 1]
      BY <2>1 DEF Inserting
    <3> QED
      BY <1>1, <2>1, <3>1 DEF Join
  <2>2. CASE pc' # "returned"
    <3>1. join' = join
      BY <2>2 DEF Inserting
    <3> QED
      BY <1>1, <2>2, <3>1
  <2> QED
    BY <2>1, <2>2
<1>5. SPagesLeft' = SPagesLeft
  BY <1>1, <1>3, <1>4, SameSPages
<1>6. ScanLeft' = ScanLeft
  BY <1>1, <1>3, <1>4, SameRPages DEF ScanLeft
<1>7. LoopsLeft' = LoopsLeft
  BY <1>4 DEF LoopsLeft, PositionsLeft, Positions
<1>8. InsertLeft' < InsertLeft
  BY <1>1, <1>3, <1>4 DEF InsertLeft
<1> QED
  BY <1>1, <1>4, <1>5, <1>6, <1>7, <1>8 DEF StageLeft, Ended, BlockLeft, ReadLeft

\* Every step leaves less of the join than it found.
LEMMA CloserStep ==
    ASSUME OneHandle, JoinInv, JoinInv', JoinNext, join.budget >= 2
    PROVE  Less(Rest', Rest)
<1>1. Runs
  <2>1. JoinStep => Runs
    BY DEF Runs, JoinStep, CompareSizes, LoadPage, StartScan, ScanPage, EndScan, ReadThrows,
           InsertPair, Inserting, EndPage, ReleasePage, EndBlock
  <2> QED
    BY <2>1 DEF JoinNext, ReadsBeforeTuple, Runs
<1>2. PICK b \in Nat : JoinRuns(b)
  BY <1>1 DEF JoinInv
<1>3. join \in Join
  BY <1>2 DEF JoinRuns
<1>4. CASE CompareSizes
  BY <1>3, <1>4, CompareSizesCloser, LessParts
<1>5. CASE LoadPage
  BY <1>2, <1>5, LoadPageCloser, LessParts
<1>6. CASE StartScan
  BY <1>2, <1>6, StartScanCloser, LessParts
<1>7. CASE ScanPage
  BY <1>2, <1>7, ScanPageCloser, LessParts
<1>8. CASE EndScan
  BY <1>2, <1>8, EndScanCloser, LessParts
<1>9. CASE ReadThrows
  <2>1. join.pc \in {"load", "scan"} /\ join'.pc = "threw"
    BY <1>3, <1>9 DEF ReadThrows, Join
  <2> QED
    BY <2>1, LeavingCloser, LessParts DEF Ended
<1>10. CASE InsertPair
  BY <1>2, <1>10, InsertPairCloser, LessParts
<1>11. CASE Inserting
  <2>1. CASE pc' = "threw"
    <3>1. join.pc = "insert" /\ join'.pc = "threw"
      BY <1>3, <1>11, <2>1 DEF Inserting, Join
    <3> QED
      BY <3>1, LeavingCloser, LessParts DEF Ended
  <2>2. CASE pc' # "threw"
    BY <1>2, <1>11, <2>2, InsertingCloser, LessParts
  <2> QED
    BY <2>1, <2>2
<1>12. CASE EndPage
  BY <1>2, <1>12, EndPageCloser, LessParts
<1>13. CASE ReleasePage
  BY <1>2, <1>13, ReleasePageCloser, LessParts
<1>14. CASE EndBlock
  BY <1>2, <1>14, EndBlockCloser, LessParts
<1>15. CASE ReadsBeforeTuple
  <2>1. join.pc = "match" /\ join'.pc = "crashed"
    BY <1>3, <1>15 DEF ReadsBeforeTuple, Join
  <2> QED
    BY <2>1, LeavingCloser, LessParts DEF Ended
<1> QED
  BY <1>4, <1>5, <1>6, <1>7, <1>8, <1>9, <1>10, <1>11, <1>12, <1>13, <1>14, <1>15
  DEF JoinNext, JoinStep

\* With at least two pages to work in, no step of a join starts over what it has
\* done: its loops run in the order of their nesting, to their ends.
THEOREM JoinStepsComeCloser ==
    ASSUME OneHandle
    PROVE  JoinSpec => JoinComesCloser
<1> DEFINE Counted == Rest \in [1..7 -> Nat]
<1>1. JoinInv => Counted
  BY RestIsNat DEF JoinInv, JoinRuns
<1>2. ASSUME JoinInv, JoinInv', [JoinNext]_joinVars, Counted'
      PROVE  [join.budget >= 2 => Rest' \in [1..7 -> Nat] /\ Less(Rest', Rest)]_joinVars
  BY <1>2, CloserStep
<1> QED
  BY <1>1, <1>2, JoinInvariant, PTL DEF JoinSpec, JoinComesCloser
=============================================================================
