------------------------------- MODULE BufMgr --------------------------------
(***************************************************************************)
(* The buffer manager of BadgerDB (buffer.cpp), over the files of FileOps. *)
(* The pool has NumBufs frames.  bufDescTable says which page of which     *)
(* File object each frame holds; hash finds the frame of a page.  Clients  *)
(* read or allocate a page, which pins it and gives them a pointer into    *)
(* bufPool, write through the pointer and unpin; others flush files and    *)
(* dispose of pages in between.  BadgerDB is single threaded: a call is    *)
(* one step, and calls of several clients interleave.                      *)
(*                                                                         *)
(* A frame is keyed by the File object it was read through, not by the     *)
(* file: two File objects on one file are two handles with FileOf equal.   *)
(* A call that throws before it has changed anything is not a step.        *)
(***************************************************************************)
EXTENDS FileOps, Clock, FiniteSets

CONSTANTS
    Files,          \* file names
    Handles,        \* File objects, all open
    FileOf,         \* Handles -> Files
    NoHandle,       \* the null File pointer
    Clients,        \* users of the buffer manager, each with at most one pin
    NoData,         \* not a page content; see PageStore
    Disciplined,    \* clients dispose of a page, and end, only when nobody has
                    \* the page, or any page, pinned
    StatCap         \* bound: the counters stop here

ASSUME FileOfAssumption == FileOf \in [Handles -> Files]
ASSUME NoHandleAssumption == NoHandle \notin Handles
ASSUME NoPageDataAssumption == NoData \notin Data
ASSUME DisciplinedAssumption == Disciplined \in BOOLEAN
ASSUME StatCapAssumption == StatCap \in Nat
ASSUME ClientsAssumption == IsFiniteSet(Clients)

VARIABLES
    clockHand,
    bufDescTable,   \* Frames -> BufDesc
    bufPool,        \* Frames -> Page
    hash,           \* for a File object and a page, its frame or NoFrame
    disk,           \* Files -> FileImage
    session,        \* Clients -> the pin a client has
    bufStats        \* accesses, diskreads, diskwrites

pool == <<clockHand, bufDescTable, bufPool, hash>>
vars == <<pool, disk, session, bufStats>>

NoFrame == NumBufs

BufDesc == [file   : Handles \cup {NoHandle},
            pageNo : PageRefs,
            pinCnt : Nat,
            dirty  : BOOLEAN,
            valid  : BOOLEAN,
            refbit : BOOLEAN]

\* BufDesc::Clear
Clear == [file |-> NoHandle, pageNo |-> NoPage, pinCnt |-> 0,
          dirty |-> FALSE, valid |-> FALSE, refbit |-> FALSE]

\* Mutant of Set: the caller's pin is forgotten.
Set_Unpinned(h, p) == [file |-> h, pageNo |-> p, pinCnt |-> 0,
                       dirty |-> FALSE, valid |-> TRUE, refbit |-> TRUE]

\* BufDesc::Set
Set(h, p) == [file |-> h, pageNo |-> p, pinCnt |-> 1,
              dirty |-> FALSE, valid |-> TRUE, refbit |-> TRUE]

\* A client's pin: the page it asked for, the frame its pointer points into,
\* and whether it has written through the pointer.
Session == [file  : Handles \cup {NoHandle},
            page  : PageRefs,
            frame : 0..NumBufs,
            wrote : BOOLEAN]
Idle == [file |-> NoHandle, page |-> NoPage, frame |-> NoFrame, wrote |-> FALSE]

Active(c) == session[c] # Idle

Counters == [accesses : 0..StatCap, diskreads : 0..StatCap, diskwrites : 0..StatCap]

Init ==
    /\ clockHand = NumBufs - 1
    /\ bufDescTable = [f \in Frames |-> Clear]
    /\ bufPool = [f \in Frames |-> FreshPage]
    /\ hash = [h \in Handles |-> [p \in PageIds |-> NoFrame]]
    /\ disk = [n \in Files |-> NewFile]
    /\ session = [c \in Clients |-> Idle]
    /\ bufStats = [accesses |-> 0, diskreads |-> 0, diskwrites |-> 0]

-----------------------------------------------------------------------------
(* Counters: n more, up to the bound *)

Plus(a, n) == IF a + n > StatCap THEN StatCap ELSE a + n

Count(accesses, diskreads, diskwrites) ==
    bufStats' = [accesses   |-> Plus(bufStats.accesses, accesses),
                 diskreads  |-> Plus(bufStats.diskreads, diskreads),
                 diskwrites |-> Plus(bufStats.diskwrites, diskwrites)]

-----------------------------------------------------------------------------
(* Writing frames back *)

FileIn(f) == FileOf[bufDescTable[f].file]

\* file->writePage(bufPool[f]) throws InvalidPageException.
WriteBackThrows(d, f) == WriteThrows(d[FileIn(f)], bufPool[f])

\* The disk after the frames of S have been written, in frame order.
WrittenBack(d, S) ==
    [n \in Files |->
        [d[n] EXCEPT !.page = [p \in PageIds |->
            LET W == {f \in S : FileIn(f) = n /\ bufPool[f].num = p}
                last == CHOOSE f \in W : \A g \in W : g <= f
            IN  IF W = {} THEN d[n].page[p]
                ELSE [bufPool[last] EXCEPT !.next = d[n].page[p].next]]]]

-----------------------------------------------------------------------------
(* allocBuf, as a function of the disk d it runs on *)

\* Mutant of Busy: a frame with one pin is taken.
Busy_OnePinAllowed ==
    {f \in Frames : bufDescTable[f].valid /\ bufDescTable[f].pinCnt > 1}

Busy == {f \in Frames : bufDescTable[f].valid /\ bufDescTable[f].pinCnt > 0}
Exceeded == Busy = Frames
victim == Victim(clockHand, Busy)

\* The frame must be written before it can be given up, and that write throws.
VictimFails(d) ==
    /\ bufDescTable[victim].valid
    /\ bufDescTable[victim].dirty
    /\ WriteBackThrows(d, victim)

\* The reference bits after the hand has moved on to f.
SweptTable(f) ==
    [g \in Frames |-> IF g \in Swept(clockHand, f)
                      THEN [bufDescTable[g] EXCEPT !.refbit = FALSE]
                      ELSE bufDescTable[g]]

\* BufferExceededException: a full turn, every reference bit cleared.
AllocBufExceeded ==
    /\ Exceeded
    /\ bufDescTable' = SweptTable(clockHand)
    /\ UNCHANGED <<clockHand, bufPool, hash>>

\* InvalidPageException from the victim's write: the hand stays on the victim.
AllocBufFails(d) ==
    /\ ~Exceeded /\ VictimFails(d)
    /\ clockHand' = victim
    /\ bufDescTable' = SweptTable(victim)
    /\ UNCHANGED <<bufPool, hash>>

\* The other outcomes leave victim free: the disk, the descriptors and the
\* hash table that allocBuf returns with.
Allocates(d) == ~Exceeded /\ ~VictimFails(d)

VictimDirty == bufDescTable[victim].valid /\ bufDescTable[victim].dirty

\* Mutant of DiskAfter: the victim is given up without a write.
DiskAfter_Dropped(d) == d

DiskAfter(d) == IF VictimDirty THEN WrittenBack(d, {victim}) ELSE d
TableAfter == [SweptTable(victim) EXCEPT ![victim] = Clear]

\* Mutant of HashAfter: the victim's entry stays in the hash table.
HashAfter_KeepsEntry == hash

HashAfter ==
    IF bufDescTable[victim].valid
    THEN [hash EXCEPT ![bufDescTable[victim].file][bufDescTable[victim].pageNo] = NoFrame]
    ELSE hash

-----------------------------------------------------------------------------
(* readPage *)

\* The client's page pointer and pin.
Pins(c, h, p, f) ==
    session' = [session EXCEPT ![c] =
                   [file |-> h, page |-> p, frame |-> f, wrote |-> FALSE]]

ReadHit(c, h, p) ==
    /\ ~Active(c)
    /\ hash[h][p] # NoFrame
    /\ bufDescTable' = [bufDescTable EXCEPT ![hash[h][p]].refbit = TRUE,
                                           ![hash[h][p]].pinCnt = @ + 1]
    /\ Pins(c, h, p, hash[h][p])
    /\ Count(1, 0, 0)
    /\ UNCHANGED <<clockHand, bufPool, hash, disk>>

ReadMiss(c, h, p) ==
    /\ ~Active(c)
    /\ hash[h][p] = NoFrame
    /\ Allocates(disk)
    /\ p \in Readable(DiskAfter(disk)[FileOf[h]])
    /\ clockHand' = victim
    /\ disk' = DiskAfter(disk)
    /\ bufPool' = [bufPool EXCEPT ![victim] = DiskAfter(disk)[FileOf[h]].page[p]]
    /\ hash' = [HashAfter EXCEPT ![h][p] = victim]
    /\ bufDescTable' = [TableAfter EXCEPT ![victim] = Set(h, p)]
    /\ Pins(c, h, p, victim)
    /\ Count(1, 1, 0)

\* file->readPage throws: the victim is gone and its frame stays free.
ReadInvalid(h, p) ==
    /\ hash[h][p] = NoFrame
    /\ Allocates(disk)
    /\ p \notin Readable(DiskAfter(disk)[FileOf[h]])
    /\ clockHand' = victim
    /\ disk' = DiskAfter(disk)
    /\ hash' = HashAfter
    /\ bufDescTable' = TableAfter
    /\ Count(1, 0, 0)
    /\ UNCHANGED <<bufPool, session>>

ReadNoFrame(h, p) ==
    /\ hash[h][p] = NoFrame
    /\ AllocBufExceeded \/ AllocBufFails(disk)
    /\ Count(1, 0, 0)
    /\ UNCHANGED <<disk, session>>

-----------------------------------------------------------------------------
(* allocPage: the file gets its new page first, then allocBuf runs *)

CanAllocate(h) ==
    /\ ~AllocateFails(disk[FileOf[h]])
    /\ NewPageNumber(disk[FileOf[h]]) \in PageIds

NewNumber(h) == NewPageNumber(disk[FileOf[h]])
GrownDisk(h) == [disk EXCEPT ![FileOf[h]] = Allocated(@)]

AllocPage(c, h) ==
    /\ ~Active(c)
    /\ CanAllocate(h)
    /\ Allocates(GrownDisk(h))
    /\ HashAfter[h][NewNumber(h)] = NoFrame
    /\ clockHand' = victim
    /\ disk' = DiskAfter(GrownDisk(h))
    /\ bufPool' = [bufPool EXCEPT ![victim] = NewPage(disk[FileOf[h]])]
    /\ hash' = [HashAfter EXCEPT ![h][NewNumber(h)] = victim]
    /\ bufDescTable' = [TableAfter EXCEPT ![victim] = Set(h, NewNumber(h))]
    /\ Pins(c, h, NewNumber(h), victim)
    /\ UNCHANGED bufStats

\* The table still has an entry for a page that was deleted behind it:
\* insert throws HashAlreadyPresentException, the new page stays in the file.
AllocPagePresent(h) ==
    /\ CanAllocate(h)
    /\ Allocates(GrownDisk(h))
    /\ HashAfter[h][NewNumber(h)] # NoFrame
    /\ clockHand' = victim
    /\ disk' = DiskAfter(GrownDisk(h))
    /\ bufPool' = [bufPool EXCEPT ![victim] = NewPage(disk[FileOf[h]])]
    /\ hash' = HashAfter
    /\ bufDescTable' = TableAfter
    /\ UNCHANGED <<session, bufStats>>

\* allocBuf throws: the new page stays in the file.
AllocPageNoFrame(h) ==
    /\ CanAllocate(h)
    /\ AllocBufExceeded \/ AllocBufFails(GrownDisk(h))
    /\ disk' = GrownDisk(h)
    /\ UNCHANGED <<session, bufStats>>

-----------------------------------------------------------------------------
(* A client writes through its page pointer, whatever the frame now holds *)

WritePinned(c, d) ==
    /\ Active(c)
    /\ bufPool' = [bufPool EXCEPT ![session[c].frame].data = d]
    /\ session' = [session EXCEPT ![c].wrote = TRUE]
    /\ UNCHANGED <<clockHand, bufDescTable, hash, disk, bufStats>>

-----------------------------------------------------------------------------
(* unPinPage, by name; a client that wrote says so *)

PinnedFrame(c) == hash[session[c].file][session[c].page]

\* Mutant of UnPin: a clean unpin takes back what another client declared.
UnPin_Overwrites(c, dirty) ==
    /\ Active(c)
    /\ session[c].wrote => dirty
    /\ PinnedFrame(c) # NoFrame
    /\ bufDescTable[PinnedFrame(c)].pinCnt > 0
    /\ bufDescTable' = [bufDescTable EXCEPT ![PinnedFrame(c)].pinCnt = @ - 1,
                                           ![PinnedFrame(c)].dirty = dirty]
    /\ session' = [session EXCEPT ![c] = Idle]
    /\ UNCHANGED <<clockHand, bufPool, hash, disk, bufStats>>

UnPin(c, dirty) ==
    /\ Active(c)
    /\ session[c].wrote => dirty
    /\ PinnedFrame(c) # NoFrame
    /\ bufDescTable[PinnedFrame(c)].pinCnt > 0
    /\ bufDescTable' = [bufDescTable EXCEPT ![PinnedFrame(c)].pinCnt = @ - 1,
                                           ![PinnedFrame(c)].dirty = @ \/ dirty]
    /\ session' = [session EXCEPT ![c] = Idle]
    /\ UNCHANGED <<clockHand, bufPool, hash, disk, bufStats>>

\* The page is no longer in the pool, which is ignored, or nobody has it pinned,
\* which throws PageNotPinnedException.
UnPinLost(c) ==
    /\ Active(c)
    /\ PinnedFrame(c) # NoFrame => bufDescTable[PinnedFrame(c)].pinCnt = 0
    /\ session' = [session EXCEPT ![c] = Idle]
    /\ UNCHANGED <<pool, disk, bufStats>>

-----------------------------------------------------------------------------
(* flushFile: frame by frame, until one throws *)

FramesOf(h) == {f \in Frames : bufDescTable[f].file = h}

\* PagePinnedException, BadBufferException, InvalidPageException
StopsFlush(f) ==
    \/ bufDescTable[f].pinCnt > 0
    \/ ~bufDescTable[f].valid
    \/ bufDescTable[f].dirty /\ WriteBackThrows(disk, f)

Flushed(h) == {f \in FramesOf(h) :
                  \A g \in FramesOf(h) : StopsFlush(g) => f < g}

FlushFile(h) ==
    LET dirty == {f \in Flushed(h) : bufDescTable[f].dirty}
    IN  /\ Flushed(h) # {}
        /\ disk' = WrittenBack(disk, dirty)
        /\ hash' = [hash EXCEPT ![h] = [p \in PageIds |->
                       IF \E f \in Flushed(h) : bufDescTable[f].pageNo = p
                       THEN NoFrame ELSE hash[h][p]]]
        /\ bufDescTable' = [f \in Frames |->
                               IF f \in Flushed(h) THEN Clear ELSE bufDescTable[f]]
        /\ Count(0, 0, Cardinality(dirty))
        /\ UNCHANGED <<clockHand, bufPool, session>>

-----------------------------------------------------------------------------
(* disposePage: the frame first, whoever has it pinned, then the file *)

MayDispose(h, p) ==
    /\ Disciplined => \A c \in Clients :
           ~(Active(c) /\ FileOf[session[c].file] = FileOf[h] /\ session[c].page = p)
    \* The last used page of a file with free pages is kept: see PageFile.
    /\ Readable(disk[FileOf[h]]) # {p} \/ disk[FileOf[h]].hdr.num_free_pages = 0

DisposeBuffered(h, p) ==
    /\ MayDispose(h, p)
    /\ hash[h][p] # NoFrame
    /\ bufDescTable' = [bufDescTable EXCEPT ![hash[h][p]] = Clear]
    /\ hash' = [hash EXCEPT ![h][p] = NoFrame]
    /\ disk' = IF DeleteFails(disk[FileOf[h]], p) THEN disk
               ELSE [disk EXCEPT ![FileOf[h]] = Deleted(@, p)]
    /\ UNCHANGED <<clockHand, bufPool, session, bufStats>>

DisposeUnbuffered(h, p) ==
    /\ MayDispose(h, p)
    /\ hash[h][p] = NoFrame
    /\ ~DeleteFails(disk[FileOf[h]], p)
    /\ disk' = [disk EXCEPT ![FileOf[h]] = Deleted(@, p)]
    /\ UNCHANGED <<pool, session, bufStats>>

-----------------------------------------------------------------------------
(* ~BufMgr, and a new BufMgr over the same files.  A write that throws ends   *)
(* the process (a destructor is noexcept): the frames after it are lost.      *)

DirtyFrames == {f \in Frames : bufDescTable[f].valid /\ bufDescTable[f].dirty}

Saved == {f \in DirtyFrames :
             \A g \in DirtyFrames : WriteBackThrows(disk, g) => f < g}

Restart ==
    /\ Disciplined => \A c \in Clients : ~Active(c)
    /\ disk' = WrittenBack(disk, Saved)
    /\ clockHand' = NumBufs - 1
    /\ bufDescTable' = [f \in Frames |-> Clear]
    /\ bufPool' = [f \in Frames |-> FreshPage]
    /\ hash' = [h \in Handles |-> [p \in PageIds |-> NoFrame]]
    /\ session' = [c \in Clients |-> Idle]
    /\ bufStats' = [accesses |-> 0, diskreads |-> 0, diskwrites |-> 0]

-----------------------------------------------------------------------------

Next ==
    \/ \E h \in Handles, p \in PageIds :
          \/ \E c \in Clients : ReadHit(c, h, p) \/ ReadMiss(c, h, p)
          \/ ReadInvalid(h, p)
          \/ ReadNoFrame(h, p)
          \/ DisposeBuffered(h, p)
          \/ DisposeUnbuffered(h, p)
    \/ \E h \in Handles :
          \/ \E c \in Clients : AllocPage(c, h)
          \/ AllocPagePresent(h)
          \/ AllocPageNoFrame(h)
          \/ FlushFile(h)
    \/ \E c \in Clients :
          \/ \E d \in Data : WritePinned(c, d)
          \/ \E dirty \in BOOLEAN : UnPin(c, dirty)
          \/ UnPinLost(c)
    \/ Restart

Spec == Init /\ [][Next]_vars

-----------------------------------------------------------------------------

TypeOK ==
    /\ clockHand \in Frames
    /\ bufDescTable \in [Frames -> BufDesc]
    /\ bufPool \in [Frames -> Page]
    /\ hash \in [Handles -> [PageIds -> 0..NumBufs]]
    /\ disk \in [Files -> FileImage]
    /\ session \in [Clients -> Session]
    /\ bufStats \in Counters

\* An entry of the hash table leads to the frame that holds the page; so two
\* pages never share a frame.
EntryDescribesFrame ==
    \A h \in Handles, p \in PageIds :
        hash[h][p] # NoFrame =>
            /\ bufDescTable[hash[h][p]].valid
            /\ bufDescTable[hash[h][p]].file = h
            /\ bufDescTable[hash[h][p]].pageNo = p

\* Every valid frame is found by its page, so a page is never read into a
\* second frame, and the remove in allocBuf never throws; the frame's bytes
\* carry the page's number, so it is written back to where it belongs.
ValidFrameIsHashed ==
    \A f \in Frames :
        bufDescTable[f].valid =>
            /\ bufDescTable[f].file \in Handles
            /\ bufDescTable[f].pageNo \in PageIds
            /\ hash[bufDescTable[f].file][bufDescTable[f].pageNo] = f
            /\ bufPool[f].num = bufDescTable[f].pageNo

\* A frame that is not valid belongs to no file and has no pin: flushFile never
\* throws BadBufferException, and allocBuf counts no free frame as pinned.
FreeFrameIsClear ==
    \A f \in Frames : ~bufDescTable[f].valid => bufDescTable[f] = Clear

\* The descriptors and the hash table describe the same pool, after every
\* sequence of calls, failing ones included, however clients misbehave.
PoolConsistent == EntryDescribesFrame /\ ValidFrameIsHashed /\ FreeFrameIsClear

\* pinCnt is the number of clients that have the frame's page pinned, so no
\* frame is stuck in the pool once its clients are gone, and none is taken
\* while one is there.
PinsCounted ==
    \A f \in Frames :
        bufDescTable[f].pinCnt = Cardinality({c \in Clients : session[c].frame = f})

\* As long as a client has a page pinned, its pointer points at that page.
PinnedPageStays ==
    \A c \in Clients : Active(c) =>
        LET f == session[c].frame
        IN  /\ f \in Frames
            /\ bufDescTable[f].pinCnt > 0
            /\ bufDescTable[f].file = session[c].file
            /\ bufDescTable[f].pageNo = session[c].page

\* A frame that is not dirty and that no client is writing has the content that
\* is on the disk: giving it up without a write, as allocBuf, flushFile and the
\* destructor do, loses nothing.
CleanMatchesDisk ==
    \A f \in Frames :
        (/\ bufDescTable[f].valid /\ ~bufDescTable[f].dirty
         /\ \A c \in Clients : session[c].frame = f => ~session[c].wrote)
        => bufPool[f].data = disk[FileIn(f)].page[bufDescTable[f].pageNo].data

\* What a client that reads page p of file n would find.
Content(n, p) ==
    LET cached == {h \in Handles : FileOf[h] = n /\ hash[h][p] # NoFrame}
    IN  IF disk[n].page[p].num = NoPage THEN NoData
        ELSE IF cached = {} THEN disk[n].page[p].data
        ELSE bufPool[hash[CHOOSE h \in cached : TRUE][p]].data

\* The pages of all files, as clients find them.
Found == [k \in Files \X PageIds |-> Content(k[1], k[2])]

\* With one File object per file the pool cannot be noticed: every page has the
\* content last written to it, however frames are evicted, flushed, read again,
\* or the manager is destroyed and made anew.
Store == INSTANCE PageStore WITH
            Names <- Files \X PageIds,
            store <- Found
StoreImplemented == Store!Spec
=============================================================================
