------------------------------ MODULE HeapFile -------------------------------
(***************************************************************************)
(* HeapFileManager (storage.cpp): tuples in the records of a file, through *)
(* the buffer manager.  insertTuple and deleteTuple look for a page in the *)
(* file itself, and then pin it, edit it, unpin it and flush the file by   *)
(* calls of BufMgr.  Every call of BufMgr is a step here, and each of them *)
(* may throw.  Between two calls of the heap file manager, other clients   *)
(* of the pool pin and unpin pages.                                        *)
(* A page's content is the tuple in each slot, and Fits says which tuples  *)
(* it still has room for; a tuple may be longer than any page.             *)
(* SlottedPage says how the slots are kept.  Left out here is a page that  *)
(* opens a slot over old bytes which read as a used slot: insertRecord     *)
(* then throws SlotInUseException (CleanSlots of SlottedPage excludes it). *)
(***************************************************************************)
EXTENDS BufMgr

CONSTANTS
    Tuples,         \* of any lengths
    NoTuple,        \* in a slot without a record
    SlotsPerPage,   \* the most tuples that a page has room for
    Fits,           \* the contents of a page, with a tuple that fits in beside them
    Table,          \* the File object of the heap file
    Callers         \* the clients that are calls of the heap file manager

Slots == 1..SlotsPerPage
Contents == [Slots -> Tuples \cup {NoTuple}]

ASSUME TuplesAssumption == NoTuple \notin Tuples
ASSUME SlotsAssumption == SlotsPerPage \in Nat \ {0}
ASSUME ContentsAssumption == Data = Contents /\ EmptyData = [s \in Slots |-> NoTuple]
ASSUME FitsAssumption == \A fit \in Fits : \E s \in Slots : fit[1][s] = NoTuple
ASSUME TableAssumption == Table \in Handles
ASSUME CallersAssumption == Callers \subseteq Clients

VARIABLES
    pc,     \* the step of the running call, or how the last call ended
    call,   \* its arguments, and the page it has come to
    before, \* the tuples that a client found when it began
    quiet   \* it began after a call that returned, with no page of the file pinned

heapVars == <<pc, call, before, quiet>>
allVars == <<vars, heapVars>>

TableFile == FileOf[Table]
Image == disk[TableFile]

RecordIds == PageIds \X Slots
NoRecordId == <<NoPage, 0>>

\* "insert" carries a tuple, "delete" a record id.
Call == [op     : {"insert", "delete"},
         caller : Clients,
         tuple  : Tuples \cup {NoTuple},
         rid    : RecordIds \cup {NoRecordId},
         page   : PageRefs]

\* No call is running: the last one has returned, or has thrown.
Ready == pc \in {"returned", "threw"}

FreeSlots(d) == {s \in Slots : d[s] = NoTuple}
FirstFree(d) == CHOOSE s \in FreeSlots(d) : \A t \in FreeSlots(d) : s <= t

\* hasSpaceForRecord
HasSpace(d, t) == <<d, t>> \in Fits

\* The tuple a client finds under each record id.
TuplesNow ==
    [r \in RecordIds |->
        LET content == Content(TableFile, r[1])
        IN  IF content = NoData THEN NoTuple ELSE content[r[2]]]

HeapInit ==
    /\ Init
    /\ pc = "returned"
    /\ call \in [op : {"insert"}, caller : Clients, tuple : {NoTuple},
                 rid : {NoRecordId}, page : {NoPage}]
    /\ before = TuplesNow
    /\ quiet = FALSE

-----------------------------------------------------------------------------
(* insertTuple looks at the pages in the file, not in the pool *)

\* Mutant of PageWithSpace: the first page, full or not.
PageWithSpace_Unchecked(t) == Image.hdr.first_used_page

\* Mutant of PageWithSpace: a page that has been allocated stays unused as long
\* as it is empty.
PageWithSpace_SkipsEmpty(t) ==
    WalkEnd(Image, {p \in PageIds : /\ HasSpace(Image.page[p].data, t)
                                    /\ Image.page[p].data # EmptyData})

PageWithSpace(t) == WalkEnd(Image, {p \in PageIds : HasSpace(Image.page[p].data, t)})

Begins(c) ==
    /\ Ready
    /\ ~Active(c)
    /\ before' = TuplesNow
    /\ quiet' = /\ pc = "returned"
                /\ \A f \in FramesOf(Table) : bufDescTable[f].pinCnt = 0

BeginInsert(c, t) ==
    /\ Begins(c)
    /\ PageWithSpace(t) \in Readable(Image)
    /\ call' = [op |-> "insert", caller |-> c, tuple |-> t, rid |-> NoRecordId,
                page |-> PageWithSpace(t)]
    /\ pc' = "pin"
    /\ UNCHANGED vars

\* file.allocatePage(), behind the pool.
BeginInsertInNewPage(c, t) ==
    /\ Begins(c)
    /\ PageWithSpace(t) = NoPage
    /\ CanAllocate(Table)
    /\ call' = [op |-> "insert", caller |-> c, tuple |-> t, rid |-> NoRecordId,
                page |-> NewNumber(Table)]
    /\ pc' = "pin"
    /\ disk' = GrownDisk(Table)
    /\ UNCHANGED <<pool, session, bufStats>>

\* deleteTuple starts at the first page of the file.
BeginDelete(c, r) ==
    /\ Begins(c)
    /\ call' = [op |-> "delete", caller |-> c, tuple |-> NoTuple, rid |-> r,
                page |-> Image.hdr.first_used_page]
    /\ pc' = IF Image.hdr.first_used_page = NoPage THEN "flush" ELSE "pin"
    /\ UNCHANGED vars

-----------------------------------------------------------------------------
(* The page is pinned *)

Pin ==
    /\ pc = "pin"
    /\ \/ ReadHit(call.caller, Table, call.page)
       \/ ReadMiss(call.caller, Table, call.page)
    /\ pc' = "edit"
    /\ UNCHANGED <<call, before, quiet>>

PinFails ==
    /\ pc = "pin"
    /\ ReadNoFrame(Table, call.page)
    /\ pc' = "threw"
    /\ UNCHANGED <<call, before, quiet>>

-----------------------------------------------------------------------------
(* The pinned page is edited, through the pointer *)

Pinned == bufPool[session[call.caller].frame].data

InsertRecord ==
    /\ pc = "edit" /\ call.op = "insert"
    /\ HasSpace(Pinned, call.tuple)
    /\ WritePinned(call.caller, [Pinned EXCEPT ![FirstFree(Pinned)] = call.tuple])
    /\ pc' = "unpin"
    /\ UNCHANGED <<call, before, quiet>>

\* InsufficientSpaceException, and nobody unpins the page: the page in the pool
\* is fuller than the one in the file was, or the tuple is too long even for the
\* new page.
InsertRecordFails ==
    /\ pc = "edit" /\ call.op = "insert"
    /\ ~HasSpace(Pinned, call.tuple)
    /\ pc' = "threw"
    /\ UNCHANGED <<vars, call, before, quiet>>

\* Mutant of Here: the page number of the record id is not looked at.
Here_OnAnyPage == Pinned[call.rid[2]] # NoTuple

\* validateRecordId
Here == call.page = call.rid[1] /\ Pinned[call.rid[2]] # NoTuple

DeleteRecord ==
    /\ pc = "edit" /\ call.op = "delete"
    /\ Here
    /\ WritePinned(call.caller, [Pinned EXCEPT ![call.rid[2]] = NoTuple])
    /\ pc' = "unpin"
    /\ UNCHANGED <<call, before, quiet>>

\* InvalidRecordException is caught: on to the next page.
NotHere ==
    /\ pc = "edit" /\ call.op = "delete"
    /\ ~Here
    /\ UnPin(call.caller, FALSE)
    /\ call' = [call EXCEPT !.page = Successor(Image, @)]
    /\ pc' = IF call'.page = NoPage THEN "flush" ELSE "pin"
    /\ UNCHANGED <<before, quiet>>

-----------------------------------------------------------------------------
(* The page is unpinned as dirty, and the whole file is flushed *)

UnpinEdited ==
    /\ pc = "unpin"
    /\ UnPin(call.caller, TRUE)
    /\ pc' = "flush"
    /\ UNCHANGED <<call, before, quiet>>

FlushThrows == \E f \in FramesOf(Table) : StopsFlush(f)

\* Mutant of Flush: the change stays in the pool.
Flush_Skipped ==
    /\ pc = "flush"
    /\ UNCHANGED vars
    /\ pc' = IF FlushThrows THEN "threw" ELSE "returned"
    /\ UNCHANGED <<call, before, quiet>>

Flush ==
    /\ pc = "flush"
    /\ \/ FlushFile(Table)
       \/ Flushed(Table) = {} /\ UNCHANGED vars
    /\ pc' = IF FlushThrows THEN "threw" ELSE "returned"
    /\ UNCHANGED <<call, before, quiet>>

-----------------------------------------------------------------------------
(* Other clients of the pool, and the end of the program *)

Others == Clients \ Callers

\* They read; the pages of the other files are made by them too.
OtherClients ==
    /\ Ready
    /\ \E c \in Others :
          \/ \E h \in Handles :
                \/ \E p \in PageIds : ReadHit(c, h, p) \/ ReadMiss(c, h, p)
                \/ FileOf[h] # TableFile /\ AllocPage(c, h)
          \/ UnPin(c, FALSE)
    /\ UNCHANGED heapVars

NewProgram ==
    /\ Ready
    /\ Restart
    /\ UNCHANGED heapVars

HeapNext ==
    \/ \E c \in Callers :
          \/ \E t \in Tuples : BeginInsert(c, t) \/ BeginInsertInNewPage(c, t)
          \/ \E r \in RecordIds : BeginDelete(c, r)
    \/ Pin \/ PinFails
    \/ InsertRecord \/ InsertRecordFails \/ DeleteRecord \/ NotHere
    \/ UnpinEdited \/ Flush
    \/ OtherClients
    \/ NewProgram

HeapSpec == HeapInit /\ [][HeapNext]_allVars

-----------------------------------------------------------------------------

HeapTypeOK ==
    /\ TypeOK
    /\ pc \in {"returned", "threw", "pin", "edit", "unpin", "flush"}
    /\ call \in Call
    /\ before \in [RecordIds -> Tuples \cup {NoTuple}]
    /\ quiet \in BOOLEAN

\* A tuple is found under its record id, unchanged, until it is deleted by that
\* id: no insertion takes the slot of another tuple, and no tuple is lost when
\* its page leaves the pool, when a call throws, or when the program ends.
Heap == INSTANCE RecordStore WITH
            Names <- RecordIds, Records <- Tuples, NoRecord <- NoTuple,
            store <- TuplesNow
HeapImplemented == Heap!Init /\ [][TuplesNow' # TuplesNow => Heap!Next]_allVars

\* A call that returns has done its work and nothing else, from the state in
\* which it began: the one record that an insertion adds, or the one under the
\* id to delete.
WorkDone ==
    IF call.op = "delete" THEN TuplesNow = [before EXCEPT ![call.rid] = NoTuple]
    ELSE \E r \in RecordIds :
            before[r] = NoTuple /\ TuplesNow = [before EXCEPT ![r] = call.tuple]
CallsDoTheirWork == [][~Ready /\ pc' = "returned" => WorkDone']_allVars

\* "write the change back to the file" (storage.cpp:31, 43, 66): when a call
\* has returned, the file holds what the pool holds, and the next search
\* through the file is not misled.
ReturnedIsWritten ==
    pc = "returned" =>
        \A p \in InUse(Image) : Content(TableFile, p) = Image.page[p].data

\* The call is no insertion of a tuple longer than a page.
FitsAPage == call.op = "insert" => HasSpace(EmptyData, call.tuple)

\* A call that begins after one that returned, while nobody has a page of the
\* heap file pinned, and that is no insertion of a tuple longer than a page,
\* gives its pin back on every path, and has changed no tuple when it throws,
\* whatever is pinned elsewhere in the pool: it can be tried again without an
\* insertion happening twice.
CallsAreClean ==
    Ready /\ quiet /\ FitsAPage =>
        /\ ~Active(call.caller)
        /\ pc = "threw" => TuplesNow = before

\* The file grows only by an insertion that no page in it has room for, however
\* many calls have thrown before with a page already allocated: the next try
\* finds that page.  After a call that returned, no page in the pool has room
\* either.
GrowsOnlyWhenFull ==
    [][InUse(Image)' # InUse(Image) =>
          \A p \in InUse(Image) :
              /\ ~HasSpace(Image.page[p].data, call'.tuple)
              /\ pc = "returned" => ~HasSpace(Content(TableFile, p), call'.tuple)]_allVars
=============================================================================
