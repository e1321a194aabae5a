# A TLA+ model of BadgerDB as completed in this course repository

The repository holds a database course's exercises. Its program is BadgerDB, a
single-user storage engine in C++: paged files, slotted pages, a buffer manager
with clock replacement (the exercise of lab 2), and on top of them heap files, a
catalog and join operators (the exercise of lab 4). This directory models that
engine, checks it with TLC, and proves part of it with TLAPS. The generated
documentation beside the code carries a program of its own, the search panel of
`docs/search/search.js`, which is modelled too. Paths below are relative to
`src/lab/lab4/Executor/src/` unless they start with `src/`; `search.js` is
`src/lab/lab4/Executor/docs/search/search.js`. `src/lab/lab2/BufMgr/` has a second
copy of the storage layer and of the documentation.

## 1. Inventory

BadgerDB has no threads. What makes it hard is that callers keep pointers,
copies and names across calls, that calls of several callers interleave, and
that a call that throws has often changed something already. The search panel has
one thread too, but timers, the loading of a frame, and the user's keys and mouse
come in any order, and `focus()` and `blur()` call handlers from inside handlers.

| Component | State | Operations | Calls |
|---|---|---|---|
| `File` (`file.cpp`, `file_iterator.h`) | header, numbered pages, used list and free list on disk; a static table of open streams with counts | create, open, remove, copy, close; allocatePage, readPage, writePage, deletePage; iteration | – |
| `Page` (`page.cpp`, `page_iterator.h`) | header counters; slot array and records in one block of bytes | insertRecord, getRecord, updateRecord, deleteRecord; iteration | – |
| `BufMgr` (`buffer.cpp`) | `bufDescTable`, `bufPool`, `clockHand`, `bufStats` | readPage, unPinPage, allocPage, disposePage, flushFile; allocBuf, advanceClock; constructor, destructor | `File`, `BufHashTbl` |
| `BufHashTbl` (`bufHashTbl.cpp`) | chains of (file, page, frame) buckets | insert, lookup, remove | – |
| `HeapFileManager` (`storage.cpp`) | none of its own | insertTuple, deleteTuple, createTupleFromSQLStatement | `BufMgr`, `Page`, `Catalog` |
| Executor (`executor.cpp`) | counters of a join | TableScanner::print, NestedLoopJoinOperator::execute (the other joins are empty stubs) | `BufMgr`, `HeapFileManager`, `Catalog` |
| `Catalog`, `TableSchema` | maps between table ids, names and schemas | addTableSchema, getters, delete, set | – |
| `lab2/submit/…buffer.cpp` | as `BufMgr` | an earlier `allocBuf` | – |
| `SearchBox` (`search.js`, `docs/index.html`) | two timer ids, last search, chosen filter, whether the panel is active; what its elements show | OnSearchFieldChange, OnSearchFieldFocus, OnSearchSelectShow/Hide/Key, OnSelectItem, Search, Activate, Close… | loads the results page |
| `SearchResults` (`search.js`) | rows shown, children open, `lastKey`, `repeatOn`; where the keyboard is | createResults, Search, Toggle, NavNext/Prev, Nav, NavChild, ProcessKeys | `SearchBox`, for Escape |
| Search index (`search.js`, `docs/search/*_*.js`) | constant data | – | – |

Components interact by plain calls and by shared state: a `BufMgr` frame is
shared by every caller that pins its page; the disk is shared by the pool and by
everybody who calls `File` directly; a page's link field is on disk, in pool
frames and in callers' copies at once.

What makes each one correct, and what could really go wrong:

* **File.** The used pages form one ascending list and the deleted pages another,
  after any sequence of allocations and deletions, although clients write back
  copies of pages that were read before the list changed.
* **Page.** Every record stays readable under its slot while others are inserted,
  resized, deleted and moved; space and slots are accounted for to the byte,
  although a new slot is memory that once may have held record bytes.
* **BufMgr.** A pinned page keeps its frame; a frame is reusable exactly when
  nobody has it pinned; a frame given up without a write equals the disk; the
  descriptors and the hash table agree after every exception; nobody can tell
  that there is a pool. The replacement loop ends, and gives up only when every
  frame is pinned.
* **BufHashTbl.** A lookup finds the frame that holds the page, whichever other pages have
  come into and gone from its chain; no bucket is left behind or doubled.
* **HeapFileManager, executor.** Every pin is given back on every path; an
  insertion is in the file once; a join inserts every pair that agrees once, with the
  number of page reads it was designed for, and no loop of it starts over.
* **SearchBox.** Whatever the order of keys, timers and focus changes, what was
  typed is searched for in the end, nothing comes late, and the elements of the
  panel agree with each other.
* **SearchResults.** The arrow keys walk over exactly what is displayed, and the
  keyboard is never where nothing is displayed; a key held down repeats as itself.

`PROJECT.json` lists the hazards with the line at which each one bites.

## 2. Modules

```
FileOps ──────────┬── PageFile ── MCPageFile      one file, clients with copies
 (file.cpp as     │
  operators)      └── BufMgr ─── MCBufMgr         the pool over the files
Clock ────────────────┘   └── HeapFile ── MCHeapFile   tuples through the pool
  └── ClockSweep          │       └── NestedLoopJoin ── MCNestedLoopJoin
      the loop of         │           a join through heap file and pool
      allocBuf            └── PoolTable ── MCPoolTable     the pool over its hash table
PageStore  <── implemented by PageFile and by BufMgr
SlottedPage ── MCSlottedPage                      records in one page
RecordStore <── implemented by SlottedPage and by HeapFile

SearchIndex ──┬── SearchResults ── MCSearchResults    the results page
 (data)       └──────────────────┐
SearchBox ───────────────── MCSearchBox               the panel

StorageLemmas (FileOps, Clock)   ClockSweepProofs (ClockSweep)
PageFileProofs (PageFile, SlottedPage)
BufMgrProofs (BufMgr) ─┬─ ExecutorProofs (HeapFile, NestedLoopJoin)
                       └─ PoolTableProofs (PoolTable)
SearchBoxProofs (SearchBox)   SearchResultsProofs (SearchResults)
```

**FileOps** states the operations of `class File` as operators from a file image
(header and pages) to the next one: `Allocated`, `Written`, `Deleted`, with the
conditions under which the code throws before its first write
(`AllocateFails`, `DeleteFails`, `WriteThrows`). A page is its number, its link
and its content, which is one value. The walks of the code along the used list
are `WalkEnd`: the first page that ends the loop, the end of the list, a page
whose dereference throws, or `Endless` when the links run in a circle (the code
then does not return). `MaxPages` bounds the file; nothing else differs for
larger files.

**PageFile** is one file with clients that hold copies of pages (`held`), as
direct users of `File` do: read, edit the copy, write it back, while others
allocate and delete. `KeepOne` is a discipline that leaves out the one situation
in which `allocatePage` breaks the list (violation 1 below).

**Clock** is the choice of `allocBuf` in closed form: the victim is the first
frame after the hand that is not (valid and pinned), and the reference bits up to
it are cleared. **ClockSweep** is the loop itself, one iteration per step, in any
state of the pool, for `buffer.cpp` and (with `submitted`) for the version first
handed in. That the loop computes the closed form is checked there and proved in
ClockSweepProofs; BufMgr relies on it to make `allocBuf` part of one step.

**BufMgr** has the code's variables under the code's names (`clockHand`,
`bufDescTable`, `bufPool`, `bufStats`; `hash` is the content of `BufHashTbl`),
the `disk` of FileOps images, and for each client a `session`: the page it has
pinned, the frame its pointer goes into, and whether it has written through it.
One action is one call, with everything it does before it returns or throws:

| Code | Actions |
|---|---|
| `readPage` | `ReadHit`, `ReadMiss`; `ReadInvalid` (evicts, then `InvalidPageException`), `ReadNoFrame` (allocBuf throws) |
| `allocPage` | `AllocPage`; `AllocPagePresent` (`HashAlreadyPresentException`), `AllocPageNoFrame`: both leave the new page in the file |
| writing through the returned pointer | `WritePinned` |
| `unPinPage` | `UnPin`, `UnPinLost` (page not in the pool, or not pinned) |
| `flushFile` | `FlushFile`: frames in order, up to the first that throws |
| `disposePage` | `DisposeBuffered`, `DisposeUnbuffered` |
| destructor, constructor | `Restart` |

A call that throws before it changes anything is not a step. A frame is keyed by
the `File` object (`Handles`), as in the code, not by the file (`FileOf`).
`Disciplined` says that clients dispose of no page that somebody has pinned and
end the program with none pinned; without it, `disposePage` takes pages from
under their readers, as the code does.

**PoolTable** puts `BufHashTbl` under these calls: `ht` is the array of chains, a chain is a
sequence of buckets, and each action is an action of BufMgr together with the calls of
`insert` and `remove` that the code makes in it, in the code's order (`TableAfterAlloc`,
`TableAfterFlush`). `Inserted`, `Removed` and `Lookup` walk a chain as the code does; one that throws
leaves the table as it is. `Index` is `hash()`: the address of the File object, cut to an int, and the
page number are added as unsigned numbers, so the sum wraps at `Words` (2^32 in the code) before
the chain is taken. `HTSIZE` is the number of chains, which the code derives from the number of frames.
The map `hash` of BufMgr is a record of what was put in and taken out; `ChainMap` is what the chains answer, and
`Chained` is the buffer manager that goes by their answers.

**HeapFile** puts `insertTuple` and `deleteTuple` on top of BufMgr. A call is a
sequence of steps (`pc`), each of which is one action of BufMgr made on the call's
behalf, so that every way in which that action throws is a way in which the call
ends: `BeginInsert`, `BeginInsertInNewPage` and `BeginDelete` look at the pages of
the *file*; `Pin` or `PinFails`; `InsertRecord`, `InsertRecordFails`,
`DeleteRecord` or `NotHere` on the page in the *pool*; `UnpinEdited`; `Flush`,
which ends with `pc = "returned"` or `"threw"`. Between two calls, other clients pin
and unpin pages of the heap file and of other files, and the program may end and
start again. `before` and `quiet` are history variables for the properties. A page
holds the tuple of each slot (`Contents`); how slots are kept is SlottedPage's part. Tuples have any lengths: `Fits` says
for which contents of a page `hasSpaceForRecord` accepts which tuple, and a tuple may be longer than any page
(`FitsAPage` is false of its insertion). Then `insertRecord` throws on the new page too, at every try. A page
that opens a slot over stale bytes, on which `insertRecord` throws `SlotInUseException` (violation 2 below), is left out.

**PageStore** is what both layers promise: named pages, handed out empty, with
the last content written, until given back. **RecordStore** is the same for
records, in a page or in a heap file: found unchanged under their slot or id.

**SlottedPage** is `class Page` with its memory: slots and records lie in the same
cells, a slot is three cells (`used`, `item_offset`, `item_length`), and a new slot
is whatever its cells held. A cell stands for a field or a byte, which keeps the
page small; what matters is kept: records longer and shorter than a slot, and any
nonzero cell reading as `used`. `deleteRecord` is the code's steps on the cells, in its
order: `Erased`, `Shifted` (the offsets), `Closed` (one copy of `MoveBytes` cells from
`MoveOffset` on), `Removed` (the slot). `CleanSlots` leaves out insertions that open a
slot over stale record bytes (section 3, observations); `RecordsNow` is what `getRecord` finds.

**NestedLoopJoin** is `NestedLoopJoinOperator::execute`, over HeapFile and so over
BufMgr: every `readPage` and `unPinPage` is a step of the pool, and `insertTuple` is
the sequence of steps that HeapFile gives it. The pointers `frames[0]`, `frames[1]`, …,
`rframe` and the page of `insertTuple` are clients of the pool that have pages pinned;
tuples are read through them, from whatever the frame then holds. The three
inner loops go through `Positions` in the order `Earlier`; `PairsLeft` are those they still have
to come to. A tuple is a value; which ones agree in the common attributes
is the constant `Joined`, which stands for `splitTuple`, the comparison and the
concatenation. `sTuple[-1]`, read for an attribute that one table does not have
(lines 394 and 395), is a choice: `ReadsBeforeTuple` ends the process, or what was read is
not used.

| Code | Actions |
|---|---|
| 346–352 | `CompareSizes` |
| 361–372, the block of S | `LoadPage`, `StartScan`, `ReadThrows` |
| 373–378 | `ScanPage`, `EndScan`, `ReadThrows` |
| 379–427 | `InsertPair`, `Inserting` (steps of `insertTuple`), `ReadsBeforeTuple` |
| 428–430 | `EndPage` |
| 431–435 | `ReleasePage`, `EndBlock` |

**SearchBox** is class `SearchBox` with the elements it drives: one record `box`, with the
code's fields, the text of the field, and which windows are displayed. Each method is an
operator from a box to the next one; each event that `docs/index.html` wires is an
action that composes them in the code's order, with the nested calls of
`focus()` and `blur()` (`Blurred`, `Activate`). The browser's part is external:
timers, of which `TimerIds` exist at one time, and the frame, whose document follows
`location` later. A text is a value with two functions, `Squeezed` (no space at
all, what `OnSearchFieldChange` compares) and `Trimmed` (no leading space, what
`Search` searches for and remembers). `unseen` says that the field has changed since
a key was last released in it. `Careful` is a discipline of the user: not to leave the field,
choose a filter or close the results while a search is due, and not to go below
the last filter; section 3 tells, among the observations, what happens without it.

| Code | Actions |
|---|---|
| `OnSearchFieldFocus` | `EnterField`, `LeaveField`, and inside every action that moves the focus |
| `OnSearchFieldChange` | `FieldKey`, `FieldDown`, `FieldShiftDown`, `FieldEscape` |
| `OnSearchSelectShow`, `…Hide` | `PointerOver`, `PointerOut` |
| `OnSelectItem`, `OnSearchSelectKey` | `ClickItem`, `MenuArrow`, `MenuEnter` |
| `CloseResultsWindow` | `ClickClose`, `ResultsEscape` |
| `Search`, `CloseSelectionWindow` by timer | `TimerFires` |

**SearchIndex** is data: `indexSectionsWithContent` and the pages of the section "all",
each a sequence of names and numbers of links.

**SearchResults** is the page in the frame. `Matching` is `Search`; `FindChildElement`
starts from the *first* row with the id of the given one, as `getElementById` does.
`Ask` is what the search box does to the page: it shows the window and sends the frame to another page, by
a timer or a filter choice, wherever the keyboard is (Down in the field goes to an entry and sets the timer).
`Load` is that page arriving, at any time, with a new object, the window as it is by then; it takes an entry from under the keyboard,
which is then `Away`. `EnterField` is a click into the field.
`NavNext`, `NavPrev`, `AboveItem`, … are the code's searches by number. Keys come as the three
events that `setKeyActions` wires to one handler: `Press`, `Release` and two ways to repeat,
as browsers differ in them; `ProcessKeys` is `KeyDownEvent`, `KeyPressEvent` and
`KeyUpEvent`. `focus()` on an element that is not displayed does nothing (`Focused`).
A key can go down in the field and come up in the results, and the other way round.
`MaxHeld` bounds the keys held at one time.

## 3. Runs

Passing runs explore every state of their instance.

| Run | Instance | Shows |
|---|---|---|
| `file_lists` | 4 pages, 2 clients, 2 contents | `UsedListExact`, `FreeListExact`: both lists are exact, whatever stale copies are written back; `StoreImplemented`: the file is a PageStore |
| `clock_sweep` | 4 frames, every hand, pinned set and reference bits, both versions | `SweepIsClosedForm`; `SecondChanceHonoured` for the version first handed in; `ComesCloser` (each iteration leaves fewer reference bits and pinned frames to meet) and `Terminates` for both |
| `buffer_pool` | 2 frames, 3 pages, 2 contents, 2 clients | `PinsCounted`, `PinnedPageStays`, `CleanMatchesDisk`, and `StoreImplemented`: evictions, failures, flushes and restarts are invisible |
| `buffer_handles` | 2 frames, 2 pages, 2 `File` objects on one file, 2 undisciplined clients | `PoolConsistent`: descriptors and hash table agree through every exception, including those met only when pages are disposed of behind a handle |
| `buffer_table` | the same with 1 client; 3 chains, 16 words, and addresses that put three of the four pages into one chain, one of them by wrapping | `MapImplemented`: the buffer manager that goes by the answers of the chains is BufMgr; `OneBucketPerFrame` |
| `heap_calls` | 2 frames, 2 files of 2 pages, 2 other clients; tuples of which two, one or none fit in a page | `CallsDoTheirWork`: a call that returns has added, or removed, exactly its record; `ReturnedIsWritten`: it is in the file; `CallsAreClean`: a call that nobody disturbs, and that inserts no tuple longer than a page, leaves no pin, and no change when it throws; `HeapImplemented` (RecordStore); `GrowsOnlyWhenFull`: a page that a failed call has allocated is used before the file grows again |
| `page_records` | 16 cells, records of 1, 2 and 5 cells; no slot opened over stale bytes | `SpaceExact`, and `PageImplemented` (RecordStore) |
| `join` | 4 frames; two tables of 0 to 3, or 5, pages of 2 slots, budgets of 2 to 6 pages | `JoinIsExact`: the result is the join as a bag, at no moment more; `IOsAsComputed`: `numIOs` is min + max·⌈min/(M-1)⌉; `FramesSuffice`: no pin is left, and it throws only if the pool lacks a frame for `insertTuple` or a result tuple is longer than a page; `JoinComesCloser`: each step leaves less to do, in the order in which the loops are nested; `JoinEnds` |
| `search_box` | the 7 sections, 6 texts, 3 timers, a careful user | `SettledIsAnswered`: when no search is due, the panel shows what the field asks for; `PanelConsistent`; `NoHideWhileOver`; `RestIsAnswered`: in the end the frame shows the answer |
| `search_results` | 7 searches of real pages, asked for and loaded at any time; 7 keys, one held at a time | `ArrowsFollowDisplay`, `FocusIsDisplayed`, `HeldKeyRepeats`, `OpensOwnRow`, `MatchesFollowOneAnother` |

Two runs expect a violation: `file_emptied` and `page_stale`, which is `page_records` with the
insertions that open a slot over stale bytes.

Why the bounds are enough. Four pages have a first, a last and two inner pages
on either list, so every branch of `allocatePage` and `deletePage` occurs with a
head, a predecessor and a successor. Two frames and three pages make every read
a possible eviction, of a clean, a dirty or a pinned frame, with another frame
that is pinned, free or shared; two clients on one page give the shared pin
and the disagreement on `dirty`. In the heap file, two other
clients can pin both frames with pages of the other file, so that a call finds no frame although nobody
has the heap file's pages pinned, or one page of the heap file, so that its flush throws. The other file's two pages
can be there before the heap file has any: the call that allocates the heap file's *first* page can then fail, and a second page is left with which a
retry could make the file grow. The small tuple leaves room for another, the wide one fits only an empty
page, the huge one none: pages are full, half full or empty for one tuple and not for another, and the huge tuple is the
insertion that allocates, pins and throws while nobody disturbs it. One tuple value of each length is enough: no step compares or
moves tuples, and `CallsDoTheirWork` asks for the record id. Five slots in sixteen cells allow holes in the
slot array, trailing runs of unused slots, and the boundary where a record fits
only if no slot is charged; the five-cell record is longer than a slot. Four
frames give the clock every mixture of pinned, referenced and free frames at every
distance from the hand. Two buckets are all that two frames allow at one time; in one chain,
either can be removed from in front of or behind the other, and a third page that belongs there can be
looked up without being in it. `StatCap` is 0 where the counters do not matter.

In the join, up to five pages against budgets of two to six give no block, one block, several blocks and a
last block that is not full; pages have an empty slot or none; the two tables
are larger, smaller and equal in turn; a tuple joins no, one or several others, across
blocks; the result always fits in its file. Four frames are enough for blocks of one or two
pages; a block of three leaves none for `insertTuple`, one of four none for the scan, and one
of five cannot be read: both sides of `FramesSuffice` occur; one pair of tuples joins to a result that is longer than a page. In the panel, the
texts are nothing, a blank, and three that differ only in spaces or in a letter, in an
index where some sections have them and some do not: what the handlers compare
can be equal with or without spaces. Three timers are one more than the two ids
the page remembers, so a timer that nobody can clear any more would be
there; with `Careful = FALSE` there is one. The seven searches are of real pages: rows with and without
children next to each other, two rows of one name, a search that shows the middle of a
page, no match, and a text with a trailing space, an underscore or a tilde.

`buffer_pool` uses symmetry over clients (nothing names one) and the view
`ReadablePool`: it hides the bytes left in a free frame and the link in a buffered
copy of a page. With disciplined clients no action reads the first, and
`Written` and `WrittenBack` replace the second by the link on disk, so two states
with one view have the same successors, in the view, and the properties do not
mention what it hides. `heap_calls` uses the same view (its clients dispose of
nothing) without the reference bits, which `allocBuf` clears before it reads them and
which therefore decide nothing, and without the arguments of a call that has
ended, except where a property still looks at them (`Clean`). The other runs use no view.

`CHECK_DEADLOCK FALSE` appears in the runs of ClockSweep and NestedLoopJoin, where a
finished call is the end of the behaviour.

**Fairness.** ClockSweep: `WF_vars(Next)`; the calling thread runs the loop of
`allocBuf`, nothing can interrupt it, and one of its three branches can always be
taken. NestedLoopJoin: `WF_joinVars(JoinStep)`, for the same reason; `ReadsBeforeTuple`
need never happen. SearchBox: a timer that nobody clears runs, and a frame that was sent to a page
loads it, as browsers do; nothing is assumed of the user, and `RestIsAnswered`
speaks of the behaviours in which the user comes to rest. The other modules are
interactive: clients need not call.

### Violations: where the code disagrees with what the repository says of it

1. `file_emptied`. Delete the last used page of a file that has another free
   page; `first_used_page` is then 0. `allocatePage` reuses a free page but,
   because 98 asks for `first_used_page > page_number`, keeps its *free-list* link
   as the link to the next *used* page. With two free pages the used list now
   runs into the free list: iteration throws, allocation fails. With more steps
   the two pages link to each other and the walk of `allocatePage` never ends.
2. `page_stale`. Insert two records of five cells, shrink the first to one cell with `updateRecord`,
   and insert a record of one cell. The update moves the second record to the end of the page and leaves its old bytes behind;
   the third insertion opens a slot over them. The slot reads as used: `insertRecord` throws
   `SlotInUseException` on a page that has room, after `getAvailableSlot` has counted the slot as
   free. `num_free_slots` (`page.h:46`: "Number of slots allocated but not in use.") is then 1 although no slot
   is unused; the next insertion looks for a free slot that is not there, and ends in the assertion of `page.cpp:163`.

### Observations that no run shows

These came up in the modelling; where an instance with another constant shows one, it is named.

* `lab2/submit`: pinned frames are counted over several turns of the clock, because
  referenced frames are skipped without being counted; it throws although an
  unpinned frame is there. ClockSweep has this version (`submitted`), and
  `SecondChanceHonoured` is about it.
* `allocBuf` and the destructor write dirty pages without counting them in `diskwrites`,
  which `buffer.h:128` calls "Number of pages written back to disk"; `allocPage` is not
  counted in `diskreads`. The counts of victims are not modelled.
* While a client has a page of the heap file pinned, `insertTuple` fills *that* page, and its flush throws:
  the page is full in the pool but not in the file. The next `insertTuple` chooses it by its
  copy in the file, `insertRecord` throws, and nobody unpins the page any more: no flush of the file
  succeeds after that. `heap_calls` has these steps; `CallsAreClean` speaks of calls that nobody disturbs.
* A tuple longer than a page (`storage.cpp:38-40`) finds no page with room, so that `insertTuple` allocates one, pins it, and `insertRecord` throws
  with the pin kept: each try grows the file by a page and takes a frame for good. `heap_calls` and `join` have
  these steps; `FitsAPage` keeps them out of `CallsAreClean`.
* A record of length zero can come to lie below all others; a later deletion then starts its copy
  there but copies only as many bytes as the other records have, so one of them ends up
  under the wrong bytes. With `<<>>` among the `Records` of `page_records`, `PageImplemented` is
  violated. Nothing in the repository inserts an empty record.
* `getElementById` finds the first of two rows with one name (`search.js:445`). The page "f" of the index has two rows "file"; the
  second, with two links, cannot be opened by any key or click. `OpensOwnRow` says that a click opens the
  first row of a name, and of the others only that no row of another name moves.
* With two keys held (`MaxHeld = 2` in `search_results`), releasing one clears the
  `lastKey` of the other, and a key can act as the other one.
* Type in the search field, and leave it within 500 ms: `Activate(false)` puts the label "Search" back and
  marks the panel inactive, but the timer of the search runs on (`search.js:421`). `Search` takes the label for the text, opens the results
  window in the inactive panel, and remembers the label as the last search, although the comment at
  `search.js:403` says that Activate resets things to their default values. `Careful = FALSE` in `search_box` violates `PanelConsistent`.
* Down at the last filter selects one that does not exist (`search.js:299` compares with the count, not
  with the last index); the next search throws.
* `splitTuple` cuts a VARCHAR without its length byte (line 323 adds `len`, not `len+1`), so
  the attributes after it are read from the wrong place. Joined abstracts from it.
* A join with a budget of one page never ends: its blocks are empty.

## 4. Proofs

All theorems are for every value of the constants. `Disciplined` (no client disposes of a
page that somebody has pinned), `KeepOne` (no client empties a file that has free pages),
`Careful` (the user waits for a search that is due), `OneHandle` (each file is read through one
`File` object), `CleanSlots` (no insertion opens a slot over stale bytes) and `<<>> \notin Records`
(no record is empty) are hypotheses of the theorems that need them, and only of those. Section 3
tells what happens without them. `Disciplined` and `OneHandle` are how the programs of the repository use the pool; nothing
in `page.cpp` or its callers ensures `CleanSlots` (violation 2), so the theorems about the page say what holds
of a page up to its first insertion that opens a slot over stale bytes.

| Module | Theorems | Property of a run |
|---|---|---|
| ClockSweepProofs | `SweepIsTyped`, `SweepCorrect`, `ReferencedIsSpared`, `LoopComesCloser` | `SweepIsClosedForm`, `SecondChanceHonoured`, `ComesCloser` |
| PageFileProofs | `FileIsTyped`, `FreeListIsExact`; with `KeepOne`: `UsedListIsExact`, `FileImplementsStore` | `TypeOK`, `FreeListExact`, `UsedListExact`, `StoreImplemented` |
| PageFileProofs, the page | with `CleanSlots`, `<<>> \notin Records`: `PageIsTyped`, `SpaceIsExact`, `PageImplementsStore` | `SpaceExact`, `PageImplemented` |
| BufMgrProofs | `PoolIsTyped`, `PoolIsConsistent`; with `Disciplined`: `PinsAreCounted`, `PinsKeepPages`; with `OneHandle` too: `CleanFramesMatch`, `PoolImplementsStore` | `TypeOK`, `PoolConsistent`, `PinsCounted`, `PinnedPageStays`, `CleanMatchesDisk`, `StoreImplemented` |
| PoolTableProofs | `TableAnswersAsMap`, `TableIsExact`, `ChainsImplementMap` (the pool that goes by the chains implements BufMgr); with `Disciplined`, `OneHandle`: `TablePoolImplementsStore` (and PageStore) | `OneBucketPerFrame`, `MapImplemented` |
| ExecutorProofs, the heap file | `HeapIsTyped`, `HeapKeepsPool`; with `OneHandle`: `TuplesAreKept`, `ReturnedCallsAreWritten`, `QuietCallsAreClean`, `ReturnedCallsDidTheirWork`, `FileGrowsWhenFull` | `PoolConsistent`, `HeapImplemented`, `ReturnedIsWritten`, `CallsAreClean`, `CallsDoTheirWork`, `GrowsOnlyWhenFull` |
| ExecutorProofs, the join | with `OneHandle`: `JoinIsTyped`, `ResultIsJoin`, `ReadsAreComputed`, `FramesAreEnough`, `JoinStepsComeCloser` | `JoinTypeOK`, `JoinIsExact`, `IOsAsComputed`, `FramesSuffice`, `JoinComesCloser` |
| SearchBoxProofs | with `Careful`: `PanelIsTyped`, `PanelIsSafe`, `WindowStaysOpen`, `PanelAnswers` | `TypeOK`, `PanelConsistent`, `NoHideWhileOver`, `SettledIsAnswered` |
| SearchResultsProofs | `ResultsAreTyped`, `KeyboardIsDisplayed`, `OwnRowOpens`; `ArrowsAreRight`; `MatchesAreARange`; `RepeatsAreTheKey` | `FocusIsDisplayed`, `OpensOwnRow`, `ArrowsFollowDisplay`, `MatchesFollowOneAnother`, `HeldKeyRepeats` |

The type invariants of ClockSweep, SlottedPage, HeapFile and SearchResults are proved (`SweepIsTyped`,
`PageIsTyped`, `HeapIsTyped`, `ResultsAreTyped`) and no run repeats them; `JoinTypeOK` contains that of HeapFile.

StorageLemmas has what they share: the arithmetic of the clock hand and that `Victim` exists, and
what each operation of FileOps does to a file.

**The loop of allocBuf.** `SweepInv` counts the turns: in `buffer.cpp` the reference bit
is cleared before it is read, so no frame is ever skipped uncounted, and `fucked` is
both the number of advances and the number of pinned frames met, which are
exactly the frames swept. When it reaches `NumBufs`, all frames are pinned and the
hand is back. For the version first handed in, `SecondChance` says that every frame
passed in the first turn was referenced or pinned. `LoopComesCloser` is the safety half of
`Terminates`: `Left`, the number of reference bits set and of pinned frames not yet counted, is a natural
number that every iteration makes smaller, so a call advances the hand at most `2 * NumBufs + 1` times.

**Lists of a file.** `UsedListExact` and `FreeListExact` are about lists followed link by link, and
are not inductive in that form: a link changed in the middle changes everything after it. The
used list is ordered, so it has a local characterization: `Linked` says that the header and every
page in use link to the next page in use, by number. Allocation puts one number between two
neighbours (`FollowsInsert`), deletion takes one out (`FollowsRemove`), and `LinkedIsExact` turns
it back into the walk. The free list has no order; `FreeExact` keeps it as a walk, and `FreeChainKept`
says that no operation changes a link of a free page other than at its head. That a walk exists
and what it does are proved by induction over its length, which the set theorems `Induction` and
`InductionUpTo` of StorageLemmas give: the set of lengths for which a statement holds contains 0 and
is closed under successor. `OneFreeWhenEmpty` is what `KeepOne` keeps: without it `allocatePage`
puts a free page's link into the used list (violation 1).

**The page.** `SpaceExact` and the store are about what the cells mean, and every call rewrites many cells
at once; what is inductive is `Layout`: the slots lie below `upper`, each record in use lies
above it with at least one cell, no two overlap, and every cell from `upper` on belongs to one. It
speaks of any memory and any set of slots, so it holds again half-way through `updateRecord`
(`RemovedLayout`, then `StoredLayout`). The heart of a deletion is that *one* copy of `MoveBytes` cells
moves exactly the records below the hole: the records that move fill the cells from `MoveOffset`
up to the hole (`MoversFill`), and therefore `MoveBytes`, which the code adds up slot by slot, is that
distance. `MoveAll` proves it by induction over the slots, as a set of numbers: after slot i the sum is the
number of cells of the moving records up to i. That the copy starts at `upper` (`MoveFrom`) is false with an empty record below
the others: this is where `<<>> \notin Records` is used. `PageInv` adds the counts and that the last
slot is in use; `SlotsGoWithLast` says what the walk of `deleteRecord` over the trailing slots leaves.
`PageImplementsStore` follows from what the three calls do to `RecordIn` (`InsertParts`, `DeleteParts`, `UpdateParts`).

**The pool.** `IInv` adds to `PoolConsistent` that pages on disk carry their own numbers: without it a page
read into a frame need not be the page the frame is named after. `SweptPool`,
`ClearedPool`, `InstalledPool`, `RepinnedPool` and `FlushedPool` say what the building blocks of the
calls do to a pool; each action is a combination of them. `PinInv` adds that a pin is counted and its page kept. The two need each other: a
client's unpin finds its frame by name only because the frame has not been taken, and it has not
been taken because its pin is counted.

**The pool as a cache.** `CacheInv` adds that the files have exact lists, that every page in a frame
is in use on disk, and that a clean frame which nobody has written has the disk's content. `Now` is
what a client finds: the frame's content if there is a frame, else the disk's. Every action is shown
to be `Unnoticed` (it changes no `Now`), or to change one page (`Becomes`), which are the steps of
PageStore. `OneHandle` is needed: with two `File` objects a page can be in two frames, and the
one that is written last wins; `buffer_handles` and `buffer_table` check only that pool and hash table stay consistent then.

**The hash table.** That the chains follow the map is an invariant with four parts (`IsTable`): every bucket is in the chain of its page, it
agrees with `hash`, no chain has two buckets of one page, and every page that the map has has a bucket. The first
and the third make `remove` right: it unlinks the first bucket it finds, and no other remains (`UnlinkedFacts`, `RemovedTable`). The
invariant of BufMgr makes `insert` right: the frame that allocBuf returns is named by no entry after
its page was removed. `flushFile` removes frame by frame, which is induction over the frames (`Induction`,
`InductionUpTo`); the map loses the entries of the same frames in one step. None of it asks anything of `HTSIZE`, `Words` or the addresses, beyond
that they are numbers in range. `ChainsImplementMap` then takes `hash` away: with `ChainMap` for it, the first state and every step are
those of BufMgr, call by call (`ChainedReadHit`, …, `ChainedNext`), since what does not look a page up is the same
in both (`SameWalks`, …) and what does is answered alike before and after the step. `TablePoolImplementsStore` says of
what clients find through the chains (`Chained!Found`) what `PoolImplementsStore` says of `Found`.

**Tuples.** Every step of HeapFile is a step of BufMgr, or adds a page to the file behind the pool,
so the invariants of the pool carry over. `TupleInv` adds the state of a call, in parts: `PinOfCall`
(it has its page pinned exactly while it edits it), `OneWriter` (nobody else has written), `NoneDirty`
(after a return no frame of the file is dirty, so the search through the file sees what the pool has),
`Arguments`, `Progress` (until it edits, nothing is changed; a deletion has not gone past the page of its
record; then its work is done) and `Quietness` (a quiet call has the only pin in the file, and
the page it chose in the file has room in the pool, unless its tuple is longer than a page). The proof of `QuietCallsAreClean` corrected the
model: `quiet` used to be TRUE at first, with an arbitrary caller in `call`, and the theorem was false in initial
states that TLC's view identified with others; it now starts FALSE.

**The join.** Every step of `execute` is a step of HeapFile or of the pool, so `TupleInv` carries
over, and with it that a call of `insertTuple` adds its tuple once. `JoinInv` adds, while the loops run, that
there have been b blocks for some b, and five parts. `PinPart`: the pins in the pool are those of the block, in the order of their
pages, of the scan and of the call, each on the page that the loops say; without it, what is
read through `frames[]` need not be the page that was read. `CallPart`: a call runs exactly while `execute` waits
for it, and is quiet, so that `Quietness` excludes every exception but a pool without a free frame and a tuple longer than a page.
`LoopPart`: where the iterators are, and that a block which is not full is the last one. `CopyPart`: the pairs compared so
far (`Compared`, from the positions of the loops alone) are in number the result tuples so far, and the one
that the call still has to insert, for each tuple; this relates three nested loops to
a bag. `ReadPart(b)`: `numIOs` is the pages of S read so far, b times the pages of R, and those of the scan.
A return has compared every pair and has read b blocks with b the quotient rounded up, which gives
`JoinIsExact` and `IOsAsComputed`. After a throw or a crash the loops say nothing any more; `Outcome`
keeps what had been true then: no result tuple too many and, after a throw, too few frames or a result tuple longer than a page.
`JoinStepsComeCloser` is the safety half of `JoinEnds`: `Rest` lists what the whole, the loop over S, the block, the loop over R,
the page, the three inner loops and `insertTuple` have left, and every step makes the first of the numbers that it changes smaller. The tables do not
change while they are read (`TablesStay`), so the pages left of a walk become fewer with each one; a budget of two pages or more is used where
a block must not be empty. `FramesSuffice` counts
pins: a pool in which every frame is pinned has as many frames as `PinPart` allows pins.

**The search panel.** Two facts make its invariant inductive. `SearchTimers`: a timer that will search is the
one in `keyTimeout`, so that clearing that one clears all, and there is one only in an active panel, so
that `Search` opens the window where it may; this is where the careful user comes in.
`HideTimers`: a timer that will close the filter window is the one in `hideTimeout`. The
invariant is proved method by method (`OpenGood`, `CloseGood`, `SearchGood`, …), since the
actions are compositions of methods. `PanelAnswers` needs the texts as well: that squeezing is
idempotent and is not changed by trimming (`SpacesAssumption`), and that no page of the index is for a blank
(`HasContentAssumption`).

**The results page.** Moving the keyboard is safe because `focus()` does nothing on a hidden entry; what
remains is that nothing hides the entry under it: a fold acts only from a symbol, a click
takes the keyboard with it, what closes the window leaves it in the field, and a page that is loaded takes its entry
away (`NavMoves`, `MovesDisplayed`, `LoadInv`). `ArrowsAreRight` assumes of the index that the rows matching a
text adjoin (`MatchesAdjoin`) and that of the rows with one name at most one has children
(`OneParentPerName`): the first because Up looks for a child of the row with the next lower number, the second
because the first row of a name stands for all. TLC evaluates both for the whole section "all", as an
assumption of MCSearchResults: the first as `NamesAdjoin`, that the names with the same beginning follow one another, from which
`MatchesAreARange` and `OrderedNamesAdjoin` derive it for every text. That a name and a text have a length (`TextsHaveLength`) is their
hypothesis because the prover does not know it of strings. `KeyInv` relates `held`, `fresh` and `keys` while the keyboard is at
an entry: `lastKey` is then the key held, and a keypress that may act is not the first one. The field
gives the keyboard to an entry only when its key is released, so a stale `lastKey` never
meets a key that is held.

**Assumptions on constants.** At least one frame, at least one page, `EmptyData` is a
content, the null `File` pointer is no `File`, finitely many clients; in HeapFile, that a
page's content is a tuple or none in each slot, and that a page with room for a tuple has a slot for it (`FitsAssumption`; nothing is
assumed of which tuples fit together, or that any does); in SlottedPage, that a page has room for a slot and that records have no
zero cell; in NestedLoopJoin, that there is a pin for each page of a block, the scan and the call (`PinsAssumption`, `BudgetsAssumption`), that
the result goes to a file of its own (`TablesAssumption`) and that the two tables fit in their files (`ContentsFitAssumption`; a result tuple need not fit in a page); in SearchBox, that the user does not type the label,
that there is a filter, and the two above about texts; in SearchResults, that a page has rows and each row at least one link.

**Only model-checked.** That `UsedListExact`, `SlotsCounted` and `PanelConsistent` do not hold without their disciplines (the first
two by the violation runs); and the liveness properties `Terminates`, `JoinEnds` and
`RestIsAnswered`, which are outside the prover's reach, as is ENABLED. For the first two, what decreases is proved
(`LoopComesCloser`, `JoinStepsComeCloser`); that a step can always be taken, and that it is, stays with TLC. That the order of
`Rest` has no infinite descent is not stated: it is the order of sequences of seven natural numbers. No invariant is only
model-checked.

## 5. Not modelled, and the plan

Not yet modelled, in the order in which they come next:

1. **Open files and crashes.** `open_streams_` and `open_counts_` (create on an
   open file rewrites its header; `remove`; assignment), and a crash between the
   flushed writes of one `File` operation: a module that applies their prefixes.
2. **TupleLayout.** Encoding in `createTupleFromSQLStatement` against decoding in
   `splitTuple` and `TableScanner::print`, over bounded widths.
3. **Catalog.** The three maps under add, rename and delete.
4. **File objects that end** while frames still name them, as the local ones of the join do.

Theorems planned: those of the modules above, first that a file whose operations can be cut short keeps its free list.

Left out for good: printing and SQL parsing (no state), the exception classes (which
one is thrown, and when, is in the actions), `printSelf`, byte order and the widths of
fields that no reachable value comes near, lab 1 and lab 3 (documents and SQL), positions and
sizes of the windows of the search panel, following a link, and `jquery.js` (third-party, not used by
`search.js`). The pages of the index for sections other than "all" hold some of the same symbols
in the same form.
