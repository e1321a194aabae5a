---------------------------- MODULE NestedLoopJoin ----------------------------
(***************************************************************************)
(* NestedLoopJoinOperator::execute (executor.cpp) over the buffer manager  *)
(* and the heap file manager.  The smaller of two tables is read in blocks *)
(* of budget-1 pages, which stay pinned while the other table is scanned   *)
(* page by page; every joined pair goes to the result file by insertTuple. *)
(* Every call of BufMgr is a step.  The pages of a block, the page of the  *)
(* scan and the page that insertTuple works on are pins of the same pool.  *)
(***************************************************************************)
EXTENDS HeapFile, SequencesExt

CONSTANTS
    LeftTable, RightTable,      \* the File objects of the two tables
    LeftContents,               \* what the tables may hold: sequences of pages
    RightContents,
    Joined,         \* the result tuple of a left and a right tuple, or NoTuple
    Budgets,        \* values of numAvailableBufPages
    BlockPins,      \* the clients that are frames[0], frames[1], ...
    ScanPin,        \* rframe
    InsertPin       \* buffered_page of insertTuple

ASSUME JoinedAssumption == Joined \in [Tuples -> [Tuples -> Tuples \cup {NoTuple}]]
ASSUME BudgetsAssumption == Budgets \subseteq 1..(Len(BlockPins) + 1)
ASSUME PinsAssumption ==
    /\ BlockPins \in Seq(Clients) /\ IsInjective(BlockPins)
    /\ ScanPin \in Clients \ ToSet(BlockPins)
    /\ InsertPin \in Clients \ (ToSet(BlockPins) \cup {ScanPin})
    /\ Callers = {InsertPin}
\* The result goes to a file of its own.
ASSUME TablesAssumption ==
    /\ {LeftTable, RightTable} \subseteq Handles
    /\ TableFile \notin {FileOf[LeftTable], FileOf[RightTable]}
ASSUME ContentsFitAssumption ==
    \A pages \in LeftContents \cup RightContents :
        pages \in Seq(Contents) /\ Len(pages) <= MaxPages

VARIABLE join   \* the variables of execute

joinVars == <<allVars, join>>

Join == [pc        : {"size", "load", "scan", "match", "insert", "release",
                      "done", "threw", "crashed"},
         budget    : Budgets,
         swapped   : BOOLEAN,       \* the right table is the smaller one
         sPage     : PageRefs,      \* s_it
         rPage     : PageRefs,      \* r_it
         frameUsed : 0..Len(BlockPins),
         at        : Nat \X Nat \X Nat,    \* where the three inner loops are
         numIOs    : Nat,
         numResultTuples : Nat]

sfile == IF join.swapped THEN RightTable ELSE LeftTable
rfile == IF join.swapped THEN LeftTable ELSE RightTable

ImageOf(h) == disk[FileOf[h]]
FirstPage(h) == ImageOf(h).hdr.first_used_page

\* getTableSize
TableSize(h) == Cardinality({k \in 0..MaxPages : Chain(ImageOf(h))[k] # NoPage})

\* A table file with the given pages, allocated one after the other.
Filled(pages) ==
    [hdr  |-> [num_pages       |-> Len(pages) + 1,
               first_used_page |-> IF pages = <<>> THEN NoPage ELSE 1,
               num_free_pages  |-> 0,
               first_free_page |-> NoPage],
     page |-> [p \in PageIds |->
                  IF p > Len(pages) THEN FreshPage
                  ELSE [num  |-> p,
                        next |-> IF p = Len(pages) THEN NoPage ELSE p + 1,
                        data |-> pages[p]]]]

JoinInit ==
    /\ \E left \in LeftContents, right \in RightContents :
          disk = [n \in Files |-> IF n = FileOf[LeftTable] THEN Filled(left)
                                  ELSE IF n = FileOf[RightTable] THEN Filled(right)
                                  ELSE NewFile]
    /\ clockHand = NumBufs - 1
    /\ bufDescTable = [f \in Frames |-> Clear]
    /\ bufPool = [f \in Frames |-> FreshPage]
    /\ hash = [h \in Handles |-> [p \in PageIds |-> NoFrame]]
    /\ session = [c \in Clients |-> Idle]
    /\ bufStats = [accesses |-> 0, diskreads |-> 0, diskwrites |-> 0]
    /\ pc = "returned"
    /\ call = [op |-> "insert", caller |-> InsertPin, tuple |-> NoTuple,
               rid |-> NoRecordId, page |-> NoPage]
    /\ before = TuplesNow
    /\ quiet = TRUE
    /\ join \in [pc : {"size"}, budget : Budgets, swapped : {FALSE},
                 sPage : {NoPage}, rPage : {NoPage}, frameUsed : {0},
                 at : {<<0, 0, 0>>}, numIOs : {0}, numResultTuples : {0}]

-----------------------------------------------------------------------------
(* The smaller table is S *)

\* Mutant of Swaps: the left table is S, larger or not.
Swaps_Never == FALSE

Swaps == TableSize(LeftTable) > TableSize(RightTable)

CompareSizes ==
    /\ join.pc = "size"
    /\ join' = [join EXCEPT !.pc = "load", !.swapped = Swaps,
                    !.sPage = FirstPage(IF Swaps THEN RightTable ELSE LeftTable)]
    /\ UNCHANGED allVars

-----------------------------------------------------------------------------
(* A block of S is read and pinned *)

frameAmt == join.budget - 1

\* Mutant of BlockFull: one page more than there are frames for.
BlockFull_OneMore == join.frameUsed = join.budget \/ join.sPage = NoPage

BlockFull == join.frameUsed = frameAmt \/ join.sPage = NoPage

ReadPage(c, h, p) == ReadHit(c, h, p) \/ ReadMiss(c, h, p)

LoadPage ==
    /\ join.pc = "load" /\ ~BlockFull
    /\ ReadPage(BlockPins[join.frameUsed + 1], sfile, join.sPage)
    /\ join' = [join EXCEPT !.frameUsed = @ + 1, !.numIOs = @ + 1,
                            !.sPage = Successor(ImageOf(sfile), @)]
    /\ UNCHANGED heapVars

\* Mutant of ScanStart: r_it goes on from where the block before left it.
ScanStart_GoesOn ==
    IF join.numIOs = join.frameUsed THEN FirstPage(rfile) ELSE join.rPage

ScanStart == FirstPage(rfile)

\* The outer loop ends where S does; otherwise R is scanned from its start.
StartScan ==
    /\ join.pc = "load" /\ BlockFull
    /\ join' = IF join.frameUsed = 0 /\ join.sPage = NoPage
               THEN [join EXCEPT !.pc = "done"]
               ELSE [join EXCEPT !.pc = "scan", !.rPage = ScanStart]
    /\ UNCHANGED allVars

-----------------------------------------------------------------------------
(* R is scanned, one page in the pool at a time *)

ScanPage ==
    /\ join.pc = "scan" /\ join.rPage # NoPage
    /\ ReadPage(ScanPin, rfile, join.rPage)
    /\ join' = [join EXCEPT !.pc = "match", !.at = <<0, 0, 0>>, !.numIOs = @ + 1]
    /\ UNCHANGED heapVars

EndScan ==
    /\ join.pc = "scan" /\ join.rPage = NoPage
    /\ join' = [join EXCEPT !.pc = "release"]
    /\ UNCHANGED allVars

\* BufferExceededException leaves execute, with the pins it has.
ReadThrows ==
    /\ \/ join.pc = "load" /\ ~BlockFull /\ ReadNoFrame(sfile, join.sPage)
       \/ join.pc = "scan" /\ join.rPage # NoPage /\ ReadNoFrame(rfile, join.rPage)
    /\ join' = [join EXCEPT !.pc = "threw"]
    /\ UNCHANGED heapVars

-----------------------------------------------------------------------------
(* The tuples of the page of R against those of the block, through the pointers *)

PageOf(c) == bufPool[session[c].frame].data
RTuple(r) == PageOf(ScanPin)[r]
STuple(i, s) == PageOf(BlockPins[i])[s]

\* Slot of the page of R, frame of the block, slot of that frame; and the order
\* in which the three loops come to them.
Positions == Slots \X (1..join.frameUsed) \X Slots

Earlier(a, b) ==
    \/ a[1] < b[1]
    \/ a[1] = b[1] /\ a[2] < b[2]
    \/ a[1] = b[1] /\ a[2] = b[2] /\ a[3] < b[3]

BothThere(at) == RTuple(at[1]) # NoTuple /\ STuple(at[2], at[3]) # NoTuple

\* The tuple put together from two, or NoTuple if they differ in an attribute
\* that both have.
Result(at) ==
    IF join.swapped THEN Joined[RTuple(at[1])][STuple(at[2], at[3])]
    ELSE Joined[STuple(at[2], at[3])][RTuple(at[1])]

Pairs == {at \in Positions : BothThere(at) /\ Result(at) # NoTuple}
PairsLeft == {at \in Pairs : Earlier(join.at, at)}

InsertPair ==
    /\ join.pc = "match"
    /\ \E at \in PairsLeft :
          /\ \A b \in PairsLeft : ~Earlier(b, at)
          /\ \/ BeginInsert(InsertPin, Result(at))
             \/ BeginInsertInNewPage(InsertPin, Result(at))
          /\ join' = [join EXCEPT !.pc = "insert", !.at = at]

\* The steps of insertTuple, up to its return or an exception.
Inserting ==
    /\ join.pc = "insert"
    /\ \/ Pin \/ PinFails
       \/ InsertRecord \/ InsertRecordFails
       \/ UnpinEdited \/ Flush
    /\ join' = CASE pc' = "returned" -> [join EXCEPT !.pc = "match",
                                                     !.numResultTuples = @ + 1]
                 [] pc' = "threw" -> [join EXCEPT !.pc = "threw"]
                 [] OTHER -> join

\* For an attribute of the result that one of the tables does not have,
\* getAttrNum is -1 and a string in front of the tuple is copied: whatever is
\* there, the process may end.
ReadsBeforeTuple ==
    /\ join.pc = "match" /\ \E at \in Positions : BothThere(at)
    /\ join' = [join EXCEPT !.pc = "crashed"]
    /\ UNCHANGED allVars

EndPage ==
    /\ join.pc = "match" /\ PairsLeft = {}
    /\ UnPin(ScanPin, FALSE)
    /\ join' = [join EXCEPT !.pc = "scan", !.rPage = Successor(ImageOf(rfile), @)]
    /\ UNCHANGED heapVars

-----------------------------------------------------------------------------
(* The block is released *)

\* Mutant of Released: the last frame of the block is not unpinned.
Released_AllButOne == {i \in 1..join.frameUsed : i > 1 /\ Active(BlockPins[i])}

Released == {i \in 1..join.frameUsed : Active(BlockPins[i])}

ReleasePage ==
    /\ join.pc = "release" /\ Released # {}
    /\ UnPin(BlockPins[Min(Released)], FALSE)
    /\ UNCHANGED <<heapVars, join>>

\* Mutant of EndBlock: the frames of the block before are still counted.
EndBlock_KeepsCount ==
    /\ join.pc = "release" /\ Released = {}
    /\ join' = [join EXCEPT !.pc = "load"]
    /\ UNCHANGED allVars

EndBlock ==
    /\ join.pc = "release" /\ Released = {}
    /\ join' = [join EXCEPT !.pc = "load", !.frameUsed = 0]
    /\ UNCHANGED allVars

JoinStep ==
    \/ CompareSizes
    \/ LoadPage \/ StartScan
    \/ ScanPage \/ EndScan \/ ReadThrows
    \/ InsertPair \/ Inserting \/ EndPage
    \/ ReleasePage \/ EndBlock

Ended == join.pc \in {"done", "threw", "crashed"}

JoinNext == JoinStep \/ ReadsBeforeTuple

\* A program that runs goes on.
JoinSpec == JoinInit /\ [][JoinNext]_joinVars /\ WF_joinVars(JoinStep)

-----------------------------------------------------------------------------

JoinTypeOK == HeapTypeOK /\ join \in Join

\* What a client finds in a table under a record id.
TupleAt(h, id) ==
    LET content == Content(FileOf[h], id[1])
    IN  IF content = NoData THEN NoTuple ELSE content[id[2]]

\* The pairs of tuples that join to t, each a pair of record ids.
PairsFor(t) ==
    {pair \in RecordIds \X RecordIds :
        LET l == TupleAt(LeftTable, pair[1])
            r == TupleAt(RightTable, pair[2])
        IN  l # NoTuple /\ r # NoTuple /\ Joined[l][r] = t}

CopiesOf(t) == Cardinality({r \in RecordIds : TuplesNow[r] = t})

\* The result is the join as a bag: no pair is inserted twice, however the
\* blocks and scans divide the pairs, and when execute returns none is missing
\* and numResultTuples is their number.
JoinIsExact ==
    /\ \A t \in Tuples : CopiesOf(t) <= Cardinality(PairsFor(t))
    /\ join.pc = "done" =>
          /\ \A t \in Tuples : CopiesOf(t) = Cardinality(PairsFor(t))
          /\ join.numResultTuples = Cardinality(UNION {PairsFor(t) : t \in Tuples})

\* Blocks of at most frameAmt pages.
Blocks(n) == IF n = 0 THEN 0 ELSE (n + frameAmt - 1) \div frameAmt

\* "I/O: B(S) + B(R)B(S)/(M-1)" (executor.cpp:344), the number of blocks rounded
\* up and S the smaller table: what numIOs says at the end, exactly.
IOsAsComputed ==
    join.pc = "done" =>
        LET sizes == {TableSize(LeftTable), TableSize(RightTable)}
        IN  join.numIOs = Min(sizes) + Max(sizes) * Blocks(Min(sizes))

\* The join gives every pin back when it returns, and it throws only in
\* insertTuple of a tuple longer than a page, or in a pool that has no frame for
\* insertTuple beside its block and the page of its scan: a frame more than the
\* pages it was given.
FramesSuffice ==
    /\ join.pc = "done" => \A f \in Frames : bufDescTable[f].pinCnt = 0
    /\ join.pc = "threw" =>
          \/ NumBufs < Min({join.budget - 1, TableSize(sfile)}) + 2
          \/ pc = "threw" /\ ~FitsAPage

\* The pages that a walk over the file of h, come to x, has still to read.
PagesLeft(h, x) == {p \in InUse(ImageOf(h)) : x # NoPage /\ p >= x}

PositionsLeft == {at \in Positions : Earlier(join.at, at)}

\* What is left of the join: of execute as a whole, of the loop over S, of the
\* stages of a block, of the loop over R or of the release of the block, of the
\* read of a page of R, of the three inner loops, of insertTuple.
StageLeft == CASE Ended -> 0 [] join.pc = "size" -> 2 [] OTHER -> 1
SPagesLeft == Cardinality(PagesLeft(sfile, join.sPage))
BlockLeft == CASE join.pc \in {"scan", "match", "insert"} -> 3
               [] join.pc = "release" -> 2
               [] OTHER -> IF join.frameUsed > 0 THEN 4 ELSE 1
ScanLeft == IF join.pc = "release" THEN Cardinality(Released)
            ELSE Cardinality(PagesLeft(rfile, join.rPage))
ReadLeft == IF join.pc = "scan" THEN 1 ELSE 0
LoopsLeft == Cardinality(PositionsLeft)
InsertLeft == IF join.pc # "insert" THEN 0
              ELSE CASE pc = "pin" -> 4 [] pc = "edit" -> 3 [] pc = "unpin" -> 2 [] OTHER -> 1

\* The outer loop first.
Rest == <<StageLeft, SPagesLeft, BlockLeft, ScanLeft, ReadLeft, LoopsLeft, InsertLeft>>

\* The order of the numbers in Rest, the first that differs deciding.
Less(a, b) == \E i \in 1..7 : a[i] < b[i] /\ \A j \in 1..(i - 1) : a[j] = b[j]

\* With at least two pages to work in, every step leaves less of the join than it
\* found: no loop starts over what it has done, and none waits for another.
JoinComesCloser ==
    [][join.budget >= 2 => Rest' \in [1..7 -> Nat] /\ Less(Rest', Rest)]_joinVars

\* With at least two pages to work in, the join ends.
JoinEnds == (join.budget >= 2) ~> Ended
=============================================================================
