----------------------------- MODULE SlottedPage -----------------------------
(***************************************************************************)
(* Class Page (page.cpp): records of any length in one page of DataSize    *)
(* cells.  The slot array grows from the low end, the records from the     *)
(* high end, and both are the same memory: a slot that has just been       *)
(* allocated is whatever the cells held before.  A slot is three cells     *)
(* (used, item_offset, item_length); any nonzero cell reads as used.       *)
(***************************************************************************)
EXTENDS Naturals, Sequences, FiniteSets, FiniteSetsExt

CONSTANTS
    DataSize,       \* Page::DATA_SIZE, in cells
    Records,        \* the records clients store: sequences of nonzero cells
    NoRecord,       \* not a record
    CleanSlots      \* discipline: no insert that takes a slot over stale cells

SlotSize == 3       \* sizeof(PageSlot), in cells

ASSUME DataSizeAssumption == DataSize \in Nat /\ DataSize >= SlotSize
ASSUME RecordsAssumption == Records \subseteq Seq(Nat \ {0})
ASSUME NoRecordAssumption == NoRecord \notin Records
ASSUME CleanSlotsAssumption == CleanSlots \in BOOLEAN

VARIABLES
    lower,      \* free_space_lower_bound
    upper,      \* free_space_upper_bound
    num_slots,
    num_free_slots,
    data        \* the cells, 0..(DataSize - 1)

pageVars == <<lower, upper, num_slots, num_free_slots, data>>

INVALID_SLOT == 0
Cells == 0..(DataSize - 1)
MaxSlots == DataSize \div SlotSize

\* initialize
PageInit ==
    /\ lower = 0
    /\ upper = DataSize
    /\ num_slots = 0
    /\ num_free_slots = 0
    /\ data = [c \in Cells |-> 0]

-----------------------------------------------------------------------------
(* Slots and records in memory d *)

SlotCell(s) == (s - 1) * SlotSize
Used(d, s) == d[SlotCell(s)] # 0
Offset(d, s) == d[SlotCell(s) + 1]
Length(d, s) == d[SlotCell(s) + 2]
Extent(d, s) == Offset(d, s)..(Offset(d, s) + Length(d, s) - 1)

\* d with slot s overwritten.
SetSlot(d, s, used, offset, length) ==
    [d EXCEPT ![SlotCell(s)] = used,
              ![SlotCell(s) + 1] = offset,
              ![SlotCell(s) + 2] = length]

UsedSlots == {s \in 1..num_slots : Used(data, s)}

FreeSpace == upper - lower

\* getRecord
RecordIn(d, s) == [i \in 1..Length(d, s) |-> d[Offset(d, s) + i - 1]]

-----------------------------------------------------------------------------
(* insertRecord *)

HasSpaceForRecord(r) ==
    Len(r) + (IF num_free_slots = 0 THEN SlotSize ELSE 0) <= FreeSpace

\* getAvailableSlot: a slot allocated before, or one more.
OpensSlot == num_free_slots = 0

AvailableSlot == IF OpensSlot THEN num_slots + 1 ELSE Min((1..num_slots) \ UsedSlots)

\* getAvailableSlot finds a slot; otherwise its assert fails.
SlotFound == OpensSlot \/ UsedSlots # 1..num_slots

\* d and upper after insertRecordInSlot.
Stored(d, s, r, top) ==
    LET at == top - Len(r)
        slotted == SetSlot(d, s, 1, at, Len(r))
    IN  [c \in Cells |-> IF c \in at..(top - 1) THEN r[c - at + 1] ELSE slotted[c]]

\* The new slot reads as used: SlotInUseException.
SlotInUse == Used(data, AvailableSlot)

\* With the exception, the slot stays allocated and nothing else changes.
InsertRecord(r) ==
    /\ HasSpaceForRecord(r)
    /\ SlotFound
    /\ CleanSlots => ~SlotInUse
    /\ num_slots' = IF OpensSlot THEN num_slots + 1 ELSE num_slots
    /\ lower' = IF OpensSlot THEN SlotSize * num_slots' ELSE lower
    /\ num_free_slots' = num_free_slots + (IF OpensSlot THEN 1 ELSE 0)
                                        - (IF SlotInUse THEN 0 ELSE 1)
    /\ upper' = IF SlotInUse THEN upper ELSE upper - Len(r)
    /\ data' = IF SlotInUse THEN data ELSE Stored(data, AvailableSlot, r, upper)

-----------------------------------------------------------------------------
(* deleteRecord *)

\* Mutant of Movers: the comparison the other way round.
Movers_Above(s) == {i \in UsedSlots : Offset(data, i) > Offset(data, s)}

\* The slots whose records lie below that of s.
Movers(s) == {i \in UsedSlots : Offset(data, i) < Offset(data, s)}

\* The cells with the record of s overwritten.
Erased(s) ==
    [c \in Cells |-> IF c \in Extent(data, s) THEN 0 ELSE data[c]]

\* The cells after that, with the offsets of the moving records already where
\* the records are about to be.
Shifted(s) ==
    [c \in Cells |-> IF \E i \in Movers(s) : c = SlotCell(i) + 1
                     THEN Erased(s)[c] + Length(data, s) ELSE Erased(s)[c]]

\* move_bytes, added up slot by slot.
MoveBytes(s) ==
    LET upTo[i \in 0..num_slots] ==
            IF i = 0 THEN 0
            ELSE upTo[i - 1] + IF i \in Movers(s) THEN Length(data, i) ELSE 0
    IN  upTo[num_slots]

\* move_offset
MoveOffset(s) == Min({Offset(data, i) : i \in Movers(s) \cup {s}})

\* Mutant of Closed: the hole stays.
Closed_NotMoved(s) == Shifted(s)

\* The cells after move_bytes of them, from move_offset on, have been copied up
\* by the length of the hole.
Closed(s) ==
    LET to == MoveOffset(s) + Length(data, s)
    IN  [c \in Cells |-> IF c \in to..(to + MoveBytes(s) - 1)
                         THEN Shifted(s)[c - Length(data, s)] ELSE Shifted(s)[c]]

\* The cells after that, with slot s unused.
Removed(s) == SetSlot(Closed(s), s, 0, 0, 0)

\* The slots that go with the last record: its own and the unused before it.
TrailingSlots ==
    {i \in 1..num_slots : (i..(num_slots - 1)) \cap UsedSlots = {}}

DeleteRecord(s) ==
    LET gone == IF s = num_slots THEN Cardinality(TrailingSlots) ELSE 0
    IN  /\ s \in UsedSlots
        /\ data' = Removed(s)
        /\ upper' = upper + Length(data, s)
        /\ num_slots' = num_slots - gone
        /\ num_free_slots' = num_free_slots + 1 - gone
        /\ lower' = lower - SlotSize * gone

-----------------------------------------------------------------------------
(* updateRecord: the slot array is not compacted, the slot keeps its number *)

UpdateRecord(s, r) ==
    /\ s \in UsedSlots
    /\ Len(r) <= FreeSpace + Length(data, s)
    /\ data' = Stored(Removed(s), s, r, upper + Length(data, s))
    /\ upper' = upper + Length(data, s) - Len(r)
    /\ UNCHANGED <<lower, num_slots, num_free_slots>>

-----------------------------------------------------------------------------

PageNext ==
    \/ \E r \in Records : InsertRecord(r)
    \/ \E s \in 1..num_slots :
          \/ DeleteRecord(s)
          \/ \E r \in Records : UpdateRecord(s, r)

PageSpec == PageInit /\ [][PageNext]_pageVars

-----------------------------------------------------------------------------

PageTypeOK ==
    /\ lower \in 0..DataSize
    /\ upper \in 0..DataSize
    /\ num_slots \in 0..MaxSlots
    /\ num_free_slots \in 0..MaxSlots
    /\ data \in [Cells -> Nat]

\* "Number of slots allocated but not in use." (page.h:46): what getAvailableSlot
\* relies on to find a slot to reuse, and the space check on to charge for a
\* new one.  It is false after an insertion that CleanSlots leaves out.
SlotsCounted ==
    num_free_slots = num_slots - Cardinality(UsedSlots)

\* The slot array and the records each fill their end of the page with no gap
\* and no overlap, so the space a page reports is the space it has; the last
\* slot is in use, so the array is as short as the record ids allow.  With
\* CleanSlots: a slot that keeps its stale bytes belongs to no record.
SpaceExact ==
    /\ lower = SlotSize * num_slots /\ lower <= upper
    /\ UNION {Extent(data, s) : s \in UsedSlots} = upper..(DataSize - 1)
    /\ \A s, t \in UsedSlots : s # t => Extent(data, s) \cap Extent(data, t) = {}
    /\ num_slots # 0 => num_slots \in UsedSlots

\* What getRecord finds under each slot.
RecordsNow ==
    [s \in 1..MaxSlots |-> IF s \in UsedSlots THEN RecordIn(data, s) ELSE NoRecord]

\* A record is found under its slot, unchanged, whatever is inserted, updated,
\* deleted and moved around it, with CleanSlots: a slot that keeps its stale
\* bytes is a record that nobody has inserted.
Kept == INSTANCE RecordStore WITH Names <- 1..MaxSlots, store <- RecordsNow
PageImplemented == Kept!Spec
=============================================================================
