----------------------------- MODULE ClockSweep ------------------------------
(***************************************************************************)
(* The loop of BufMgr::allocBuf, one iteration per step, started in any    *)
(* state of the pool.  Nothing else runs during the call (BadgerDB is not  *)
(* thread safe), so the pinned frames stay pinned.                         *)
(* Two versions of the loop are in the repository.  In buffer.cpp,         *)
(* advanceClock clears the reference bit and the loop then reads it.  In   *)
(* the version handed in first (lab2/submit), advanceClock returns the bit *)
(* it found before clearing it.                                            *)
(***************************************************************************)
EXTENDS Clock, FiniteSets

VARIABLES
    submitted,  \* the version first handed in is running, not buffer.cpp
    clockHand,
    refbit,     \* Frames -> BOOLEAN
    pinned,     \* the valid frames whose pinCnt is positive
    fucked,     \* the code's count of the pinned frames it has met
    pc,         \* "sweep" in the loop, then "found" or "throw"
    start       \* the hand and the reference bits when the call began

vars == <<submitted, clockHand, refbit, pinned, fucked, pc, start>>

Init ==
    /\ submitted \in BOOLEAN
    /\ clockHand \in Frames
    /\ refbit \in [Frames -> BOOLEAN]
    /\ pinned \in SUBSET Frames
    /\ fucked = 0
    /\ pc = "sweep"
    /\ start = [hand |-> clockHand, refbit |-> refbit]

\* Mutant of Reflag: the bit is read after it has been cleared.
Reflag_AfterClear(f) == FALSE

\* The bit that the loop tests at frame f.
Reflag(f) == submitted /\ refbit[f]

AdvanceClock ==
    /\ pc = "sweep"
    /\ clockHand' = NextFrame(clockHand)
    /\ refbit' = [refbit EXCEPT ![clockHand'] = FALSE]
    /\ UNCHANGED <<submitted, pinned, start>>

\* Recently used: go on.
SkipReferenced ==
    /\ AdvanceClock
    /\ Reflag(clockHand')
    /\ UNCHANGED <<fucked, pc>>

\* Mutants of SkipPinned: one pinned frame too many; pinned frames not counted.
SkipPinned_OneMore ==
    /\ AdvanceClock
    /\ ~Reflag(clockHand')
    /\ clockHand' \in pinned
    /\ fucked' = fucked + 1
    /\ pc' = IF fucked' > NumBufs THEN "throw" ELSE "sweep"

SkipPinned_NotCounted ==
    /\ AdvanceClock
    /\ ~Reflag(clockHand')
    /\ clockHand' \in pinned
    /\ UNCHANGED <<fucked, pc>>

\* Pinned: count it, and give up when the count has reached numBufs.
SkipPinned ==
    /\ AdvanceClock
    /\ ~Reflag(clockHand')
    /\ clockHand' \in pinned
    /\ fucked' = fucked + 1
    /\ pc' = IF fucked' >= NumBufs THEN "throw" ELSE "sweep"

\* Free, or valid and not pinned.
Settle ==
    /\ AdvanceClock
    /\ ~Reflag(clockHand')
    /\ clockHand' \notin pinned
    /\ pc' = "found"
    /\ UNCHANGED fucked

Next == SkipReferenced \/ SkipPinned \/ Settle

\* The calling thread runs the loop until it returns or throws.
Spec == Init /\ [][Next]_vars /\ WF_vars(Next)

-----------------------------------------------------------------------------

TypeOK ==
    /\ submitted \in BOOLEAN
    /\ clockHand \in Frames
    /\ refbit \in [Frames -> BOOLEAN]
    /\ pinned \subseteq Frames
    /\ fucked \in 0..NumBufs
    /\ pc \in {"sweep", "found", "throw"}
    /\ start \in [hand : Frames, refbit : [Frames -> BOOLEAN]]

\* "@throws BufferExceededException If no such buffer is found which can be
\* allocated" (buffer.h:185): the call fails only when every frame is pinned.
ThrowsOnlyWhenAllPinned == pc = "throw" => pinned = Frames

\* The loop of buffer.cpp computes the closed form of module Clock: the victim is the first
\* frame after the hand that is not pinned, and exactly the reference bits on
\* the way are cleared; a failing call leaves the hand where it was.
FoundFrame ==
    pc = "found" =>
        /\ pinned # Frames
        /\ clockHand = Victim(start.hand, pinned)
        /\ refbit = [f \in Frames |-> start.refbit[f]
                                      /\ f \notin Swept(start.hand, clockHand)]

FailedSweep ==
    pc = "throw" =>
        /\ clockHand = start.hand
        /\ refbit = [f \in Frames |-> FALSE]

SweepIsClosedForm ==
    ~submitted => FoundFrame /\ ThrowsOnlyWhenAllPinned /\ FailedSweep

\* The clock's policy, which only the version handed in first follows: a frame
\* referenced since the hand last passed it is taken only when every frame that
\* could be taken was referenced too.
SecondChanceHonoured ==
    submitted /\ pc = "found" /\ start.refbit[clockHand] =>
        \A f \in Frames \ pinned : start.refbit[f]

\* Each iteration comes closer to the end of the call: it clears a reference bit
\* that it has found set, counts a pinned frame, or leaves the loop.  So no
\* call advances the hand more than 2 * NumBufs + 1 times, in either version.
Left == Cardinality({f \in Frames : refbit[f]}) + (NumBufs - fucked)
        + (IF pc = "sweep" THEN 1 ELSE 0)
ComesCloser == [][Left' \in Nat /\ Left' < Left]_vars

\* A call of allocBuf comes to an end, whatever is pinned and referenced.
Terminates == <>(pc # "sweep")
=============================================================================
