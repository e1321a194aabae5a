-------------------------- MODULE ClockSweepProofs ---------------------------
(***************************************************************************)
(* The loop of allocBuf computes the closed form of module Clock; the loop *)
(* first handed in gives a referenced frame its second chance.             *)
(***************************************************************************)
EXTENDS ClockSweep, StorageLemmas

\* How often the hand has been advanced.
Advances == IF pc = "found" THEN fucked + 1 ELSE fucked

\* While it sweeps, the loop of buffer.cpp has passed as many frames as it has
\* counted, all of them pinned, and has cleared exactly their reference bits.
PassedFrames ==
    /\ IF Advances = 0 THEN clockHand = start.hand
       ELSE Turns(start.hand, clockHand) = Advances
    /\ \A f \in Frames :
          refbit[f] <=> start.refbit[f] /\ ~(Turns(start.hand, f) <= Advances)
    /\ \A f \in Frames : Turns(start.hand, f) <= fucked => f \in pinned
    /\ pc = "found" => clockHand \notin pinned

SweepInv ==
    /\ TypeOK
    /\ pc = "sweep" => fucked < NumBufs
    /\ pc = "throw" => fucked = NumBufs
    /\ ~submitted => PassedFrames

\* The invariant holds when allocBuf is called.
LEMMA SweepInvInit == Init => SweepInv
<1> SUFFICES ASSUME Init PROVE SweepInv
  OBVIOUS
<1>1. TypeOK /\ fucked = 0 /\ fucked < NumBufs /\ pc = "sweep" /\ Advances = 0
  BY NumBufsAssumption DEF Init, TypeOK, Advances
<1>2. clockHand = start.hand /\ refbit = start.refbit /\ start.hand \in Frames
  BY DEF Init
<1>3. \A f \in Frames : ~(Turns(start.hand, f) <= 0)
  BY <1>2, TurnsNext, NumBufsAssumption
<1> QED
  BY <1>1, <1>2, <1>3 DEF SweepInv, PassedFrames

\* What advanceClock does to the hand and to the reference bits.
LEMMA AdvanceStep ==
    ASSUME SweepInv, AdvanceClock
    PROVE  /\ clockHand' \in Frames
           /\ refbit' \in [Frames -> BOOLEAN]
           /\ start' = start /\ pinned' = pinned /\ submitted' = submitted
           /\ pc = "sweep" /\ fucked < NumBufs
           /\ ~submitted =>
                 /\ Turns(start.hand, clockHand') = fucked + 1
                 /\ \A f \in Frames :
                       refbit'[f] <=> /\ start.refbit[f]
                                      /\ ~(Turns(start.hand, f) <= fucked + 1)
<1>1. /\ clockHand' = NextFrame(clockHand) /\ clockHand \in Frames
      /\ start' = start /\ pinned' = pinned /\ submitted' = submitted
      /\ pc = "sweep" /\ fucked < NumBufs
      /\ start.hand \in Frames /\ fucked \in Nat
      /\ refbit' = [refbit EXCEPT ![clockHand'] = FALSE]
      /\ refbit \in [Frames -> BOOLEAN]
  BY DEF SweepInv, TypeOK, AdvanceClock
<1>2. clockHand' \in Frames
  BY <1>1, TurnsNext
<1>3. refbit' \in [Frames -> BOOLEAN]
  BY <1>1, <1>2
<1>4. ASSUME ~submitted PROVE Turns(start.hand, clockHand') = fucked + 1
  BY <1>1, <1>4, TurnsNext DEF SweepInv, PassedFrames, Advances
<1>5. ASSUME ~submitted, NEW f \in Frames
      PROVE  refbit'[f] <=> start.refbit[f] /\ ~(Turns(start.hand, f) <= fucked + 1)
  <2>1. refbit[f] <=> start.refbit[f] /\ ~(Turns(start.hand, f) <= fucked)
    BY <1>1, <1>5 DEF SweepInv, PassedFrames, Advances
  <2>2. CASE f = clockHand'
    <3>1. refbit'[f] = FALSE
      BY <1>1, <1>2, <2>2
    <3>2. Turns(start.hand, f) <= fucked + 1
      BY <1>1, <1>4, <1>5, <2>2
    <3> QED
      BY <3>1, <3>2
  <2>3. CASE f # clockHand'
    <3>1. Turns(start.hand, f) # fucked + 1
      BY <1>1, <1>2, <1>4, <1>5, <2>3, TurnsNext
    <3>2. Turns(start.hand, f) \in Nat
      BY <1>1, TurnsNext
    <3>3. (Turns(start.hand, f) <= fucked + 1) <=> (Turns(start.hand, f) <= fucked)
      BY <1>1, <3>1, <3>2
    <3>4. refbit'[f] = refbit[f]
      BY <1>1, <2>3
    <3> QED
      BY <2>1, <3>3, <3>4
  <2> QED
    BY <2>2, <2>3
<1> QED
  BY <1>1, <1>2, <1>3, <1>4, <1>5

\* Every iteration of the loop preserves the invariant.
LEMMA SweepInvStep == SweepInv /\ [Next]_vars => SweepInv'
<1> SUFFICES ASSUME SweepInv, [Next]_vars PROVE SweepInv'
  OBVIOUS
<1>0. /\ clockHand \in Frames /\ refbit \in [Frames -> BOOLEAN]
      /\ pinned \subseteq Frames /\ fucked \in Nat /\ submitted \in BOOLEAN
      /\ start.hand \in Frames
  BY DEF SweepInv, TypeOK
<1>1. CASE SkipReferenced
  <2>1. AdvanceClock /\ fucked' = fucked /\ pc' = pc /\ submitted
    BY <1>1 DEF SkipReferenced, Reflag
  <2> QED
    BY <2>1, AdvanceStep DEF SweepInv, TypeOK
<1>2. CASE SkipPinned
  <2>1. /\ AdvanceClock /\ clockHand' \in pinned /\ fucked' = fucked + 1
        /\ pc' = IF fucked' >= NumBufs THEN "throw" ELSE "sweep"
    BY <1>2 DEF SkipPinned
  <2>2. TypeOK'
    BY <2>1, AdvanceStep, NumBufsAssumption DEF SweepInv, TypeOK
  <2>3. (pc' = "sweep" => fucked' < NumBufs) /\ (pc' = "throw" => fucked' = NumBufs)
    BY <1>0, <2>1, AdvanceStep, NumBufsAssumption
  <2>4. ASSUME ~submitted PROVE PassedFrames'
    <3>1. Advances' = fucked + 1 /\ fucked + 1 # 0
      BY <1>0, <2>1 DEF Advances
    <3>2. ASSUME NEW f \in Frames, Turns(start.hand, f) <= fucked + 1
          PROVE  f \in pinned
      <4>1. CASE Turns(start.hand, f) = fucked + 1
        BY <1>0, <2>1, <2>4, <4>1, AdvanceStep, TurnsNext
      <4>2. CASE Turns(start.hand, f) <= fucked
        BY <2>4, <4>2 DEF SweepInv, PassedFrames
      <4>3. Turns(start.hand, f) \in Nat
        BY <1>0, TurnsNext
      <4> QED
        BY <1>0, <3>2, <4>1, <4>2, <4>3
    <3>3. /\ Turns(start.hand, clockHand') = fucked + 1
          /\ start' = start /\ pinned' = pinned
          /\ \A f \in Frames : refbit'[f] <=>
                start.refbit[f] /\ ~(Turns(start.hand, f) <= fucked + 1)
      BY <2>1, <2>4, AdvanceStep
    <3>4. pc' # "found"
      BY <2>1
    <3> QED
      BY <2>1, <3>1, <3>2, <3>3, <3>4 DEF PassedFrames
  <2> QED
    BY <2>1, <2>2, <2>3, <2>4, AdvanceStep DEF SweepInv
<1>3. CASE Settle
  <2>1. /\ AdvanceClock /\ clockHand' \notin pinned /\ fucked' = fucked
        /\ pc' = "found"
    BY <1>3 DEF Settle
  <2>2. TypeOK'
    BY <2>1, AdvanceStep DEF SweepInv, TypeOK
  <2>4. ASSUME ~submitted PROVE PassedFrames'
    <3>1. Advances' = fucked + 1 /\ fucked + 1 # 0
      BY <1>0, <2>1 DEF Advances
    <3>2. \A f \in Frames : Turns(start.hand, f) <= fucked => f \in pinned
      BY <2>4 DEF SweepInv, PassedFrames
    <3>3. /\ Turns(start.hand, clockHand') = fucked + 1
          /\ start' = start /\ pinned' = pinned
          /\ \A f \in Frames : refbit'[f] <=>
                start.refbit[f] /\ ~(Turns(start.hand, f) <= fucked + 1)
      BY <2>1, <2>4, AdvanceStep
    <3> QED
      BY <2>1, <3>1, <3>2, <3>3 DEF PassedFrames
  <2> QED
    BY <2>1, <2>2, <2>4, AdvanceStep DEF SweepInv
<1>4. CASE UNCHANGED vars
  BY <1>4 DEF vars, SweepInv, TypeOK, PassedFrames, Advances
<1> QED
  BY <1>1, <1>2, <1>3, <1>4 DEF Next

\* A loop that has ended in the invariant has ended as the closed form says.
LEMMA SweepInvClosedForm == SweepInv => SweepIsClosedForm
<1> SUFFICES ASSUME SweepInv, ~submitted
             PROVE  FoundFrame /\ ThrowsOnlyWhenAllPinned /\ FailedSweep
  BY DEF SweepIsClosedForm
<1>0. /\ clockHand \in Frames /\ refbit \in [Frames -> BOOLEAN]
      /\ pinned \subseteq Frames /\ fucked \in 0..NumBufs
      /\ start.hand \in Frames /\ PassedFrames
  BY DEF SweepInv, TypeOK
<1>1. ASSUME pc = "found" PROVE FoundFrame
  <2>1. /\ Turns(start.hand, clockHand) = fucked + 1
        /\ clockHand \notin pinned
        /\ \A f \in Frames \ pinned : ~(Turns(start.hand, f) <= fucked)
    BY <1>0, <1>1 DEF PassedFrames, Advances
  <2>2. \A f \in Frames \ pinned :
           Turns(start.hand, clockHand) <= Turns(start.hand, f)
    BY <1>0, <2>1, TurnsNext
  <2> DEFINE v == Victim(start.hand, pinned)
  <2>3. /\ v \in Frames \ pinned
        /\ Turns(start.hand, v) <= Turns(start.hand, clockHand)
    BY <1>0, <2>1, VictimIsFirst
  <2>4. Turns(start.hand, v) = Turns(start.hand, clockHand)
    <3> HIDE DEF v
    <3>1. Turns(start.hand, v) \in Nat /\ Turns(start.hand, clockHand) \in Nat
      BY <1>0, <2>3, TurnsNext
    <3> QED
      BY <2>2, <2>3, <3>1
  <2>5. clockHand = v
    <3> HIDE DEF v
    <3> QED
      BY <1>0, <2>3, <2>4, TurnsNext
  <2>6. \A f \in Frames :
           refbit[f] <=> start.refbit[f] /\ f \notin Swept(start.hand, clockHand)
    BY <1>0, <1>1, <2>1 DEF PassedFrames, Advances, Swept
  <2>7. refbit = [f \in Frames |-> start.refbit[f]
                                   /\ f \notin Swept(start.hand, clockHand)]
    BY <1>0, <2>6
  <2> QED
    BY <1>0, <2>1, <2>5, <2>7 DEF FoundFrame
<1>2. ASSUME pc = "throw" PROVE ThrowsOnlyWhenAllPinned /\ FailedSweep
  <2>1. fucked = NumBufs /\ Advances = NumBufs /\ NumBufs # 0 /\ NumBufs \in Nat
    BY <1>2, NumBufsAssumption DEF SweepInv, Advances
  <2>2. \A f \in Frames : Turns(start.hand, f) <= NumBufs
    BY <1>0, <2>1, TurnsNext
  <2>3. pinned = Frames
    BY <1>0, <2>1, <2>2 DEF PassedFrames
  <2>4. clockHand = start.hand
    BY <1>0, <2>1, TurnsNext DEF PassedFrames
  <2>5. refbit = [f \in Frames |-> FALSE]
    <3>1. \A f \in Frames : refbit[f] = FALSE
      BY <1>0, <2>1, <2>2 DEF PassedFrames
    <3> QED
      BY <1>0, <3>1
  <2> QED
    BY <2>3, <2>4, <2>5 DEF ThrowsOnlyWhenAllPinned, FailedSweep
<1> QED
  BY <1>1, <1>2 DEF FoundFrame, ThrowsOnlyWhenAllPinned, FailedSweep

-----------------------------------------------------------------------------
(* The version first handed in *)

\* Every frame that could be taken was referenced when the call began.
AllReferenced == \A f \in Frames \ pinned : start.refbit[f]

\* The hand is on its first turn: a frame that it has passed is pinned or was
\* referenced, any other has the reference bit that it had.
FirstTurn ==
    \A f \in Frames :
        IF clockHand # start.hand /\ Turns(start.hand, f) <= Turns(start.hand, clockHand)
        THEN f \in pinned \/ start.refbit[f]
        ELSE refbit[f] = start.refbit[f]

SecondChance ==
    submitted =>
        \/ AllReferenced
        \/ pc = "found" /\ ~start.refbit[clockHand]
        \/ pc # "found" /\ FirstTurn

\* One more frame passed that cannot be taken, or that was referenced.
LEMMA FirstTurnGoesOn ==
    ASSUME SweepInv, FirstTurn, AdvanceClock,
           clockHand' \in pinned \/ refbit[clockHand']
    PROVE  AllReferenced' \/ FirstTurn'
<1> DEFINE h == start.hand
<1>1. /\ clockHand' = NextFrame(clockHand) /\ clockHand \in Frames
      /\ start' = start /\ pinned' = pinned
      /\ refbit' = [refbit EXCEPT ![clockHand'] = FALSE]
      /\ refbit \in [Frames -> BOOLEAN] /\ start.refbit \in [Frames -> BOOLEAN]
      /\ h \in Frames
  BY DEF SweepInv, TypeOK, AdvanceClock
<1>2. \A f \in Frames : Turns(h, f) \in Nat /\ Turns(h, f) <= NumBufs
  BY <1>1, TurnsNext, NumBufsAssumption
<1> DEFINE k == IF clockHand = h THEN 0 ELSE Turns(h, clockHand)
<1>3. k \in Nat /\ clockHand' \in Frames /\ Turns(h, clockHand') = k + 1
  BY <1>1, <1>2, TurnsNext
<1>4. \A f \in Frames : IF Turns(h, f) <= k THEN f \in pinned \/ start.refbit[f]
                                            ELSE refbit[f] = start.refbit[f]
  <2> SUFFICES ASSUME NEW f \in Frames
               PROVE  IF Turns(h, f) <= k THEN f \in pinned \/ start.refbit[f]
                                          ELSE refbit[f] = start.refbit[f]
    OBVIOUS
  <2>1. Turns(h, f) # 0
    BY <1>1, TurnsNext, NumBufsAssumption
  <2> QED
    BY <1>2, <2>1 DEF FirstTurn
<1> HIDE DEF k
<1>5. \A f \in Frames : Turns(h, f) <= k + 1 => f \in pinned \/ start.refbit[f]
  <2> SUFFICES ASSUME NEW f \in Frames, Turns(h, f) <= k + 1
               PROVE  f \in pinned \/ start.refbit[f]
    OBVIOUS
  <2>1. CASE Turns(h, f) <= k
    BY <1>4, <2>1
  <2>2. CASE ~(Turns(h, f) <= k)
    <3>1. Turns(h, f) = k + 1
      BY <1>2, <1>3, <2>2
    <3>2. f = clockHand'
      BY <1>1, <1>3, <3>1, TurnsNext
    <3> QED
      BY <1>4, <2>2, <3>2
  <2> QED
    BY <2>1, <2>2
<1>6. CASE clockHand' = h
  <2>1. k + 1 = NumBufs
    BY <1>1, <1>3, <1>6, TurnsNext
  <2> QED
    BY <1>1, <1>2, <1>5, <2>1 DEF AllReferenced
<1>7. CASE clockHand' # h
  <2>1. ASSUME NEW f \in Frames, ~(Turns(h, f) <= k + 1)
        PROVE  refbit'[f] = start.refbit[f]
    <3>1. f # clockHand' /\ ~(Turns(h, f) <= k)
      BY <1>2, <1>3, <2>1
    <3> QED
      BY <1>1, <1>4, <3>1
  <2> QED
    BY <1>1, <1>3, <1>5, <1>7, <2>1 DEF FirstTurn
<1> QED
  BY <1>6, <1>7

\* A frame that is settled on had the reference bit that the loop finds.
LEMMA SettledOnFirstTurn ==
    ASSUME SweepInv, FirstTurn, submitted, Settle
    PROVE  ~start.refbit[clockHand']
<1>1. /\ clockHand' = NextFrame(clockHand) /\ clockHand \in Frames
      /\ start.hand \in Frames /\ ~refbit[clockHand']
  BY DEF SweepInv, TypeOK, Settle, AdvanceClock, Reflag
<1>2. clockHand' \in Frames
  BY <1>1, TurnsNext
<1>3. clockHand # start.hand =>
        ~(Turns(start.hand, clockHand') <= Turns(start.hand, clockHand))
  BY <1>1, TurnsNext, NumBufsAssumption
<1> QED
  BY <1>1, <1>2, <1>3 DEF FirstTurn

LEMMA SecondChanceStep ==
    ASSUME SweepInv, SecondChance, [Next]_vars
    PROVE  SecondChance'
<1>1. CASE SkipReferenced
  <2>1. /\ AdvanceClock /\ pc' = pc /\ submitted /\ refbit[clockHand']
        /\ pc = "sweep" /\ start' = start /\ pinned' = pinned
    BY <1>1 DEF SkipReferenced, AdvanceClock, Reflag
  <2> QED
    BY <2>1, FirstTurnGoesOn DEF SecondChance, AllReferenced
<1>2. CASE SkipPinned
  <2>1. /\ AdvanceClock /\ pc' # "found" /\ clockHand' \in pinned
        /\ pc = "sweep" /\ start' = start /\ pinned' = pinned
        /\ submitted' = submitted
    BY <1>2 DEF SkipPinned, AdvanceClock
  <2> QED
    BY <2>1, FirstTurnGoesOn DEF SecondChance, AllReferenced
<1>3. CASE Settle
  <2>1. /\ pc' = "found" /\ pc = "sweep" /\ start' = start /\ pinned' = pinned
        /\ submitted' = submitted
    BY <1>3 DEF Settle, AdvanceClock
  <2> QED
    BY <1>3, <2>1, SettledOnFirstTurn DEF SecondChance, AllReferenced
<1>4. CASE UNCHANGED vars
  BY <1>4 DEF vars, SecondChance, AllReferenced, FirstTurn
<1> QED
  BY <1>1, <1>2, <1>3, <1>4 DEF Next

-----------------------------------------------------------------------------
(* Every iteration comes closer to the end *)

Referenced == {f \in Frames : refbit[f]}

\* The reference bits that are set can be counted.
LEMMA ReferencedCount ==
    ASSUME NEW r
    PROVE  LET S == {f \in Frames : r[f]}
           IN  IsFiniteSet(S) /\ Cardinality(S) \in Nat
<1> DEFINE S == {f \in Frames : r[f]}
<1>1. IsFiniteSet(Frames)
  BY FS_Interval, NumBufsAssumption DEF Frames
<1>2. S \subseteq Frames
  OBVIOUS
<1> HIDE DEF S
<1>3. IsFiniteSet(S) /\ Cardinality(S) \in Nat
  BY <1>1, <1>2, FS_Subset, FS_CardinalityType
<1> QED
  BY <1>3 DEF S

\* advanceClock sets no reference bit, and clears the one at the new hand.
LEMMA FewerReferenced ==
    ASSUME SweepInv, AdvanceClock
    PROVE  /\ Cardinality(Referenced) \in Nat /\ Cardinality(Referenced') \in Nat
           /\ Cardinality(Referenced') <= Cardinality(Referenced)
           /\ refbit[clockHand'] => Cardinality(Referenced') < Cardinality(Referenced)
<1>1. /\ refbit \in [Frames -> BOOLEAN] /\ clockHand' \in Frames
      /\ refbit' = [refbit EXCEPT ![clockHand'] = FALSE]
  BY AdvanceStep DEF SweepInv, TypeOK, AdvanceClock
<1>2. Referenced' = Referenced \ {clockHand'}
  BY <1>1 DEF Referenced
<1>3. IsFiniteSet(Referenced) /\ Cardinality(Referenced) \in Nat
  BY ReferencedCount DEF Referenced
<1>4. Referenced' \subseteq Referenced
  BY <1>2
<1>5. /\ IsFiniteSet(Referenced') /\ Cardinality(Referenced') \in Nat
      /\ Cardinality(Referenced') <= Cardinality(Referenced)
  BY <1>3, <1>4, FS_Subset, FS_CardinalityType
<1>6. ASSUME refbit[clockHand'] PROVE Cardinality(Referenced') < Cardinality(Referenced)
  <2>1. clockHand' \in Referenced
    BY <1>1, <1>6 DEF Referenced
  <2>2. Cardinality(Referenced') = Cardinality(Referenced) - 1
    BY <1>2, <1>3, <2>1, FS_RemoveElement
  <2> QED
    BY <1>3, <1>5, <2>2
<1> QED
  BY <1>3, <1>5, <1>6

\* An iteration leaves less than it found.
LEMMA LessIsLeft ==
    ASSUME SweepInv, SweepInv', Next
    PROVE  Left' \in Nat /\ Left' < Left
<1> DEFINE r == Cardinality(Referenced)
           s == Cardinality(Referenced')
<1>1. fucked \in 0..NumBufs /\ fucked' \in 0..NumBufs /\ NumBufs \in Nat
  BY NumBufsAssumption DEF SweepInv, TypeOK
<1>2. AdvanceClock /\ pc = "sweep"
  BY DEF Next, SkipReferenced, SkipPinned, Settle, AdvanceClock
<1>3. r \in Nat /\ s \in Nat /\ s <= r /\ (refbit[clockHand'] => s < r)
  BY <1>2, FewerReferenced
<1>4. Left = r + (NumBufs - fucked) + 1
  BY <1>2 DEF Left, Referenced
<1>5. Left' = s + (NumBufs - fucked') + (IF pc' = "sweep" THEN 1 ELSE 0)
  BY DEF Left, Referenced
<1> HIDE DEF r, s
<1>6. CASE SkipReferenced
  <2>1. fucked' = fucked /\ pc' = "sweep" /\ refbit[clockHand']
    BY <1>2, <1>6 DEF SkipReferenced, Reflag
  <2> QED
    BY <1>1, <1>3, <1>4, <1>5, <2>1
<1>7. CASE SkipPinned
  <2>1. fucked' = fucked + 1
    BY <1>7 DEF SkipPinned
  <2> QED
    BY <1>1, <1>3, <1>4, <1>5, <2>1
<1>8. CASE Settle
  <2>1. fucked' = fucked /\ pc' # "sweep"
    BY <1>8 DEF Settle
  <2> QED
    BY <1>1, <1>3, <1>4, <1>5, <2>1
<1> QED
  BY <1>6, <1>7, <1>8 DEF Next

-----------------------------------------------------------------------------

\* The loop stays in the pool: its hand names a frame, it counts no more frames
\* than there are (advanceClock and allocBuf of buffer.cpp).
THEOREM SweepIsTyped == Spec => []TypeOK
<1>1. SweepInv => TypeOK
  BY DEF SweepInv
<1> QED
  BY SweepInvInit, SweepInvStep, <1>1, PTL DEF Spec

\* For every number of frames, the loop of buffer.cpp settles on the frame that
\* the closed form names, clears the reference bits it names, and throws only
\* when every frame is pinned.
THEOREM SweepCorrect == Spec => []SweepIsClosedForm
  BY SweepInvInit, SweepInvStep, SweepInvClosedForm, PTL DEF Spec

\* For every number of frames, the loop first handed in passes over a frame that
\* was referenced, unless each frame that it could take was (the
\* advanceClock of lab2/submit).
THEOREM ReferencedIsSpared == Spec => []SecondChanceHonoured
<1>1. Init => SecondChance
  <2> SUFFICES ASSUME Init PROVE SecondChance
    OBVIOUS
  <2> QED
    BY DEF Init, SecondChance, FirstTurn
<1>2. SweepInv /\ SecondChance => SecondChanceHonoured
  BY DEF SecondChance, SecondChanceHonoured, AllReferenced
<1>3. SweepInv /\ SecondChance /\ [Next]_vars => SecondChance'
  BY SecondChanceStep
<1> QED
  BY SweepInvInit, SweepInvStep, <1>1, <1>2, <1>3, PTL DEF Spec

\* For every number of frames, no iteration of the loop leaves as much to be done
\* as it found: neither version of allocBuf can go round for ever.
THEOREM LoopComesCloser == Spec => ComesCloser
<1>1. SweepInv /\ SweepInv' /\ [Next]_vars => [Left' \in Nat /\ Left' < Left]_vars
  BY LessIsLeft
<1> QED
  BY SweepInvInit, SweepInvStep, <1>1, PTL DEF Spec, ComesCloser
=============================================================================
