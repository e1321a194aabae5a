-------------------------------- MODULE Clock --------------------------------
(***************************************************************************)
(* Which frame BufMgr::allocBuf settles on (buffer.cpp:54-108), as a       *)
(* function of the clock hand and of the frames it must skip.  ClockSweep  *)
(* shows that the loop of the code computes exactly this; BufMgr uses it   *)
(* to make a call of allocBuf one step.                                    *)
(***************************************************************************)
EXTENDS Integers

CONSTANT NumBufs

ASSUME NumBufsAssumption == NumBufs \in Nat \ {0}

Frames == 0..(NumBufs - 1)

\* advanceClock: where the hand goes from h.
NextFrame(h) == IF h + 1 >= NumBufs THEN 0 ELSE h + 1

\* How many times the hand must be advanced from h to reach f.
Turns(h, f) == IF f > h THEN f - h ELSE f - h + NumBufs

\* The first frame after h that is not busy.  busy: the valid, pinned frames.
Victim(h, busy) ==
    CHOOSE f \in Frames \ busy :
        \A g \in Frames \ busy : Turns(h, f) <= Turns(h, g)

\* The frames whose reference bit advanceClock has cleared when the hand,
\* started at h, has settled on f.
Swept(h, f) == {g \in Frames : Turns(h, g) <= Turns(h, f)}
=============================================================================
