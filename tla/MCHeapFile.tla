----------------------------- MODULE MCHeapFile ------------------------------
(***************************************************************************)
(* Instances of HeapFile for TLC.                                          *)
(***************************************************************************)
EXTENDS HeapFile, TLC

CONSTANTS f1, f2, h1, h2, small, wide, huge

\* The heap file, and one more.
TwoFiles == h1 :> f1 @@ h2 :> f2

EmptyPage == [s \in Slots |-> NoTuple]

\* A page has room for as many small tuples as it has slots, for one wide tuple
\* alone, and for no huge one.
ThreeLengths ==
    {d \in Contents : /\ \A s \in Slots : d[s] # wide
                      /\ \E s \in Slots : d[s] = NoTuple} \X {small}
    \cup {EmptyPage} \X {wide}

\* CallsAreClean speaks of this call.
Clean == quiet /\ FitsAPage

\* As ReadablePool in MCBufMgr; the reference bits, which do not decide where
\* the clock stops (ClockSweep); and of a call that has ended, what no property
\* looks at any more.
ReadableState ==
    <<[f \in Frames |-> IF bufDescTable[f].valid
                        THEN [bufPool[f] EXCEPT !.next = NoPage] ELSE FreshPage],
      [f \in Frames |-> [bufDescTable[f] EXCEPT !.refbit = FALSE]],
      clockHand, hash, disk, session, pc,
      IF Ready THEN <<Clean, Clean /\ Active(call.caller)>> ELSE <<call, quiet>>,
      IF Ready /\ ~(Clean /\ pc = "threw") THEN <<>> ELSE <<before>>>>

Symmetry == Permutations(Callers) \cup Permutations(Others)
=============================================================================
