------------------------------ MODULE MCBufMgr -------------------------------
(***************************************************************************)
(* Instances of BufMgr for TLC.                                            *)
(***************************************************************************)
EXTENDS BufMgr, TLC

CONSTANTS f1, f2, h1, h2

\* One File object for each file.
OneFile == h1 :> f1
TwoFiles == h1 :> f1 @@ h2 :> f2

\* Two File objects on one file.
SharedFile == h1 :> f1 @@ h2 :> f1

\* States that differ only in what no step of disciplined clients can read are
\* one: the bytes that Clear leaves behind in a free frame, and the link in a
\* buffered copy of a page, which writePage does not take from the copy.
ReadablePool ==
    <<[f \in Frames |-> IF bufDescTable[f].valid
                        THEN [bufPool[f] EXCEPT !.next = NoPage] ELSE FreshPage],
      clockHand, bufDescTable, hash, disk, session, bufStats>>

ClientSymmetry == Permutations(Clients)
=============================================================================
