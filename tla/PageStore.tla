------------------------------ MODULE PageStore ------------------------------
(***************************************************************************)
(* What the storage layers promise their client, whatever they cache and   *)
(* however they lay pages out: a store of named pages.  A page is handed   *)
(* out empty, under a name that no live page has, keeps exactly the last   *)
(* content written to it, and disappears when it is given back.            *)
(* PageFile (one file) and BufMgr (files behind the buffer pool) are shown *)
(* to implement it.                                                        *)
(***************************************************************************)
CONSTANTS Names, Data, EmptyData, NoData

VARIABLE store      \* name -> content, NoData when no such page exists

Init == store = [n \in Names |-> NoData]

Allocate(n) ==
    /\ store[n] = NoData
    /\ store' = [store EXCEPT ![n] = EmptyData]

Write(n, d) ==
    /\ store[n] # NoData
    /\ store' = [store EXCEPT ![n] = d]

Release(n) ==
    /\ store[n] # NoData
    /\ store' = [store EXCEPT ![n] = NoData]

Next == \E n \in Names :
            \/ Allocate(n)
            \/ Release(n)
            \/ \E d \in Data : Write(n, d)

Spec == Init /\ [][Next]_store
=============================================================================
