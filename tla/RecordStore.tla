----------------------------- MODULE RecordStore -----------------------------
(***************************************************************************)
(* What a page promises about the records in it: "Although a record's      *)
(* actual contents may be moved on the page, accessing a record by its     *)
(* slot is consistent" (page.h).  A record keeps its name and its content  *)
(* until it is updated or deleted by that name.                            *)
(***************************************************************************)
CONSTANTS Names, Records, NoRecord

VARIABLE store      \* name -> record, NoRecord when there is none

Init == store = [n \in Names |-> NoRecord]

Insert(n, r) ==
    /\ store[n] = NoRecord
    /\ store' = [store EXCEPT ![n] = r]

Update(n, r) ==
    /\ store[n] # NoRecord
    /\ store' = [store EXCEPT ![n] = r]

Delete(n) ==
    /\ store[n] # NoRecord
    /\ store' = [store EXCEPT ![n] = NoRecord]

Next == \E n \in Names :
            \/ Delete(n)
            \/ \E r \in Records : Insert(n, r) \/ Update(n, r)

Spec == Init /\ [][Next]_store
=============================================================================
