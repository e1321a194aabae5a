------------------------------ MODULE PoolTable ------------------------------
(***************************************************************************)
(* BufHashTbl (bufHashTbl.cpp) under the buffer manager: chains of         *)
(* buckets, found by an index computed from the address of the File object *)
(* and the page number.  Every call of BufMgr also makes the calls of      *)
(* BufHashTbl that the code makes, in their order.  The map hash of BufMgr *)
(* only records what they should come to: the chains answer every lookup   *)
(* as the map does, and with their answers for the map this is BufMgr.     *)
(*                                                                         *)
(* A lookup, insert or remove that throws leaves the table as it is.       *)
(***************************************************************************)
EXTENDS BufMgr, SequencesExt

CONSTANTS
    HTSIZE,     \* the number of chains: 1.2 * NumBufs + 1 in BufMgr
    Words,      \* how many values an unsigned int has: 2^32
    Address     \* for a File object, the low word of its address

ASSUME HTSIZEAssumption == HTSIZE \in Nat \ {0}
ASSUME WordsAssumption == Words \in Nat \ {0}
ASSUME AddressAssumption == Address \in [Handles -> 0..(Words - 1)]

VARIABLE ht     \* Chains -> sequence of buckets

tableVars == <<vars, ht>>

Chains == 0..(HTSIZE - 1)
Bucket == [file : Handles, pageNo : PageIds, frameNo : Frames]

\* BufHashTbl::BufHashTbl
EmptyTable == [i \in Chains |-> <<>>]

\* BufHashTbl::hash; int + unsigned int is unsigned, so it wraps at Words.
Index(h, p) == ((Address[h] + p) % Words) % HTSIZE

\* Where a walk along chain c would stop for page p of h.
Stops(c, h, p) == {i \in DOMAIN c : c[i].file = h /\ c[i].pageNo = p}

\* lookup; NoFrame for HashNotFoundException.
Lookup(t, h, p) ==
    LET c == t[Index(h, p)]
    IN  IF Stops(c, h, p) = {} THEN NoFrame ELSE c[Min(Stops(c, h, p))].frameNo

\* Mutant of Inserted: the chain is not searched for the page first.
Inserted_Unchecked(t, h, p, f) ==
    [t EXCEPT ![Index(h, p)] = Cons([file |-> h, pageNo |-> p, frameNo |-> f], @)]

\* insert: at the head of the chain, unless the page is in it
\* (HashAlreadyPresentException).
Inserted(t, h, p, f) ==
    IF Stops(t[Index(h, p)], h, p) # {} THEN t
    ELSE [t EXCEPT ![Index(h, p)] =
             Cons([file |-> h, pageNo |-> p, frameNo |-> f], @)]

\* Mutant of Removed: the bucket's successor becomes the head of the chain,
\* whatever is in front of the bucket.
Removed_ForgetsPrev(t, h, p) ==
    LET c == t[Index(h, p)]
    IN  IF Stops(c, h, p) = {} THEN t
        ELSE [t EXCEPT ![Index(h, p)] = SubSeq(c, Min(Stops(c, h, p)) + 1, Len(c))]

\* remove: unlinks the first bucket of the page.
Removed(t, h, p) ==
    LET c == t[Index(h, p)]
    IN  IF Stops(c, h, p) = {} THEN t
        ELSE [t EXCEPT ![Index(h, p)] = RemoveAt(c, Min(Stops(c, h, p)))]

\* The table when the page that the descriptor of f names has been removed.
Without(t, f) == Removed(t, bufDescTable[f].file, bufDescTable[f].pageNo)

\* allocBuf removes the page of a valid victim.
TableAfterAlloc == IF bufDescTable[victim].valid THEN Without(ht, victim) ELSE ht

\* flushFile removes the pages of the frames of S, frame by frame.
TableAfterFlush(S) ==
    LET after[n \in 0..NumBufs] ==
            IF n = 0 THEN ht
            ELSE IF n - 1 \in S THEN Without(after[n - 1], n - 1)
            ELSE after[n - 1]
    IN  after[NumBufs]

-----------------------------------------------------------------------------

TableInit == Init /\ ht = EmptyTable

\* Calls that only look a page up, or do not come to a change of the table.
OnlyLooks ==
    /\ \/ \E h \in Handles, p \in PageIds :
             \/ \E c \in Clients : ReadHit(c, h, p)
             \/ ReadNoFrame(h, p)
             \/ DisposeUnbuffered(h, p)
       \/ \E h \in Handles : AllocPageNoFrame(h)
       \/ \E c \in Clients :
             \/ \E d \in Data : WritePinned(c, d)
             \/ \E dirty \in BOOLEAN : UnPin(c, dirty)
             \/ UnPinLost(c)
    /\ UNCHANGED ht

\* allocBuf's remove, then, when the page could be read, readPage's insert.
ReadMissTable(h, p) ==
    \/ /\ \E c \in Clients : ReadMiss(c, h, p)
       /\ ht' = Inserted(TableAfterAlloc, h, p, victim)
    \/ ReadInvalid(h, p) /\ ht' = TableAfterAlloc

\* allocBuf's remove, then allocPage's insert, which may throw.
AllocPageTable(h) ==
    /\ (\E c \in Clients : AllocPage(c, h)) \/ AllocPagePresent(h)
    /\ ht' = Inserted(TableAfterAlloc, h, NewNumber(h), victim)

FlushFileTable(h) == FlushFile(h) /\ ht' = TableAfterFlush(Flushed(h))

DisposeTable(h, p) == DisposeBuffered(h, p) /\ ht' = Removed(ht, h, p)

\* The old table is deleted with its manager, the new one is empty.
RestartTable == Restart /\ ht' = EmptyTable

TableNext ==
    \/ OnlyLooks
    \/ \E h \in Handles, p \in PageIds : ReadMissTable(h, p) \/ DisposeTable(h, p)
    \/ \E h \in Handles : AllocPageTable(h) \/ FlushFileTable(h)
    \/ RestartTable

TableSpec == TableInit /\ [][TableNext]_tableVars

-----------------------------------------------------------------------------

\* The answers that the chains give.
ChainMap == [h \in Handles |-> [p \in PageIds |-> Lookup(ht, h, p)]]

\* Every lookup in the chains is answered as by the map of BufMgr: a page that
\* is buffered is found in its frame, wherever other pages of the same index
\* have been put into and taken out of its chain; a page that is not is not.
LookupsAgree == hash = ChainMap

\* The buffer manager that takes what the chains answer for the map is the
\* buffer manager of BufMgr: no call, of insert or remove on the same chain for
\* another page included, changes what a lookup answers but as BufMgr says.
Chained == INSTANCE BufMgr WITH hash <- ChainMap
MapImplemented == Chained!Spec

Buckets == {k \in Chains \X (1..NumBufs) : k[2] \in DOMAIN ht[k[1]]}
BucketAt(k) == ht[k[1]][k[2]]

\* There is one bucket for each valid frame, it is that frame's, and no other:
\* buckets are neither left behind nor doubled, and no chain is longer than
\* the pool, after any sequence of calls, failing ones included.
OneBucketPerFrame ==
    /\ \A i \in Chains : Len(ht[i]) <= NumBufs
    /\ \A k \in Buckets :
          /\ bufDescTable[BucketAt(k).frameNo].valid
          /\ bufDescTable[BucketAt(k).frameNo].file = BucketAt(k).file
          /\ bufDescTable[BucketAt(k).frameNo].pageNo = BucketAt(k).pageNo
    /\ \A k, l \in Buckets : BucketAt(k).frameNo = BucketAt(l).frameNo => k = l
    /\ \A f \in Frames : bufDescTable[f].valid =>
          \E k \in Buckets : BucketAt(k).frameNo = f
=============================================================================
