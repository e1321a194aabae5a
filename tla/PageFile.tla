------------------------------ MODULE PageFile -------------------------------
(***************************************************************************)
(* One database file and the clients of class File that work on it         *)
(* directly, without a buffer pool: a client reads a page into a copy of   *)
(* its own, edits the copy and writes it back, while other clients         *)
(* allocate and delete pages and so relink the ones on the disk.  A call   *)
(* that throws before its first write, or that loops forever, changes      *)
(* nothing and is not a step.                                              *)
(***************************************************************************)
EXTENDS FileOps

CONSTANTS
    Holders,        \* clients, each with one copy of a page
    KeepOne,        \* discipline: never empty a file that has a free page
    NoData          \* not a page content; see PageStore

ASSUME KeepOneAssumption == KeepOne \in BOOLEAN
ASSUME NoDataAssumption == NoData \notin Data

VARIABLES
    file,   \* the bytes on disk
    held    \* Holders -> the Page object each has

vars == <<file, held>>

Init ==
    /\ file = NewFile
    /\ held = [c \in Holders |-> FreshPage]

AllocatePage(c) ==
    /\ ~AllocateFails(file)
    /\ NewPageNumber(file) \in PageIds
    /\ file' = Allocated(file)
    /\ held' = [held EXCEPT ![c] = NewPage(file)]

ReadPage(c, p) ==
    /\ p \in Readable(file)
    /\ held' = [held EXCEPT ![c] = file.page[p]]
    /\ UNCHANGED file

\* The client changes records of its copy.
EditCopy(c, d) ==
    /\ held[c].num # NoPage
    /\ held' = [held EXCEPT ![c].data = d]
    /\ UNCHANGED file

WritePage(c) ==
    /\ held[c].num # NoPage
    /\ ~WriteThrows(file, held[c])
    /\ file' = Written(file, held[c])
    /\ UNCHANGED held

DeletePage(p) ==
    /\ ~DeleteFails(file, p)
    /\ KeepOne => Readable(file) # {p} \/ file.hdr.num_free_pages = 0
    /\ file' = Deleted(file, p)
    /\ UNCHANGED held

Next ==
    \/ \E c \in Holders :
          \/ AllocatePage(c)
          \/ WritePage(c)
          \/ \E p \in PageIds : ReadPage(c, p)
          \/ \E d \in Data : EditCopy(c, d)
    \/ \E p \in PageIds : DeletePage(p)

Spec == Init /\ [][Next]_vars

-----------------------------------------------------------------------------

TypeOK ==
    /\ file \in FileImage
    /\ held \in [Holders -> Page]

Listed(f) == LET at == Chain(f) IN {at[k] : k \in 0..MaxPages} \ {NoPage}

\* The links of the used pages are one list, in ascending order, of exactly
\* the pages in use, each under its own number ("Number of the next used page
\* in the file", page.h:56): the iterator meets every page once and allocation
\* finds its place, however stale the copies are that clients write back.
UsedListExact ==
    /\ Listed(file) = InUse(file)
    /\ Chain(file)[MaxPages] = NoPage
    /\ \A p \in InUse(file) :
          /\ file.page[p].num = p
          /\ file.page[p].next = NoPage \/ file.page[p].next > p

\* The free list holds exactly the pages below num_pages that are not in use,
\* each once, cleared, and its length is num_free_pages: the assert of
\* allocatePage (file.cpp:118) never fires and no page is ever leaked or handed
\* out twice.  It does not depend on the state of the used list.
FreeListExact ==
    LET at   == LinksFrom(file, file.hdr.first_free_page)
        Free == {p \in PageIds \ InUse(file) : p < file.hdr.num_pages}
        n    == file.hdr.num_free_pages
    IN  /\ n \in 0..MaxPages
        /\ {at[k] : k \in 0..(n - 1)} = Free
        /\ \A j, k \in 0..(n - 1) : at[j] = at[k] => j = k
        /\ at[n] = NoPage
        /\ \A p \in Free : file.page[p].data = EmptyData

\* The content of each page that an iterator comes to.
Seen ==
    LET listed == Listed(file)
    IN  [p \in PageIds |-> IF p \in listed THEN file.page[p].data ELSE NoData]

\* A client that iterates over the file sees a store of pages: what it finds
\* changes only when a page is allocated, written or deleted.
Store == INSTANCE PageStore WITH Names <- PageIds, store <- Seen
StoreImplemented == Store!Spec
=============================================================================
