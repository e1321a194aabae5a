------------------------------- MODULE FileOps -------------------------------
(***************************************************************************)
(* The operations of class File (file.cpp) as operators on the bytes of    *)
(* one database file: a header and numbered pages.  Every used page is on  *)
(* a singly linked list ordered by page number, every deleted page on a    *)
(* free list.  An operation that the code performs as several flushed      *)
(* writes is one operator here; the page contents are opaque values.       *)
(* The state machines of this project apply these operators to a disk      *)
(* image; nothing in this module has state.                                *)
(***************************************************************************)
EXTENDS Naturals

CONSTANTS
    MaxPages,   \* bound: a file never holds more than this many pages
    Data,       \* contents of a page, seen by a client
    EmptyData   \* contents of a page that Page::initialize() has cleared

ASSUME MaxPagesAssumption == MaxPages \in Nat \ {0}
ASSUME EmptyDataAssumption == EmptyData \in Data

NoPage == 0                             \* Page::INVALID_NUMBER
PageIds == 1..MaxPages
PageRefs == 0..MaxPages

FileHeader == [num_pages       : 1..(MaxPages + 1),
               first_used_page : PageRefs,
               num_free_pages  : Nat,
               first_free_page : PageRefs]

\* num is current_page_number, which is NoPage in a page that is not in use.
Page == [num : PageRefs, next : PageRefs, data : Data]
FreshPage == [num |-> NoPage, next |-> NoPage, data |-> EmptyData]

FileImage == [hdr : FileHeader, page : [PageIds -> Page]]

\* File::create: the header page only.
NewFile == [hdr  |-> [num_pages       |-> 1,
                      first_used_page |-> NoPage,
                      num_free_pages  |-> 0,
                      first_free_page |-> NoPage],
            page |-> [p \in PageIds |-> FreshPage]]

PutPage(f, p, pg) == [f EXCEPT !.page[p] = pg]
PutHeader(f, h) == [f EXCEPT !.hdr = h]

\* The pages that the public readPage returns rather than InvalidPageException.
Readable(f) == {p \in PageIds : p < f.hdr.num_pages /\ f.page[p].num # NoPage}

InUse(f) == {p \in PageIds : f.page[p].num # NoPage}

-----------------------------------------------------------------------------
(* FileIterator *)

\* Mutant of Successor: the next page by number, in use or not.
Successor_ByNumber(f, p) == IF p = NoPage THEN NoPage ELSE p + 1

\* operator++; end() stays where it is.
Successor(f, p) == IF p = NoPage THEN NoPage ELSE f.page[p].next

\* The page numbers met from p on.
LinksFrom(f, p) ==
    LET at[k \in 0..MaxPages] == IF k = 0 THEN p ELSE Successor(f, at[k - 1])
    IN  at

\* The page numbers an iterator takes, from begin() on; NoPage is end().
Chain(f) == LinksFrom(f, f.hdr.first_used_page)

\* What a loop over the file that breaks at a page of Stop ends with: such a
\* page; or NoPage; or a page whose dereference throws InvalidPageException.
\* Links that run in a circle keep the loop going: the call does not return.
Endless == MaxPages + 1

WalkEnd(f, Stop) ==
    LET at == Chain(f)
        Passed == Readable(f) \ Stop
        Ends(k) == at[k] \notin Passed
    IN  IF \A k \in 0..MaxPages : ~Ends(k) THEN Endless
        ELSE at[CHOOSE k \in 0..MaxPages : Ends(k) /\ \A j \in 0..(k - 1) : ~Ends(j)]

-----------------------------------------------------------------------------
(* allocatePage *)

Reuses(f) == f.hdr.num_free_pages > 0

NewPageNumber(f) ==
    IF Reuses(f) THEN f.hdr.first_free_page ELSE f.hdr.num_pages

\* The new page becomes the head of the used list.
AtHead(f) ==
    \/ f.hdr.first_used_page = NoPage
    \/ Reuses(f) /\ f.hdr.first_used_page > NewPageNumber(f)

\* The page whose link is redirected to the new page.
Predecessor(f) ==
    WalkEnd(f, {p \in PageIds : \/ f.page[p].next = NoPage
                                \/ Reuses(f) /\ f.page[p].next > NewPageNumber(f)})

\* The walk meets a page that is not in use and throws, or it never ends; in
\* both cases nothing has been written yet.
AllocateFails(f) == ~AtHead(f) /\ Predecessor(f) \notin Readable(f)

NewPageNext(f) ==
    IF ~AtHead(f) THEN f.page[Predecessor(f)].next
    ELSE IF f.hdr.first_used_page > NewPageNumber(f) THEN f.hdr.first_used_page
    ELSE IF Reuses(f) THEN f.page[NewPageNumber(f)].next
    ELSE NoPage

NewPage(f) ==
    [num  |-> NewPageNumber(f),
     next |-> NewPageNext(f),
     data |-> IF Reuses(f) THEN f.page[NewPageNumber(f)].data ELSE EmptyData]

\* Mutants of AllocateHeader: the free count taken down on both branches; the
\* free list not advanced.
AllocateHeader_AlwaysCountsDown(f) ==
    [num_pages       |-> f.hdr.num_pages + (IF Reuses(f) THEN 0 ELSE 1),
     first_used_page |-> IF AtHead(f) THEN NewPageNumber(f)
                         ELSE f.hdr.first_used_page,
     num_free_pages  |-> f.hdr.num_free_pages - 1,
     first_free_page |-> IF Reuses(f) THEN f.page[NewPageNumber(f)].next
                         ELSE f.hdr.first_free_page]

AllocateHeader_KeepsFreeHead(f) ==
    [num_pages       |-> f.hdr.num_pages + (IF Reuses(f) THEN 0 ELSE 1),
     first_used_page |-> IF AtHead(f) THEN NewPageNumber(f)
                         ELSE f.hdr.first_used_page,
     num_free_pages  |-> IF Reuses(f) THEN f.hdr.num_free_pages - 1 ELSE 0,
     first_free_page |-> f.hdr.first_free_page]

AllocateHeader(f) ==
    [num_pages       |-> f.hdr.num_pages + (IF Reuses(f) THEN 0 ELSE 1),
     first_used_page |-> IF AtHead(f) THEN NewPageNumber(f)
                         ELSE f.hdr.first_used_page,
     num_free_pages  |-> IF Reuses(f) THEN f.hdr.num_free_pages - 1 ELSE 0,
     first_free_page |-> IF Reuses(f) THEN f.page[NewPageNumber(f)].next
                         ELSE f.hdr.first_free_page]

\* The file after allocatePage: new page, redirected link, header.
Allocated(f) ==
    LET written == PutPage(f, NewPageNumber(f), NewPage(f))
        linked  == IF AtHead(f) THEN written
                   ELSE PutPage(written, Predecessor(f),
                            [f.page[Predecessor(f)] EXCEPT !.next = NewPageNumber(f)])
    IN  PutHeader(linked, AllocateHeader(f))

-----------------------------------------------------------------------------
(* writePage *)

\* "Page has been deleted since it was read."
WriteThrows(f, pg) == f.page[pg.num].num = NoPage

\* Mutant of Written: the copy's link, possibly out of date, is written too.
Written_WithLink(f, pg) == PutPage(f, pg.num, pg)

\* The copy's content reaches the disk, its link does not.
Written(f, pg) ==
    PutPage(f, pg.num, [pg EXCEPT !.next = f.page[pg.num].next])

-----------------------------------------------------------------------------
(* deletePage *)

DeletePredecessor(f, p) == WalkEnd(f, {q \in PageIds : f.page[q].next = p})

IsHead(f, p) == p = f.hdr.first_used_page

DeleteFails(f, p) ==
    \/ p \notin Readable(f)
    \/ ~IsHead(f, p) /\ DeletePredecessor(f, p) \notin Readable(f) \cup {NoPage}

DeleteHeader(f, p) ==
    [f.hdr EXCEPT !.first_used_page = IF IsHead(f, p) THEN f.page[p].next ELSE @,
                  !.num_free_pages  = @ + 1,
                  !.first_free_page = p]

\* Mutant of Deleted: the page before the deleted one keeps its link.
Deleted_StillLinked(f, p) ==
    PutHeader(PutPage(f, p, [FreshPage EXCEPT !.next = f.hdr.first_free_page]),
              DeleteHeader(f, p))

\* The file after deletePage: bypassing link, cleared page, header.
Deleted(f, p) ==
    LET prev     == DeletePredecessor(f, p)
        unlinked == IF IsHead(f, p) \/ prev = NoPage THEN f
                    ELSE PutPage(f, prev, [f.page[prev] EXCEPT !.next = f.page[p].next])
        cleared  == PutPage(unlinked, p,
                        [FreshPage EXCEPT !.next = f.hdr.first_free_page])
    IN  PutHeader(cleared, DeleteHeader(f, p))
=============================================================================
