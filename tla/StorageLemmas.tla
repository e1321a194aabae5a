---------------------------- MODULE StorageLemmas ----------------------------
(***************************************************************************)
(* Facts about the operators that the storage layers are built from, for   *)
(* every number of frames and pages: the closed form of the clock, and     *)
(* what the operations of class File keep true of a file.                  *)
(***************************************************************************)
EXTENDS FileOps, Clock, FiniteSetTheorems, TLAPS

(* Natural numbers *)

\* A set of natural numbers that is not empty has a least element.
LEMMA LeastNatural ==
    ASSUME NEW T \in SUBSET Nat, T # {}
    PROVE  \E x \in T : \A y \in T : x <= y
<1> DEFINE Below(x) == {y \in T : y <= x}
           Segments == {Below(x) : x \in T}
<1>1. Segments # {}
  OBVIOUS
<1>2. Segments \subseteq FiniteSubsetsOf(Nat)
  <2> SUFFICES ASSUME NEW x \in T PROVE Below(x) \in FiniteSubsetsOf(Nat)
    OBVIOUS
  <2>1. Below(x) \in SUBSET Nat /\ x \in Nat
    OBVIOUS
  <2>2. \A s \in Below(x) : s <= x
    OBVIOUS
  <2>3. IsFiniteSet(Below(x))
    BY <2>1, <2>2, FS_BoundedSetOfNaturals
  <2> QED
    BY <2>1, <2>3 DEF FiniteSubsetsOf
<1>3. PICK M \in Segments :
         \A U \in Segments : ~(<<U, M>> \in StrictSubsetOrdering(Nat))
  <2> HIDE DEF Segments
  <2> QED
    BY <1>1, <1>2, FS_StrictSubsetOrderingWellFounded, WFMin
<1>4. PICK x \in T : M = Below(x)
  BY <1>3
<1>5. ASSUME NEW y \in T, ~(x <= y) PROVE FALSE
  <2>1. x \in Nat /\ y \in Nat /\ y < x
    BY <1>5
  <2>2. Below(y) \subseteq Below(x)
    <3> SUFFICES ASSUME NEW s \in Below(y) PROVE s \in Below(x)
      OBVIOUS
    <3>1. s \in T /\ s \in Nat /\ s <= y
      OBVIOUS
    <3>2. s <= x
      <4> HIDE DEF Below
      <4> QED
        BY <2>1, <3>1
    <3> QED
      BY <3>1, <3>2
  <2>3. x \in Below(x) /\ x \notin Below(y)
    BY <2>1
  <2>4. Below(x) \in SUBSET Nat /\ Below(y) \in SUBSET Nat
    OBVIOUS
  <2>5. <<Below(y), Below(x)>> \in StrictSubsetOrdering(Nat)
    BY <2>2, <2>3, <2>4 DEF StrictSubsetOrdering
  <2> QED
    BY <2>5, <1>3, <1>4
<1> QED
  BY <1>5

\* Induction: a set that contains 0 and the successor of each of its numbers
\* contains every natural number.
LEMMA Induction ==
    ASSUME NEW S, 0 \in S, \A n \in Nat : n \in S => n + 1 \in S
    PROVE  Nat \subseteq S
<1> SUFFICES ASSUME Nat \ S # {} PROVE FALSE
  OBVIOUS
<1>1. PICK x \in Nat \ S : \A y \in Nat \ S : x <= y
  <2> DEFINE T == Nat \ S
  <2>1. T \in SUBSET Nat /\ T # {}
    OBVIOUS
  <2> HIDE DEF T
  <2>2. \E x \in T : \A y \in T : x <= y
    BY <2>1, LeastNatural
  <2> QED
    BY <2>2 DEF T
<1>2. x # 0 /\ x - 1 \in Nat
  BY <1>1
<1>3. x - 1 \in S
  BY <1>1, <1>2
<1>4. x = (x - 1) + 1
  BY <1>2
<1> QED
  BY <1>1, <1>2, <1>3, <1>4

\* Induction up to a bound.
LEMMA InductionUpTo ==
    ASSUME NEW N \in Nat, NEW S, 0 \in S,
           \A n \in 0..(N - 1) : n \in S => n + 1 \in S
    PROVE  0..N \subseteq S
<1> DEFINE T == {n \in Nat : n <= N => n \in S}
<1>1. 0 \in T
  OBVIOUS
<1>2. ASSUME NEW n \in Nat, n \in T PROVE n + 1 \in T
  <2>1. CASE n + 1 <= N
    <3>1. n \in 0..(N - 1) /\ n \in S
      BY <1>2, <2>1
    <3> QED
      BY <3>1
  <2>2. CASE ~(n + 1 <= N)
    BY <2>2
  <2> QED
    BY <2>1, <2>2
<1>3. Nat \subseteq T
  <2> HIDE DEF T
  <2> QED
    BY <1>1, <1>2, Induction
<1> QED
  BY <1>3

-----------------------------------------------------------------------------
(* Clock *)

\* The hand comes to every frame once in a turn, one advance after another.
LEMMA TurnsNext ==
    ASSUME NEW h \in Frames, NEW g \in Frames
    PROVE  /\ NextFrame(g) \in Frames
           /\ Turns(h, g) \in 1..NumBufs
           /\ Turns(h, h) = NumBufs
           /\ Turns(h, NextFrame(h)) = 1
           /\ g # h => Turns(h, NextFrame(g)) = Turns(h, g) + 1
           /\ \A f \in Frames : Turns(h, f) = Turns(h, g) => f = g
  BY NumBufsAssumption DEF NextFrame, Turns, Frames

\* If a frame is not busy, Victim is one, and the first one the hand meets.
LEMMA VictimIsFirst ==
    ASSUME NEW h \in Frames, NEW busy, Frames \ busy # {}
    PROVE  /\ Victim(h, busy) \in Frames \ busy
           /\ \A g \in Frames \ busy : Turns(h, Victim(h, busy)) <= Turns(h, g)
<1> DEFINE T == {Turns(h, f) : f \in Frames \ busy}
<1>1. T \in SUBSET Nat /\ T # {}
  BY NumBufsAssumption DEF Turns, Frames
<1>2. PICK t \in T : \A u \in T : t <= u
  <2> HIDE DEF T
  <2> QED
    BY <1>1, LeastNatural
<1>3. PICK f \in Frames \ busy : t = Turns(h, f)
  BY <1>2
<1>4. \A g \in Frames \ busy : Turns(h, f) <= Turns(h, g)
  BY <1>2, <1>3
<1> QED
  BY <1>4 DEF Victim

-----------------------------------------------------------------------------
(* What a file is made of *)

\* A page in use carries its own number.
Numbered(f) == \A p \in PageIds : f.page[p].num \in {NoPage, p}

\* The page numbers of a file are references, and so is none.
LEMMA PageNumbers == PageIds \subseteq PageRefs /\ NoPage \in PageRefs /\ NoPage \notin PageIds
  BY MaxPagesAssumption DEF PageIds, PageRefs, NoPage

\* What the parts of a file are.
LEMMA FileParts ==
    ASSUME NEW f \in FileImage
    PROVE  /\ f.hdr \in FileHeader
           /\ f.hdr.num_pages \in 1..(MaxPages + 1)
           /\ f.hdr.first_used_page \in PageRefs
           /\ f.hdr.num_free_pages \in Nat
           /\ f.hdr.first_free_page \in PageRefs
           /\ f.page \in [PageIds -> Page]
           /\ \A p \in PageIds : /\ f.page[p] \in Page
                                 /\ f.page[p].num \in PageRefs
                                 /\ f.page[p].next \in PageRefs
                                 /\ f.page[p].data \in Data
<1>1. f.hdr \in FileHeader /\ f.page \in [PageIds -> Page]
  BY DEF FileImage
<1>2. /\ f.hdr.num_pages \in 1..(MaxPages + 1)
      /\ f.hdr.first_used_page \in PageRefs
      /\ f.hdr.num_free_pages \in Nat
      /\ f.hdr.first_free_page \in PageRefs
  BY <1>1 DEF FileHeader
<1>3. \A p \in PageIds : f.page[p] \in Page
  BY <1>1
<1> QED
  BY <1>1, <1>2, <1>3 DEF Page

\* A new file is a file.
LEMMA NewFileType == NewFile \in FileImage /\ Numbered(NewFile)
  BY MaxPagesAssumption, EmptyDataAssumption
  DEF NewFile, FileImage, FileHeader, Page, FreshPage, PageIds, PageRefs, NoPage, Numbered

\* Storing a page keeps a file a file.
LEMMA PutPageType ==
    ASSUME NEW f \in FileImage, NEW p \in PageIds, NEW pg \in Page
    PROVE  /\ PutPage(f, p, pg) \in FileImage
           /\ PutPage(f, p, pg).hdr = f.hdr
           /\ PutPage(f, p, pg).page = [f.page EXCEPT ![p] = pg]
           /\ Numbered(f) /\ pg.num \in {NoPage, p} => Numbered(PutPage(f, p, pg))
  BY DEF PutPage, FileImage, Numbered

\* Storing a header keeps a file a file.
LEMMA PutHeaderType ==
    ASSUME NEW f \in FileImage, NEW h \in FileHeader
    PROVE  /\ PutHeader(f, h) \in FileImage
           /\ PutHeader(f, h).page = f.page
           /\ Numbered(f) => Numbered(PutHeader(f, h))
  BY DEF PutHeader, FileImage, Numbered

\* allocatePage keeps a file a file and hands out a page under its number.
LEMMA AllocatedType ==
    ASSUME NEW f \in FileImage, ~AllocateFails(f), NewPageNumber(f) \in PageIds
    PROVE  /\ Allocated(f) \in FileImage
           /\ NewPage(f) \in Page
           /\ NewPage(f).num = NewPageNumber(f)
           /\ Numbered(f) => Numbered(Allocated(f))
<1> DEFINE n == NewPageNumber(f)
           new == NewPage(f)
           prev == Predecessor(f)
           linkedPage == [f.page[prev] EXCEPT !.next = n]
           written == PutPage(f, n, new)
           linked == IF AtHead(f) THEN written ELSE PutPage(written, prev, linkedPage)
<1>0. /\ f.hdr \in FileHeader /\ f.page \in [PageIds -> Page]
      /\ PageIds \subseteq PageRefs /\ NoPage \in PageRefs
      /\ n \in PageIds
  BY PageNumbers, FileParts
<1>1. ~AtHead(f) => prev \in PageIds
  BY DEF AllocateFails, Readable
<1>2. NewPageNext(f) \in PageRefs
  <2>1. f.hdr.first_used_page \in PageRefs
    BY <1>0 DEF FileHeader
  <2>2. f.page[n].next \in PageRefs
    BY <1>0 DEF Page
  <2>3. ~AtHead(f) => f.page[prev].next \in PageRefs
    BY <1>0, <1>1 DEF Page
  <2> QED
    BY <1>0, <2>1, <2>2, <2>3 DEF NewPageNext
<1>3. new \in Page /\ new.num = n
  <2>1. (IF Reuses(f) THEN f.page[n].data ELSE EmptyData) \in Data
    BY <1>0, EmptyDataAssumption DEF Page
  <2> QED
    BY <1>0, <1>2, <2>1 DEF NewPage, Page
<1>4. written \in FileImage /\ (Numbered(f) => Numbered(written))
  BY <1>0, <1>3, PutPageType
<1>5. ~AtHead(f) => /\ linkedPage \in Page
                    /\ linkedPage.num = f.page[prev].num
  BY <1>0, <1>1 DEF Page
<1>6. linked \in FileImage /\ (Numbered(f) => Numbered(linked))
  <2>1. CASE AtHead(f)
    BY <1>4, <2>1
  <2>2. CASE ~AtHead(f)
    <3>1. Numbered(f) => linkedPage.num \in {NoPage, prev}
      BY <1>1, <1>5, <2>2 DEF Numbered
    <3> HIDE DEF written, linkedPage, prev, n, new
    <3> QED
      BY <1>1, <1>4, <1>5, <2>2, <3>1, PutPageType
  <2> QED
    BY <2>1, <2>2
<1>7. AllocateHeader(f) \in FileHeader
  <2>1. /\ f.hdr.num_pages \in 1..(MaxPages + 1) /\ f.hdr.first_used_page \in PageRefs
        /\ f.hdr.num_free_pages \in Nat /\ f.hdr.first_free_page \in PageRefs
        /\ f.page[n].next \in PageRefs
    BY <1>0 DEF FileHeader, Page
  <2>2. f.hdr.num_pages + (IF Reuses(f) THEN 0 ELSE 1) \in 1..(MaxPages + 1)
    <3>1. CASE Reuses(f)
      BY <2>1, <3>1
    <3>2. CASE ~Reuses(f)
      <4>1. n = f.hdr.num_pages
        BY <3>2 DEF NewPageNumber
      <4> QED
        BY <1>0, <2>1, <3>2, <4>1, MaxPagesAssumption DEF PageIds
    <3> QED
      BY <3>1, <3>2
  <2>3. (IF Reuses(f) THEN f.hdr.num_free_pages - 1 ELSE 0) \in Nat
    BY <2>1 DEF Reuses
  <2>4. (IF AtHead(f) THEN n ELSE f.hdr.first_used_page) \in PageRefs
    BY <1>0, <2>1
  <2>5. (IF Reuses(f) THEN f.page[n].next ELSE f.hdr.first_free_page) \in PageRefs
    BY <2>1
  <2> QED
    BY <2>2, <2>3, <2>4, <2>5 DEF AllocateHeader, FileHeader
<1>8. Allocated(f) = PutHeader(linked, AllocateHeader(f))
  BY DEF Allocated
<1> HIDE DEF linked
<1> QED
  BY <1>3, <1>6, <1>7, <1>8, PutHeaderType

\* deletePage keeps a file a file.
LEMMA DeletedType ==
    ASSUME NEW f \in FileImage, NEW p \in PageIds, ~DeleteFails(f, p)
    PROVE  /\ Deleted(f, p) \in FileImage
           /\ Numbered(f) => Numbered(Deleted(f, p))
<1> DEFINE prev == DeletePredecessor(f, p)
           bypass == [f.page[prev] EXCEPT !.next = f.page[p].next]
           unlinked == IF IsHead(f, p) \/ prev = NoPage THEN f ELSE PutPage(f, prev, bypass)
           blank == [FreshPage EXCEPT !.next = f.hdr.first_free_page]
           cleared == PutPage(unlinked, p, blank)
<1>0. /\ f.hdr \in FileHeader /\ f.page \in [PageIds -> Page]
      /\ PageIds \subseteq PageRefs /\ NoPage \in PageRefs
      /\ f.hdr.first_free_page \in PageRefs
  BY PageNumbers, FileParts
<1>1. ~(IsHead(f, p) \/ prev = NoPage) => prev \in PageIds
  BY DEF DeleteFails, Readable
<1>2. unlinked \in FileImage /\ (Numbered(f) => Numbered(unlinked))
  <2>1. CASE IsHead(f, p) \/ prev = NoPage
    BY <2>1
  <2>2. CASE ~(IsHead(f, p) \/ prev = NoPage)
    <3>1. bypass \in Page /\ bypass.num = f.page[prev].num
      BY <1>0, <1>1, <2>2 DEF Page
    <3>2. Numbered(f) => bypass.num \in {NoPage, prev}
      BY <1>1, <2>2, <3>1 DEF Numbered
    <3>3. unlinked = PutPage(f, prev, bypass)
      BY <2>2
    <3> HIDE DEF bypass, prev, unlinked
    <3> QED
      BY <1>1, <2>2, <3>1, <3>2, <3>3, PutPageType
  <2> QED
    BY <2>1, <2>2
<1>3. blank \in Page /\ blank.num = NoPage
  BY <1>0, EmptyDataAssumption DEF FreshPage, Page
<1>4. cleared \in FileImage /\ (Numbered(f) => Numbered(cleared))
  <2> HIDE DEF unlinked, blank
  <2> QED
    BY <1>2, <1>3, PutPageType
<1>5. DeleteHeader(f, p) \in FileHeader
  <2>1. (IF IsHead(f, p) THEN f.page[p].next ELSE f.hdr.first_used_page) \in PageRefs
    BY <1>0 DEF FileHeader, Page
  <2>2. f.hdr.num_free_pages + 1 \in Nat
    BY <1>0 DEF FileHeader
  <2> QED
    BY <1>0, <2>1, <2>2 DEF DeleteHeader, FileHeader
<1>6. Deleted(f, p) = PutHeader(cleared, DeleteHeader(f, p))
  BY DEF Deleted
<1> HIDE DEF cleared
<1> QED
  BY <1>4, <1>5, <1>6, PutHeaderType

\* writePage keeps a file a file, whatever copy is written.
LEMMA WrittenType ==
    ASSUME NEW f \in FileImage, NEW pg \in Page, pg.num \in PageIds
    PROVE  /\ Written(f, pg) \in FileImage
           /\ Numbered(f) => Numbered(Written(f, pg))
<1> DEFINE n == pg.num
           new == [pg EXCEPT !.next = f.page[n].next]
<1>1. new \in Page /\ new.num = n
  BY FileParts DEF Page
<1>2. Written(f, pg) = PutPage(f, n, new)
  BY DEF Written
<1>3. n \in PageIds
  OBVIOUS
<1>4. /\ PutPage(f, n, new) \in FileImage
      /\ Numbered(f) /\ new.num \in {NoPage, n} => Numbered(PutPage(f, n, new))
  <2> HIDE DEF new, n
  <2> QED
    BY <1>1, <1>3, PutPageType
<1>5. new.num \in {NoPage, n}
  BY <1>1
<1> HIDE DEF new, n
<1> QED
  BY <1>2, <1>4, <1>5

-----------------------------------------------------------------------------
(* Following links *)

\* The successor of a page reference is a page reference.
LEMMA SuccessorType ==
    ASSUME NEW f \in FileImage, NEW p \in PageRefs
    PROVE  Successor(f, p) \in PageRefs
<1>1. p # NoPage => p \in PageIds
  BY MaxPagesAssumption DEF PageIds, PageRefs, NoPage
<1> QED
  BY <1>1, FileParts, PageNumbers DEF Successor

\* Links can be followed any number of times.
LEMMA LinksExist ==
    ASSUME NEW f \in FileImage, NEW p \in PageRefs, NEW N \in Nat
    PROVE  \E at \in [0..N -> PageRefs] :
              /\ at[0] = p
              /\ \A k \in 1..N : at[k] = Successor(f, at[k - 1])
<1> DEFINE Path(n, at) == /\ at \in [0..n -> PageRefs]
                          /\ at[0] = p
                          /\ \A k \in 1..n : at[k] = Successor(f, at[k - 1])
           S == {n \in Nat : \E at : Path(n, at)}
<1>1. 0 \in S
  <2>1. Path(0, [k \in 0..0 |-> p])
    OBVIOUS
  <2> QED
    BY <2>1
<1>2. ASSUME NEW n \in Nat, n \in S PROVE n + 1 \in S
  <2>1. PICK at : Path(n, at)
    BY <1>2
  <2> DEFINE longer == [k \in 0..(n + 1) |-> IF k = n + 1 THEN Successor(f, at[n]) ELSE at[k]]
  <2>2. at[n] \in PageRefs /\ \A k \in 0..n : at[k] \in PageRefs
    BY <2>1
  <2>3. Successor(f, at[n]) \in PageRefs
    BY <2>2, SuccessorType
  <2>4. longer \in [0..(n + 1) -> PageRefs]
    <3> SUFFICES ASSUME NEW k \in 0..(n + 1) PROVE longer[k] \in PageRefs
      OBVIOUS
    <3>1. CASE k = n + 1
      BY <2>3, <3>1
    <3>2. CASE k # n + 1
      <4>1. k \in 0..n
        BY <3>2
      <4> QED
        BY <2>2, <3>2, <4>1
    <3> QED
      BY <3>1, <3>2
  <2>5. longer[0] = p
    BY <2>1
  <2>6. ASSUME NEW k \in 1..(n + 1) PROVE longer[k] = Successor(f, longer[k - 1])
    <3>1. k - 1 \in 0..n /\ k - 1 # n + 1 /\ longer[k - 1] = at[k - 1]
      OBVIOUS
    <3>2. CASE k = n + 1
      BY <3>1, <3>2
    <3>3. CASE k # n + 1
      <4>1. k \in 1..n
        BY <3>3
      <4> QED
        BY <2>1, <3>1, <3>3, <4>1
    <3> QED
      BY <3>2, <3>3
  <2>7. Path(n + 1, longer)
    BY <2>4, <2>5, <2>6
  <2>8. \E g : Path(n + 1, g)
    <3> HIDE DEF Path, longer
    <3> QED
      BY <2>7
  <2> QED
    BY <2>8
<1>3. N \in S
  <2> HIDE DEF S
  <2> QED
    BY <1>1, <1>2, Induction
<1> QED
  BY <1>3

\* The equations of LinksFrom.
LEMMA LinksSteps ==
    ASSUME NEW f \in FileImage, NEW p \in PageRefs
    PROVE  /\ LinksFrom(f, p) \in [0..MaxPages -> PageRefs]
           /\ LinksFrom(f, p)[0] = p
           /\ \A k \in 0..(MaxPages - 1) :
                 LinksFrom(f, p)[k + 1] = Successor(f, LinksFrom(f, p)[k])
<1> DEFINE Defined(g) ==
               g = [k \in 0..MaxPages |-> IF k = 0 THEN p ELSE Successor(f, g[k - 1])]
<1>1. PICK at \in [0..MaxPages -> PageRefs] :
         /\ at[0] = p
         /\ \A k \in 1..MaxPages : at[k] = Successor(f, at[k - 1])
  BY LinksExist, MaxPagesAssumption
<1>2. Defined(at)
  <2>1. ASSUME NEW k \in 0..MaxPages
        PROVE  at[k] = IF k = 0 THEN p ELSE Successor(f, at[k - 1])
    BY <1>1
  <2> QED
    BY <1>1, <2>1
<1>3. LinksFrom(f, p) = CHOOSE g : Defined(g)
  BY DEF LinksFrom
<1>4. Defined(LinksFrom(f, p))
  <2> HIDE DEF Defined
  <2> QED
    BY <1>2, <1>3
<1> DEFINE g == LinksFrom(f, p)
<1>5. g = [k \in 0..MaxPages |-> IF k = 0 THEN p ELSE Successor(f, g[k - 1])]
  BY <1>4
<1> HIDE DEF g
<1>6. g[0] = p
  BY <1>5, MaxPagesAssumption
<1>7. \A k \in 0..(MaxPages - 1) : g[k + 1] = Successor(f, g[k])
  <2> SUFFICES ASSUME NEW k \in 0..(MaxPages - 1)
               PROVE  g[k + 1] = Successor(f, g[k])
    OBVIOUS
  <2>1. k + 1 \in 0..MaxPages /\ k + 1 # 0 /\ (k + 1) - 1 = k
    BY MaxPagesAssumption
  <2> QED
    BY <1>5, <2>1
<1>8. g \in [0..MaxPages -> PageRefs]
  <2> DEFINE S == {k \in 0..MaxPages : g[k] \in PageRefs}
  <2>1. 0 \in S
    BY <1>6, MaxPagesAssumption
  <2>2. ASSUME NEW k \in 0..(MaxPages - 1), k \in S PROVE k + 1 \in S
    BY <1>7, <2>2, SuccessorType, MaxPagesAssumption
  <2>3. 0..MaxPages \subseteq S
    <3> HIDE DEF S
    <3> QED
      BY <2>1, <2>2, InductionUpTo, MaxPagesAssumption
  <2> QED
    BY <1>5, <2>3
<1> QED
  BY <1>6, <1>7, <1>8 DEF g

\* Links followed from the second page on are the same ones, one place later.
LEMMA LinksShift ==
    ASSUME NEW f \in FileImage, NEW p \in PageRefs
    PROVE  \A k \in 0..(MaxPages - 1) :
              LinksFrom(f, Successor(f, p))[k] = LinksFrom(f, p)[k + 1]
<1> DEFINE a == LinksFrom(f, p)
           b == LinksFrom(f, Successor(f, p))
           S == {k \in Nat : k <= MaxPages - 1 => b[k] = a[k + 1]}
<1>1. /\ a[0] = p /\ b[0] = Successor(f, p)
      /\ \A k \in 0..(MaxPages - 1) : a[k + 1] = Successor(f, a[k])
      /\ \A k \in 0..(MaxPages - 1) : b[k + 1] = Successor(f, b[k])
  BY LinksSteps, SuccessorType
<1> HIDE DEF a, b
<1>2. 0 \in S
  BY <1>1, MaxPagesAssumption
<1>3. ASSUME NEW k \in Nat, k \in S PROVE k + 1 \in S
  <2> SUFFICES ASSUME k + 1 <= MaxPages - 1 PROVE b[k + 1] = a[(k + 1) + 1]
    OBVIOUS
  <2>1. k \in 0..(MaxPages - 1) /\ k + 1 \in 0..(MaxPages - 1) /\ b[k] = a[k + 1]
    BY <1>3, MaxPagesAssumption
  <2> QED
    BY <1>1, <2>1
<1>4. Nat \subseteq S
  <2> HIDE DEF S
  <2> QED
    BY <1>2, <1>3, Induction
<1> QED
  BY <1>4, MaxPagesAssumption DEF a, b

\* Two files in which the pages that are met have the same links.
LEMMA LinksAgree ==
    ASSUME NEW f \in FileImage, NEW g \in FileImage, NEW p \in PageRefs,
           NEW n \in 0..MaxPages,
           \A k \in 0..(n - 1) :
               Successor(g, LinksFrom(f, p)[k]) = Successor(f, LinksFrom(f, p)[k])
    PROVE  \A k \in 0..n : LinksFrom(g, p)[k] = LinksFrom(f, p)[k]
<1> DEFINE a == LinksFrom(f, p)
           b == LinksFrom(g, p)
           S == {k \in 0..n : b[k] = a[k]}
<1>1. /\ a[0] = p /\ b[0] = p
      /\ \A k \in 0..(MaxPages - 1) : a[k + 1] = Successor(f, a[k])
      /\ \A k \in 0..(MaxPages - 1) : b[k + 1] = Successor(g, b[k])
  BY LinksSteps
<1>0. \A k \in 0..(n - 1) : Successor(g, a[k]) = Successor(f, a[k])
  OBVIOUS
<1> HIDE DEF a, b
<1>2. 0 \in S
  BY <1>1, MaxPagesAssumption
<1>3. ASSUME NEW k \in 0..(n - 1), k \in S PROVE k + 1 \in S
  <2>1. k \in 0..(MaxPages - 1) /\ k + 1 \in 0..n /\ b[k] = a[k]
    BY <1>3, MaxPagesAssumption
  <2> QED
    BY <1>0, <1>1, <2>1
<1>4. n \in Nat
  BY MaxPagesAssumption
<1>5. 0..n \subseteq S
  <2> HIDE DEF S
  <2> QED
    BY <1>2, <1>3, <1>4, InductionUpTo
<1> QED
  BY <1>5 DEF a, b

-----------------------------------------------------------------------------
(* Where a walk along the used list ends *)

\* A walk that ends has passed readable pages, none of them of Stop, and ends
\* at something else.
LEMMA WalkStops ==
    ASSUME NEW f \in FileImage, NEW Stop, WalkEnd(f, Stop) # Endless
    PROVE  \E k \in 0..MaxPages :
              /\ WalkEnd(f, Stop) = Chain(f)[k]
              /\ Chain(f)[k] \notin Readable(f) \ Stop
              /\ \A j \in 0..(k - 1) : Chain(f)[j] \in Readable(f) \ Stop
<1> DEFINE at == Chain(f)
           Ends(k) == at[k] \notin Readable(f) \ Stop
           First(k) == Ends(k) /\ \A j \in 0..(k - 1) : ~Ends(j)
           T == {k \in 0..MaxPages : Ends(k)}
<1>1. /\ T # {}
      /\ WalkEnd(f, Stop) = at[CHOOSE k \in 0..MaxPages : First(k)]
  BY DEF WalkEnd
<1>2. PICK k \in T : \A j \in T : k <= j
  <2>1. T \in SUBSET Nat
    BY MaxPagesAssumption
  <2> HIDE DEF T
  <2> QED
    BY <1>1, <2>1, LeastNatural
<1>3. k \in 0..MaxPages /\ First(k)
  <2> SUFFICES ASSUME NEW j \in 0..(k - 1), Ends(j) PROVE FALSE
    BY <1>2
  <2>1. j \in T
    BY <1>2, MaxPagesAssumption
  <2>2. k <= j
    BY <1>2, <2>1
  <2> QED
    BY <1>2, <2>2, MaxPagesAssumption
<1> DEFINE m == CHOOSE k_1 \in 0..MaxPages : First(k_1)
<1>4. m \in 0..MaxPages /\ First(m)
  <2> HIDE DEF First
  <2> QED
    BY <1>3
<1>5. WalkEnd(f, Stop) = at[m]
  BY <1>1
<1> HIDE DEF m
<1> QED
  BY <1>4, <1>5

\* A walk that ends at a readable page ends at the first page of the list, or
\* comes to it by the link of a readable page that is not of Stop; either way
\* the page is of Stop.
LEMMA WalkFinds ==
    ASSUME NEW f \in FileImage, NEW Stop, WalkEnd(f, Stop) \in Readable(f)
    PROVE  /\ WalkEnd(f, Stop) \in Stop
           /\ \/ WalkEnd(f, Stop) = f.hdr.first_used_page
              \/ \E q \in Readable(f) \ Stop : f.page[q].next = WalkEnd(f, Stop)
<1> DEFINE x == WalkEnd(f, Stop)
           at == Chain(f)
<1>1. x \in PageIds /\ x # Endless
  BY MaxPagesAssumption DEF Readable, PageIds, Endless
<1>2. PICK k \in 0..MaxPages :
         /\ x = at[k]
         /\ at[k] \notin Readable(f) \ Stop
         /\ \A j \in 0..(k - 1) : at[j] \in Readable(f) \ Stop
  BY <1>1, WalkStops
<1>3. f.hdr.first_used_page \in PageRefs
  BY FileParts
<1>4. /\ at[0] = f.hdr.first_used_page
      /\ \A j \in 0..(MaxPages - 1) : at[j + 1] = Successor(f, at[j])
  BY <1>3, LinksSteps DEF Chain
<1>5. x \in Readable(f)
  OBVIOUS
<1> HIDE DEF x, at
<1>6. CASE k = 0
  BY <1>2, <1>4, <1>5, <1>6 DEF x
<1>7. CASE k # 0
  <2>1. k - 1 \in 0..(k - 1) /\ k - 1 \in 0..(MaxPages - 1) /\ (k - 1) + 1 = k
    BY <1>7, MaxPagesAssumption
  <2>2. at[k - 1] \in Readable(f) \ Stop /\ at[k] = Successor(f, at[k - 1])
    BY <1>2, <1>4, <2>1
  <2>3. at[k - 1] # NoPage
    BY <2>2, PageNumbers DEF Readable
  <2>4. f.page[at[k - 1]].next = x
    BY <1>2, <2>2, <2>3 DEF Successor
  <2> QED
    BY <1>2, <1>5, <2>2, <2>4 DEF x
<1> QED
  BY <1>6, <1>7

-----------------------------------------------------------------------------
(* The used list *)

\* n is the next member of U after p, or NoPage when there is none.
Follows(U, p, n) ==
    IF n = NoPage THEN \A q \in U : q <= p
    ELSE n \in U /\ p < n /\ \A q \in U : q <= p \/ n <= q

\* The header and the used pages each link to the next page in use.
Linked(f) ==
    /\ Follows(InUse(f), NoPage, f.hdr.first_used_page)
    /\ \A p \in InUse(f) : Follows(InUse(f), p, f.page[p].next)

\* A page in use is one that num_pages covers.
Bounded(f) == \A p \in InUse(f) : p < f.hdr.num_pages

\* The iterator meets exactly the pages in use, in ascending order.
UsedExact(f) ==
    /\ {Chain(f)[k] : k \in 0..MaxPages} \ {NoPage} = InUse(f)
    /\ Chain(f)[MaxPages] = NoPage
    /\ \A p \in InUse(f) :
          /\ f.page[p].num = p
          /\ f.page[p].next = NoPage \/ f.page[p].next > p

\* The pages that were deleted and not handed out again.
FreePages(f) == {p \in PageIds \ InUse(f) : p < f.hdr.num_pages}

\* The page numbers met from the head of the free list on.
FreeChain(f) == LinksFrom(f, f.hdr.first_free_page)

\* The free list holds exactly the free pages, each once, cleared.
FreeExact(f) ==
    /\ f.hdr.num_free_pages \in 0..MaxPages
    /\ {FreeChain(f)[k] : k \in 0..(f.hdr.num_free_pages - 1)} = FreePages(f)
    /\ \A j, k \in 0..(f.hdr.num_free_pages - 1) :
          FreeChain(f)[j] = FreeChain(f)[k] => j = k
    /\ FreeChain(f)[f.hdr.num_free_pages] = NoPage
    /\ \A p \in FreePages(f) : f.page[p].data = EmptyData

\* What readPage accepts is what is in use.
LEMMA ReadableIsInUse ==
    ASSUME NEW f \in FileImage, Bounded(f)
    PROVE  Readable(f) = InUse(f)
  BY DEF Bounded, Readable, InUse

\* A page between a member and its successor takes the place of both.
LEMMA FollowsInsert ==
    ASSUME NEW U \in SUBSET (Nat \ {0}), NEW n \in Nat \ {0}, n \notin U,
           NEW q \in U \cup {0}, q < n,
           NEW x \in Nat, Follows(U, q, x), x = NoPage \/ x > n
    PROVE  /\ Follows(U \cup {n}, q, n)
           /\ Follows(U \cup {n}, n, x)
           /\ \A r \in U \cup {0}, y \in Nat :
                 r # q /\ Follows(U, r, y) => Follows(U \cup {n}, r, y)
<1>1. \A s \in U : s <= q \/ n < s
  BY DEF Follows, NoPage
<1>2. Follows(U \cup {n}, q, n)
  BY <1>1 DEF Follows, NoPage
<1>3. Follows(U \cup {n}, n, x)
  BY <1>1 DEF Follows, NoPage
<1>4. ASSUME NEW r \in U \cup {0}, NEW y \in Nat, r # q, Follows(U, r, y)
      PROVE  Follows(U \cup {n}, r, y)
  <2>1. CASE r < q
    <3>1. q \in U /\ y # NoPage /\ y <= q
      BY <1>4, <2>1 DEF Follows, NoPage
    <3> QED
      BY <1>4, <3>1 DEF Follows
  <2>2. CASE q < r
    <3>1. r \in U /\ n < r
      BY <1>1, <2>2
    <3> QED
      BY <1>4, <3>1 DEF Follows
  <2> QED
    BY <1>4, <2>1, <2>2
<1> QED
  BY <1>2, <1>3, <1>4

\* A member that goes leaves its successor to the one before it.
LEMMA FollowsRemove ==
    ASSUME NEW U \in SUBSET (Nat \ {0}), NEW p \in U,
           NEW q \in U \cup {0}, Follows(U, q, p),
           NEW x \in Nat, Follows(U, p, x)
    PROVE  /\ Follows(U \ {p}, q, x)
           /\ \A r \in (U \ {p}) \cup {0}, y \in Nat :
                 r # q /\ Follows(U, r, y) => Follows(U \ {p}, r, y)
<1>1. q < p /\ \A s \in U : s <= q \/ p <= s
  BY DEF Follows, NoPage
<1>2. Follows(U \ {p}, q, x)
  BY <1>1 DEF Follows, NoPage
<1>3. ASSUME NEW r \in (U \ {p}) \cup {0}, NEW y \in Nat, r # q, Follows(U, r, y)
      PROVE  Follows(U \ {p}, r, y)
  <2>1. y # p
    <3> SUFFICES ASSUME y = p PROVE FALSE
      OBVIOUS
    <3>1. r < p /\ \A s \in U : s <= r \/ p <= s
      BY <1>3 DEF Follows, NoPage
    <3> QED
      BY <1>1, <1>3, <3>1
  <2> QED
    BY <1>3, <2>1 DEF Follows
<1> QED
  BY <1>2, <1>3

\* The next page allocatePage hands out is not in use.
LEMMA NewNumberIsFree ==
    ASSUME NEW f \in FileImage, FreeExact(f), Bounded(f), NewPageNumber(f) \in PageIds
    PROVE  /\ NewPageNumber(f) \notin InUse(f)
           /\ f.page[NewPageNumber(f)].num = NoPage
           /\ NewPage(f).data = EmptyData
           /\ Reuses(f) => NewPageNumber(f) < f.hdr.num_pages
<1> DEFINE n == NewPageNumber(f)
           at == FreeChain(f)
<1>1. CASE Reuses(f)
  <2>1. n = f.hdr.first_free_page /\ f.hdr.num_free_pages > 0
    BY <1>1 DEF NewPageNumber, Reuses
  <2>2. at[0] = f.hdr.first_free_page
    BY FileParts, LinksSteps DEF FreeChain
  <2>3. 0 \in 0..(f.hdr.num_free_pages - 1)
    BY <2>1, FileParts
  <2>4. n \in FreePages(f)
    BY <2>1, <2>2, <2>3 DEF FreeExact
  <2>5. f.page[n].data = EmptyData
    BY <2>4 DEF FreeExact
  <2> QED
    BY <1>1, <2>4, <2>5 DEF FreePages, InUse, NewPage
<1>2. CASE ~Reuses(f)
  <2>1. n = f.hdr.num_pages
    BY <1>2 DEF NewPageNumber
  <2>2. n \notin InUse(f)
    BY <2>1, FileParts DEF Bounded
  <2> QED
    BY <1>2, <2>2 DEF InUse, NewPage
<1> QED
  BY <1>1, <1>2

\* What allocatePage leaves of the other pages: all but the link of the page
\* before the new one.
LEMMA AllocatedParts ==
    ASSUME NEW f \in FileImage, ~AllocateFails(f), NewPageNumber(f) \in PageIds,
           f.page[NewPageNumber(f)].num = NoPage
    PROVE  /\ Allocated(f).hdr = AllocateHeader(f)
           /\ Allocated(f).page[NewPageNumber(f)] = NewPage(f)
           /\ \A p \in PageIds \ {NewPageNumber(f)} :
                 /\ Allocated(f).page[p].num = f.page[p].num
                 /\ Allocated(f).page[p].data = f.page[p].data
                 /\ Allocated(f).page[p].next =
                       IF ~AtHead(f) /\ p = Predecessor(f)
                       THEN NewPageNumber(f) ELSE f.page[p].next
           /\ InUse(Allocated(f)) = InUse(f) \cup {NewPageNumber(f)}
<1> DEFINE n == NewPageNumber(f)
           new == NewPage(f)
           prev == Predecessor(f)
           linkedPage == [f.page[prev] EXCEPT !.next = n]
           written == PutPage(f, n, new)
           linked == IF AtHead(f) THEN written ELSE PutPage(written, prev, linkedPage)
           g == Allocated(f)
<1>0. n \in PageIds /\ f.page[n].num = NoPage
  OBVIOUS
<1>1. ~AtHead(f) => prev \in PageIds /\ prev # n /\ f.page[prev] \in Page
  BY FileParts DEF AllocateFails, Readable
<1>2. new \in Page /\ new.num = n
  BY AllocatedType
<1>3. written \in FileImage /\ written.page = [f.page EXCEPT ![n] = new]
  <2> HIDE DEF n, new
  <2> QED
    BY <1>0, <1>2, PutPageType DEF written
<1>4. ~AtHead(f) => /\ linkedPage \in Page
                    /\ linkedPage.num = f.page[prev].num
                    /\ linkedPage.data = f.page[prev].data
                    /\ linkedPage.next = n
  BY <1>0, <1>1, PageNumbers DEF Page
<1>5. /\ linked \in FileImage
      /\ linked.page = IF AtHead(f) THEN written.page
                       ELSE [written.page EXCEPT ![prev] = linkedPage]
  <2> HIDE DEF written, linkedPage, prev
  <2> QED
    BY <1>1, <1>3, <1>4, PutPageType DEF linked
<1>6. g = PutHeader(linked, AllocateHeader(f))
  BY DEF Allocated
<1>7. g.hdr = AllocateHeader(f) /\ g.page = linked.page
  <2> HIDE DEF linked, g
  <2> QED
    BY <1>5, <1>6 DEF PutHeader, FileImage
<1>8. f.page \in [PageIds -> Page] /\ written.page \in [PageIds -> Page]
  BY <1>3, FileParts
<1> HIDE DEF g, linked, written, linkedPage, prev, new, n
<1>9. g.page[n] = new
  BY <1>0, <1>1, <1>3, <1>5, <1>7, <1>8
<1>10. ASSUME NEW p \in PageIds \ {n}
       PROVE  g.page[p] = IF ~AtHead(f) /\ p = prev THEN linkedPage ELSE f.page[p]
  BY <1>1, <1>3, <1>5, <1>7, <1>8
<1>11. ASSUME NEW p \in PageIds \ {n}
       PROVE  /\ g.page[p].num = f.page[p].num
              /\ g.page[p].data = f.page[p].data
              /\ g.page[p].next = IF ~AtHead(f) /\ p = prev THEN n ELSE f.page[p].next
  BY <1>4, <1>10
<1>12. InUse(g) = InUse(f) \cup {n}
  <2>1. g.page[n].num # NoPage
    BY <1>0, <1>2, <1>9, PageNumbers
  <2> QED
    BY <1>0, <1>11, <2>1 DEF InUse
<1> QED
  BY <1>7, <1>9, <1>11, <1>12 DEF g, n, new, prev

\* What deletePage leaves of the other pages: all but the link of the page
\* before the deleted one.
LEMMA DeletedParts ==
    ASSUME NEW f \in FileImage, NEW p \in PageIds, ~DeleteFails(f, p)
    PROVE  /\ Deleted(f, p).hdr = DeleteHeader(f, p)
           /\ Deleted(f, p).page[p] = [FreshPage EXCEPT !.next = f.hdr.first_free_page]
           /\ \A q \in PageIds \ {p} :
                 /\ Deleted(f, p).page[q].num = f.page[q].num
                 /\ Deleted(f, p).page[q].data = f.page[q].data
                 /\ Deleted(f, p).page[q].next =
                       IF ~IsHead(f, p) /\ q = DeletePredecessor(f, p)
                       THEN f.page[p].next ELSE f.page[q].next
           /\ InUse(Deleted(f, p)) = InUse(f) \ {p}
<1> DEFINE prev == DeletePredecessor(f, p)
           bypass == [f.page[prev] EXCEPT !.next = f.page[p].next]
           unlinked == IF IsHead(f, p) \/ prev = NoPage THEN f ELSE PutPage(f, prev, bypass)
           blank == [FreshPage EXCEPT !.next = f.hdr.first_free_page]
           cleared == PutPage(unlinked, p, blank)
           g == Deleted(f, p)
           Relinks == ~(IsHead(f, p) \/ prev = NoPage)
<1>1. Relinks => prev \in PageIds /\ f.page[prev] \in Page
  BY FileParts DEF DeleteFails, Readable
<1>2. Relinks => /\ bypass \in Page
                 /\ bypass.num = f.page[prev].num
                 /\ bypass.data = f.page[prev].data
                 /\ bypass.next = f.page[p].next
  BY <1>1, FileParts DEF Page
<1>3. blank \in Page /\ blank.num = NoPage
  BY FileParts, EmptyDataAssumption, PageNumbers DEF FreshPage, Page
<1>4. /\ unlinked \in FileImage
      /\ unlinked.page = IF Relinks THEN [f.page EXCEPT ![prev] = bypass] ELSE f.page
  <2> HIDE DEF bypass, prev
  <2> QED
    BY <1>1, <1>2, PutPageType DEF unlinked
<1>5. cleared \in FileImage /\ cleared.page = [unlinked.page EXCEPT ![p] = blank]
  <2> HIDE DEF unlinked, blank
  <2> QED
    BY <1>3, <1>4, PutPageType DEF cleared
<1>6. g = PutHeader(cleared, DeleteHeader(f, p))
  BY DEF Deleted
<1>7. g.hdr = DeleteHeader(f, p) /\ g.page = cleared.page
  <2> HIDE DEF cleared, g
  <2> QED
    BY <1>5, <1>6 DEF PutHeader, FileImage
<1>8. f.page \in [PageIds -> Page] /\ unlinked.page \in [PageIds -> Page]
  BY <1>4, FileParts
<1> HIDE DEF g, cleared, unlinked, bypass, blank
<1>9. g.page[p] = blank
  BY <1>5, <1>7, <1>8
<1>10. ASSUME NEW q \in PageIds \ {p}
       PROVE  g.page[q] = IF Relinks /\ q = prev THEN bypass ELSE f.page[q]
  BY <1>1, <1>4, <1>5, <1>7, <1>8
<1>11. ASSUME NEW q \in PageIds \ {p}
       PROVE  /\ g.page[q].num = f.page[q].num
              /\ g.page[q].data = f.page[q].data
              /\ g.page[q].next = IF ~IsHead(f, p) /\ q = prev
                                  THEN f.page[p].next ELSE f.page[q].next
  <2>1. q # NoPage
    BY PageNumbers
  <2> QED
    BY <1>2, <1>10, <2>1
<1>12. InUse(g) = InUse(f) \ {p}
  BY <1>3, <1>9, <1>11 DEF InUse
<1> QED
  BY <1>7, <1>9, <1>11, <1>12 DEF g, blank

\* What writePage leaves of a file: everything but the content of one page.
LEMMA WrittenParts ==
    ASSUME NEW f \in FileImage, NEW pg \in Page, pg.num \in PageIds, ~WriteThrows(f, pg)
    PROVE  /\ Written(f, pg).hdr = f.hdr
           /\ \A p \in PageIds :
                 /\ Written(f, pg).page[p].num = IF p = pg.num THEN p ELSE f.page[p].num
                 /\ Written(f, pg).page[p].next = f.page[p].next
                 /\ Written(f, pg).page[p].data =
                       IF p = pg.num THEN pg.data ELSE f.page[p].data
           /\ InUse(Written(f, pg)) = InUse(f)
<1> DEFINE n == pg.num
           new == [pg EXCEPT !.next = f.page[n].next]
           g == Written(f, pg)
<1>1. /\ new \in Page /\ new.num = n /\ new.data = pg.data
      /\ new.next = f.page[n].next
  BY FileParts DEF Page
<1>2. g = PutPage(f, n, new)
  BY DEF Written
<1>3. n \in PageIds /\ f.page \in [PageIds -> Page] /\ f.page[n].num # NoPage
  BY FileParts DEF WriteThrows
<1> HIDE DEF new, n, g
<1>4. g.hdr = f.hdr /\ g.page = [f.page EXCEPT ![n] = new]
  BY <1>1, <1>2, <1>3, PutPageType
<1>5. ASSUME NEW p \in PageIds
      PROVE  g.page[p] = IF p = n THEN new ELSE f.page[p]
  BY <1>3, <1>4
<1>6. InUse(g) = InUse(f)
  BY <1>1, <1>3, <1>5, PageNumbers DEF InUse
<1> QED
  BY <1>1, <1>4, <1>5, <1>6 DEF g, n

-----------------------------------------------------------------------------
(* The free list: no operation leaks a free page or lists it twice *)

\* The free list of a new file is empty.
LEMMA NewFileFree == FreeExact(NewFile) /\ Bounded(NewFile) /\ InUse(NewFile) = {}
<1>1. NewFile \in FileImage /\ InUse(NewFile) = {} /\ FreePages(NewFile) = {}
  BY NewFileType DEF NewFile, FreshPage, InUse, FreePages, PageIds, NoPage
<1>2. NewFile.hdr.num_free_pages = 0 /\ NewFile.hdr.first_free_page = NoPage
  BY DEF NewFile
<1>3. FreeChain(NewFile)[0] = NoPage
  BY <1>1, <1>2, LinksSteps, PageNumbers DEF FreeChain
<1> HIDE DEF NewFile
<1> QED
  BY <1>1, <1>2, <1>3, MaxPagesAssumption DEF FreeExact, Bounded

\* The free pages of a file in which only pages in use were relinked are
\* listed as before.
LEMMA FreeChainKept ==
    ASSUME NEW f \in FileImage, NEW g \in FileImage, FreeExact(f),
           \A p \in FreePages(f) : g.page[p].next = f.page[p].next
    PROVE  \A k \in 0..f.hdr.num_free_pages :
              LinksFrom(g, f.hdr.first_free_page)[k] = FreeChain(f)[k]
<1> DEFINE at == FreeChain(f)
           m == f.hdr.num_free_pages
<1>1. m \in 0..MaxPages /\ f.hdr.first_free_page \in PageRefs
  BY FileParts DEF FreeExact
<1>2. ASSUME NEW k \in 0..(m - 1) PROVE Successor(g, at[k]) = Successor(f, at[k])
  <2>1. at[k] \in FreePages(f)
    BY DEF FreeExact
  <2> QED
    BY <2>1 DEF Successor
<1> QED
  BY <1>1, <1>2, LinksAgree DEF FreeChain

\* allocatePage takes the first free page off the list, or leaves the list
\* alone.
LEMMA AllocatedFree ==
    ASSUME NEW f \in FileImage, FreeExact(f), Bounded(f),
           ~AllocateFails(f), NewPageNumber(f) \in PageIds
    PROVE  FreeExact(Allocated(f)) /\ Bounded(Allocated(f))
<1> DEFINE n == NewPageNumber(f)
           g == Allocated(f)
           at == FreeChain(f)
           m == f.hdr.num_free_pages
           head == f.hdr.first_free_page
<1>0. g \in FileImage /\ n \in PageIds /\ n \notin InUse(f)
  BY AllocatedType, NewNumberIsFree
<1>1. /\ g.hdr = AllocateHeader(f)
      /\ \A p \in PageIds \ {n} :
            /\ g.page[p].data = f.page[p].data
            /\ g.page[p].next = IF ~AtHead(f) /\ p = Predecessor(f)
                                THEN n ELSE f.page[p].next
      /\ InUse(g) = InUse(f) \cup {n}
  BY AllocatedParts, NewNumberIsFree
<1>2. /\ m \in 0..MaxPages /\ head \in PageRefs /\ f.hdr.num_pages \in Nat
      /\ {at[k] : k \in 0..(m - 1)} = FreePages(f)
      /\ \A j, k \in 0..(m - 1) : at[j] = at[k] => j = k
      /\ at[m] = NoPage
      /\ \A p \in FreePages(f) : f.page[p].data = EmptyData
  BY FileParts DEF FreeExact
<1>3. /\ at \in [0..MaxPages -> PageRefs]
      /\ at[0] = head
      /\ \A k \in 0..(MaxPages - 1) : at[k + 1] = Successor(f, at[k])
  BY <1>2, LinksSteps DEF FreeChain
<1>4. \A p \in FreePages(f) \ {n} : /\ g.page[p].next = f.page[p].next
                                    /\ g.page[p].data = f.page[p].data
  <2>1. ~AtHead(f) => Predecessor(f) \in InUse(f)
    BY DEF AllocateFails, Readable, InUse
  <2> QED
    BY <1>1, <2>1 DEF FreePages
<1>5. Bounded(g)
  <2>1. n < g.hdr.num_pages /\ f.hdr.num_pages <= g.hdr.num_pages
    <3>1. CASE Reuses(f)
      BY <1>1, <1>2, <3>1, NewNumberIsFree DEF AllocateHeader
    <3>2. CASE ~Reuses(f)
      BY <1>1, <1>2, <3>2 DEF AllocateHeader, NewPageNumber
    <3> QED
      BY <3>1, <3>2
  <2>2. \A p \in InUse(f) : p \in Nat /\ p < f.hdr.num_pages
    BY MaxPagesAssumption DEF Bounded, InUse, PageIds
  <2>3. g.hdr.num_pages \in Nat /\ n \in Nat
    BY <1>0, FileParts, MaxPagesAssumption DEF PageIds
  <2> QED
    BY <1>1, <1>2, <2>1, <2>2, <2>3 DEF Bounded
<1>6. CASE Reuses(f)
  <2>1. n = head /\ m > 0 /\ n < f.hdr.num_pages
    BY <1>6, NewNumberIsFree DEF NewPageNumber, Reuses
  <2>2. /\ g.hdr.num_pages = f.hdr.num_pages
        /\ g.hdr.num_free_pages = m - 1
        /\ g.hdr.first_free_page = Successor(f, head)
    <3>1. head # NoPage
      BY <1>0, <2>1, PageNumbers
    <3> QED
      BY <1>1, <1>2, <1>6, <2>1, <3>1 DEF AllocateHeader, Successor
  <2>3. FreePages(g) = FreePages(f) \ {n}
    BY <1>1, <2>2 DEF FreePages
  <2> DEFINE first == Successor(f, head)
  <2>4. first \in PageRefs
    BY <1>2, SuccessorType
  <2>5. \A k \in 0..(MaxPages - 1) : LinksFrom(f, first)[k] = at[k + 1]
    BY <1>2, LinksShift DEF FreeChain
  <2>6. \A k \in 0..(m - 1) : FreeChain(g)[k] = at[k + 1]
    <3>1. ASSUME NEW k \in 0..((m - 1) - 1)
          PROVE  Successor(g, LinksFrom(f, first)[k]) = Successor(f, LinksFrom(f, first)[k])
      <4>1. LinksFrom(f, first)[k] = at[k + 1] /\ k + 1 \in 0..(m - 1) /\ 0 \in 0..(m - 1)
        BY <1>2, <2>5, MaxPagesAssumption
      <4>2. at[k + 1] \in FreePages(f) /\ at[k + 1] # at[0]
        BY <1>2, <4>1
      <4> QED
        BY <1>3, <1>4, <2>1, <4>1, <4>2 DEF Successor
    <3>2. m - 1 \in 0..MaxPages
      BY <1>2, <2>1, MaxPagesAssumption
    <3>3. \A k \in 0..(m - 1) : LinksFrom(g, first)[k] = LinksFrom(f, first)[k]
      BY <1>0, <2>4, <3>1, <3>2, LinksAgree
    <3>4. \A k \in 0..(m - 1) : k \in 0..(MaxPages - 1)
      BY <1>2, MaxPagesAssumption
    <3> QED
      BY <2>2, <2>5, <3>3, <3>4 DEF FreeChain
  <2>7. {FreeChain(g)[k] : k \in 0..((m - 1) - 1)} = FreePages(g)
    <3>1. ASSUME NEW k \in 0..((m - 1) - 1) PROVE FreeChain(g)[k] \in FreePages(g)
      <4>1. k \in 0..(m - 1) /\ k + 1 \in 0..(m - 1) /\ 0 \in 0..(m - 1) /\ k + 1 # 0
        BY <1>2
      <4> QED
        BY <1>2, <1>3, <2>1, <2>3, <2>6, <4>1
    <3>2. ASSUME NEW p \in FreePages(g) PROVE \E k \in 0..((m - 1) - 1) : FreeChain(g)[k] = p
      <4>1. PICK j \in 0..(m - 1) : at[j] = p
        BY <1>2, <2>3
      <4>2. j # 0
        BY <1>3, <2>1, <2>3, <4>1
      <4>3. j - 1 \in 0..((m - 1) - 1) /\ j - 1 \in 0..(m - 1) /\ (j - 1) + 1 = j
        BY <1>2, <4>2
      <4> QED
        BY <2>6, <4>1, <4>3
    <3> QED
      BY <3>1, <3>2
  <2>8. ASSUME NEW j \in 0..((m - 1) - 1), NEW k \in 0..((m - 1) - 1),
               FreeChain(g)[j] = FreeChain(g)[k]
        PROVE  j = k
    <3>1. /\ j \in 0..(m - 1) /\ j + 1 \in 0..(m - 1)
          /\ k \in 0..(m - 1) /\ k + 1 \in 0..(m - 1)
      BY <1>2
    <3>2. j + 1 = k + 1
      BY <1>2, <2>6, <2>8, <3>1
    <3> QED
      BY <3>2
  <2>9. FreeChain(g)[m - 1] = NoPage
    <3>1. m - 1 \in 0..(m - 1) /\ (m - 1) + 1 = m
      BY <1>2, <2>1
    <3> QED
      BY <1>2, <2>6, <3>1
  <2>10. m - 1 \in 0..MaxPages
    BY <1>2, <2>1, MaxPagesAssumption
  <2>11. \A p \in FreePages(g) : g.page[p].data = EmptyData
    BY <1>2, <1>4, <2>3
  <2> HIDE DEF g
  <2> QED
    BY <1>5, <2>2, <2>7, <2>8, <2>9, <2>10, <2>11 DEF FreeExact, g
<1>7. CASE ~Reuses(f)
  <2>1. n = f.hdr.num_pages /\ m = 0
    BY <1>2, <1>7 DEF NewPageNumber, Reuses
  <2>2. /\ g.hdr.num_pages = f.hdr.num_pages + 1
        /\ g.hdr.num_free_pages = 0
        /\ g.hdr.first_free_page = head
    BY <1>1, <1>7 DEF AllocateHeader
  <2>3. FreePages(g) = {}
    <3>1. \A p \in PageIds : p < f.hdr.num_pages + 1 => p < f.hdr.num_pages \/ p = n
      BY <1>2, <2>1, MaxPagesAssumption DEF PageIds
    <3>2. FreePages(f) = {}
      BY <1>2, <2>1
    <3> QED
      BY <1>1, <2>2, <3>1, <3>2 DEF FreePages
  <2>4. FreeChain(g)[0] = head
    BY <1>0, <1>2, <2>2, LinksSteps DEF FreeChain
  <2>5. at[0] = NoPage
    BY <1>2, <2>1
  <2> HIDE DEF g
  <2> QED
    BY <1>3, <1>5, <2>2, <2>3, <2>4, <2>5, MaxPagesAssumption DEF FreeExact, g
<1> QED
  BY <1>6, <1>7

\* A list of different pages, none of which is p, has room for p.
LEMMA RoomForOneMore ==
    ASSUME NEW m \in 0..MaxPages, NEW at, NEW p \in PageIds,
           \A k \in 0..(m - 1) : at[k] \in PageIds \ {p},
           \A j, k \in 0..(m - 1) : at[j] = at[k] => j = k
    PROVE  m + 1 \in 0..MaxPages
<1> DEFINE longer == [k \in 0..m |-> IF k = 0 THEN p ELSE at[k - 1]]
<1>1. m \in Nat /\ MaxPages \in Nat
  BY MaxPagesAssumption
<1>2. \A k \in 0..m : k # 0 => k - 1 \in 0..(m - 1)
  BY <1>1
<1>3. longer \in Injection(0..m, PageIds)
  <2>1. longer \in [0..m -> PageIds]
    BY <1>2
  <2>2. ASSUME NEW j \in 0..m, NEW k \in 0..m, longer[j] = longer[k] PROVE j = k
    <3>1. CASE j = 0 \/ k = 0
      BY <1>2, <2>2, <3>1
    <3>2. CASE j # 0 /\ k # 0
      <4>1. j - 1 \in 0..(m - 1) /\ k - 1 \in 0..(m - 1) /\ at[j - 1] = at[k - 1]
        BY <1>2, <2>2, <3>2
      <4>2. j - 1 = k - 1
        BY <4>1
      <4> QED
        BY <1>1, <4>2
    <3> QED
      BY <3>1, <3>2
  <2> HIDE DEF longer
  <2> QED
    BY <2>1, <2>2 DEF Injection, IsInjective
<1>4. IsFiniteSet(PageIds) /\ Cardinality(PageIds) = MaxPages
  <2>1. MaxPages - 1 + 1 = MaxPages /\ 1 \in Int /\ MaxPages \in Int /\ 1 <= MaxPages
    BY MaxPagesAssumption
  <2> QED
    BY <2>1, FS_Interval DEF PageIds
<1>5. Cardinality(0..m) <= MaxPages
  <2> HIDE DEF longer
  <2>1. Injection(0..m, PageIds) # {}
    BY <1>3
  <2> QED
    BY <2>1, <1>3, <1>4, FS_Injection
<1>6. Cardinality(0..m) = m + 1
  BY <1>1, FS_Interval
<1> QED
  BY <1>1, <1>5, <1>6

\* deletePage puts the page at the head of the free list.
LEMMA DeletedFree ==
    ASSUME NEW f \in FileImage, FreeExact(f), Bounded(f),
           NEW p \in PageIds, ~DeleteFails(f, p)
    PROVE  FreeExact(Deleted(f, p)) /\ Bounded(Deleted(f, p))
<1> DEFINE g == Deleted(f, p)
           at == FreeChain(f)
           m == f.hdr.num_free_pages
           head == f.hdr.first_free_page
<1>0. g \in FileImage /\ p \in InUse(f) /\ p < f.hdr.num_pages
  BY DeletedType DEF DeleteFails, Readable, InUse
<1>1. /\ g.hdr = DeleteHeader(f, p)
      /\ g.page[p] = [FreshPage EXCEPT !.next = head]
      /\ \A q \in PageIds \ {p} :
            /\ g.page[q].data = f.page[q].data
            /\ g.page[q].next = IF ~IsHead(f, p) /\ q = DeletePredecessor(f, p)
                                THEN f.page[p].next ELSE f.page[q].next
      /\ InUse(g) = InUse(f) \ {p}
  BY DeletedParts
<1>2. /\ m \in 0..MaxPages /\ head \in PageRefs /\ f.hdr.num_pages \in Nat
      /\ {at[k] : k \in 0..(m - 1)} = FreePages(f)
      /\ \A j, k \in 0..(m - 1) : at[j] = at[k] => j = k
      /\ at[m] = NoPage
      /\ \A q \in FreePages(f) : f.page[q].data = EmptyData
  BY FileParts DEF FreeExact
<1>3. /\ g.hdr.num_pages = f.hdr.num_pages
      /\ g.hdr.num_free_pages = m + 1
      /\ g.hdr.first_free_page = p
  BY <1>1, FileParts DEF DeleteHeader, FileHeader
<1>4. FreePages(g) = FreePages(f) \cup {p}
  BY <1>0, <1>1, <1>3 DEF FreePages
<1>5. p \notin FreePages(f)
  BY <1>0 DEF FreePages
<1>6. m + 1 \in 0..MaxPages
  <2>1. \A k \in 0..(m - 1) : at[k] \in PageIds \ {p}
    BY <1>2, <1>5 DEF FreePages
  <2> HIDE DEF m, at
  <2> QED
    BY <1>2, <2>1, RoomForOneMore
<1>7. \A q \in FreePages(f) : /\ g.page[q].next = f.page[q].next
                              /\ g.page[q].data = f.page[q].data
  <2>1. ~IsHead(f, p) => DeletePredecessor(f, p) \notin FreePages(f)
    <3>1. ~IsHead(f, p) => DeletePredecessor(f, p) \in InUse(f) \cup {NoPage}
      BY DEF DeleteFails, Readable, InUse
    <3>2. NoPage \notin PageIds
      BY PageNumbers
    <3> QED
      BY <3>1, <3>2 DEF FreePages
  <2> QED
    BY <1>1, <1>5, <2>1 DEF FreePages
<1>8. Bounded(g)
  BY <1>1, <1>3 DEF Bounded
<1>9. \A k \in 0..m : LinksFrom(g, head)[k] = at[k]
  BY <1>0, <1>7, FreeChainKept
<1>10. /\ FreeChain(g)[0] = p
       /\ \A k \in 0..m : FreeChain(g)[k + 1] = at[k]
  <2>1. Successor(g, p) = head /\ p \in PageRefs
    BY <1>1, PageNumbers DEF Successor, FreshPage
  <2>2. \A k \in 0..(MaxPages - 1) : LinksFrom(g, head)[k] = FreeChain(g)[k + 1]
    BY <1>0, <1>3, <2>1, LinksShift DEF FreeChain
  <2>3. \A k \in 0..m : k \in 0..(MaxPages - 1)
    BY <1>2, <1>6, MaxPagesAssumption
  <2>4. FreeChain(g)[0] = p
    BY <1>0, <1>3, <2>1, LinksSteps DEF FreeChain
  <2> QED
    BY <1>9, <2>2, <2>3, <2>4
<1>11. (m + 1) - 1 = m /\ m \in Nat
  BY <1>2, MaxPagesAssumption
<1> HIDE DEF g, at, m
<1>12. {FreeChain(g)[k] : k \in 0..m} = FreePages(g)
  <2>1. ASSUME NEW k \in 0..m PROVE FreeChain(g)[k] \in FreePages(g)
    <3>1. CASE k = 0
      BY <1>4, <1>10, <3>1
    <3>2. CASE k # 0
      <4>1. k - 1 \in 0..(m - 1) /\ k - 1 \in 0..m /\ (k - 1) + 1 = k
        BY <1>11, <3>2
      <4> QED
        BY <1>2, <1>4, <1>10, <4>1
    <3> QED
      BY <3>1, <3>2
  <2>2. ASSUME NEW q \in FreePages(g) PROVE \E k \in 0..m : FreeChain(g)[k] = q
    <3>1. CASE q = p
      BY <1>10, <1>11, <3>1
    <3>2. CASE q # p
      <4>1. PICK j \in 0..(m - 1) : at[j] = q
        BY <1>2, <1>4, <3>2
      <4>2. j \in 0..m /\ j + 1 \in 0..m
        BY <1>11
      <4> QED
        BY <1>10, <4>1, <4>2
    <3> QED
      BY <3>1, <3>2
  <2> QED
    BY <2>1, <2>2
<1>13. ASSUME NEW j \in 0..m, NEW k \in 0..m, FreeChain(g)[j] = FreeChain(g)[k]
       PROVE  j = k
  <2>1. ASSUME NEW i \in 0..m, i # 0
        PROVE  /\ i - 1 \in 0..(m - 1)
               /\ FreeChain(g)[i] = at[i - 1]
               /\ at[i - 1] # p
    <3>1. i - 1 \in 0..(m - 1) /\ i - 1 \in 0..m /\ (i - 1) + 1 = i
      BY <1>11, <2>1
    <3> QED
      BY <1>2, <1>5, <1>10, <3>1
  <2>2. CASE j = 0 \/ k = 0
    BY <1>10, <1>13, <2>1, <2>2
  <2>3. CASE j # 0 /\ k # 0
    <3>1. j - 1 = k - 1
      BY <1>2, <1>13, <2>1, <2>3
    <3> QED
      BY <1>11, <3>1
  <2> QED
    BY <2>2, <2>3
<1>14. FreeChain(g)[m + 1] = NoPage
  BY <1>2, <1>10, <1>11
<1>15. \A q \in FreePages(g) : g.page[q].data = EmptyData
  BY <1>1, <1>2, <1>4, <1>7 DEF FreshPage
<1> QED
  BY <1>3, <1>6, <1>8, <1>11, <1>12, <1>13, <1>14, <1>15 DEF FreeExact, g

\* writePage leaves the free list alone: the page it writes is in use.
LEMMA WrittenFree ==
    ASSUME NEW f \in FileImage, FreeExact(f), Bounded(f),
           NEW pg \in Page, pg.num \in PageIds, ~WriteThrows(f, pg)
    PROVE  FreeExact(Written(f, pg)) /\ Bounded(Written(f, pg))
<1> DEFINE g == Written(f, pg)
<1>1. g \in FileImage
  BY WrittenType
<1>2. /\ g.hdr = f.hdr
      /\ \A p \in PageIds :
            /\ g.page[p].next = f.page[p].next
            /\ g.page[p].data = IF p = pg.num THEN pg.data ELSE f.page[p].data
      /\ InUse(g) = InUse(f)
  BY WrittenParts
<1>3. pg.num \in InUse(f)
  BY DEF WriteThrows, InUse
<1> HIDE DEF g
<1>4. FreePages(g) = FreePages(f) /\ FreePages(f) \subseteq PageIds \ InUse(f)
  BY <1>2 DEF FreePages
<1>5. \A k \in 0..f.hdr.num_free_pages : FreeChain(g)[k] = FreeChain(f)[k]
  <2>1. FreeChain(g) = LinksFrom(g, f.hdr.first_free_page)
    BY <1>2 DEF FreeChain
  <2> QED
    BY <1>1, <1>2, <1>4, <2>1, FreeChainKept
<1>6. \A p \in FreePages(g) : g.page[p].data = EmptyData
  BY <1>2, <1>3, <1>4 DEF FreeExact
<1>7. f.hdr.num_free_pages \in Nat /\ f.hdr.num_free_pages \in 0..f.hdr.num_free_pages
  BY FileParts
<1>8. \A k \in 0..(f.hdr.num_free_pages - 1) : k \in 0..f.hdr.num_free_pages
  BY <1>7
<1> QED
  BY <1>2, <1>4, <1>5, <1>6, <1>7, <1>8 DEF FreeExact, Bounded, g

-----------------------------------------------------------------------------
(* The used list: every operation leaves each page linked to the next one *)

\* A file is emptied only when it has no free page, or by deleting its only
\* page: without a used page there is at most one free page.
OneFreeWhenEmpty(f) == InUse(f) = {} => f.hdr.num_free_pages <= 1

\* The lists of a file that clients have not emptied while it had free pages.
ListsExact(f) == Numbered(f) /\ Bounded(f) /\ FreeExact(f) /\ Linked(f) /\ OneFreeWhenEmpty(f)

\* Pages in use have positive numbers.
LEMMA InUseType ==
    ASSUME NEW f
    PROVE  InUse(f) \in SUBSET PageIds /\ InUse(f) \in SUBSET (Nat \ {0})
  BY MaxPagesAssumption DEF InUse, PageIds

\* The lists of a new file are empty.
LEMMA NewFileLists == ListsExact(NewFile)
<1>1. NewFile.hdr.num_free_pages = 0 /\ NewFile.hdr.first_used_page = NoPage
  BY DEF NewFile
<1>2. Linked(NewFile) /\ OneFreeWhenEmpty(NewFile)
  BY <1>1, NewFileFree DEF Linked, Follows, OneFreeWhenEmpty
<1> QED
  BY <1>2, NewFileType, NewFileFree DEF ListsExact

\* Where allocatePage puts the new page: after the last used page below it.
LEMMA AllocatedPlace ==
    ASSUME NEW f \in FileImage, ListsExact(f),
           ~AllocateFails(f), NewPageNumber(f) \in PageIds
    PROVE  LET q == IF AtHead(f) THEN NoPage ELSE Predecessor(f)
               x == NewPageNext(f)
           IN  /\ q \in InUse(f) \cup {NoPage} /\ q < NewPageNumber(f)
               /\ x \in Nat /\ Follows(InUse(f), q, x)
               /\ x = NoPage \/ x > NewPageNumber(f)
<1> DEFINE n == NewPageNumber(f)
           U == InUse(f)
           x == NewPageNext(f)
           prev == Predecessor(f)
           first == f.hdr.first_used_page
<1>1. /\ n \in PageIds /\ n \in Nat /\ n # 0 /\ n \notin U
      /\ U \in SUBSET (Nat \ {0})
      /\ first \in Nat
      /\ \A p \in PageIds : f.page[p].next \in Nat
  <2>1. n \notin U
    BY NewNumberIsFree DEF ListsExact
  <2> QED
    BY <2>1, InUseType, FileParts, MaxPagesAssumption DEF PageIds, PageRefs
<1>2. Follows(U, NoPage, first) /\ \A p \in U : Follows(U, p, f.page[p].next)
  BY DEF ListsExact, Linked
<1>3. CASE AtHead(f) /\ first > n
  <2>1. x = first
    BY <1>3 DEF NewPageNext
  <2> QED
    BY <1>1, <1>2, <1>3, <2>1 DEF NoPage
<1>4. CASE AtHead(f) /\ ~(first > n)
  <2>1. first = NoPage
    BY <1>4 DEF AtHead
  <2>2. U = {}
    BY <1>1, <1>2, <2>1 DEF Follows, NoPage
  <2>3. x = NoPage
    <3>1. CASE Reuses(f)
      <4>1. f.hdr.num_free_pages = 1 /\ f.hdr.first_free_page = n
        BY <2>2, <3>1, FileParts DEF Reuses, NewPageNumber, ListsExact, OneFreeWhenEmpty
      <4>2. FreeChain(f)[1] = NoPage
        BY <4>1 DEF ListsExact, FreeExact
      <4>3. FreeChain(f)[0] = n /\ FreeChain(f)[0 + 1] = Successor(f, n)
        BY <1>1, <4>1, LinksSteps, PageNumbers, MaxPagesAssumption DEF FreeChain
      <4>4. Successor(f, n) = f.page[n].next
        BY <1>1, PageNumbers DEF Successor
      <4> QED
        BY <1>4, <3>1, <4>2, <4>3, <4>4 DEF NewPageNext
    <3>2. CASE ~Reuses(f)
      BY <1>4, <3>2 DEF NewPageNext
    <3> QED
      BY <3>1, <3>2
  <2> QED
    BY <1>1, <1>4, <2>2, <2>3 DEF Follows, NoPage
<1>5. CASE ~AtHead(f)
  <2> DEFINE Stop == {p \in PageIds : \/ f.page[p].next = NoPage
                                      \/ Reuses(f) /\ f.page[p].next > n}
  <2>1. Readable(f) = U
    BY ReadableIsInUse DEF ListsExact
  <2>2. prev \in U
    BY <1>5, <2>1 DEF AllocateFails
  <2>3. /\ prev \in Stop
        /\ prev = first \/ \E q \in U \ Stop : f.page[q].next = prev
    <3>1. prev = WalkEnd(f, Stop)
      BY DEF Predecessor
    <3> HIDE DEF Stop, prev
    <3> QED
      BY <2>1, <2>2, <3>1, WalkFinds
  <2>4. x = f.page[prev].next
    BY <1>5 DEF NewPageNext
  <2>5. prev < n /\ (x = NoPage \/ x > n)
    <3>1. CASE Reuses(f)
      <4>1. ~(first > n) /\ first # NoPage
        BY <1>5, <3>1 DEF AtHead
      <4>2. \A q \in U \ Stop : ~(f.page[q].next > n)
        BY <3>1, InUseType
      <4>3. ~(prev > n)
        BY <2>3, <4>1, <4>2
      <4>4. prev # n /\ prev \in Nat
        BY <1>1, <2>2
      <4>5. x = NoPage \/ x > n
        BY <2>3, <2>4
      <4> QED
        BY <1>1, <4>3, <4>4, <4>5
    <3>2. CASE ~Reuses(f)
      <4>1. n = f.hdr.num_pages
        BY <3>2 DEF NewPageNumber
      <4>2. prev < n
        BY <2>2, <4>1 DEF ListsExact, Bounded
      <4>3. x = NoPage
        BY <2>3, <2>4, <3>2
      <4> QED
        BY <4>2, <4>3
    <3> QED
      BY <3>1, <3>2
  <2>6. Follows(U, prev, x) /\ x \in Nat
    BY <1>1, <1>2, <2>2, <2>4, InUseType
  <2> QED
    BY <1>5, <2>2, <2>5, <2>6
<1> QED
  BY <1>3, <1>4, <1>5

\* allocatePage links the new page into its place.
LEMMA AllocatedLists ==
    ASSUME NEW f \in FileImage, ListsExact(f),
           ~AllocateFails(f), NewPageNumber(f) \in PageIds
    PROVE  ListsExact(Allocated(f))
<1> DEFINE n == NewPageNumber(f)
           U == InUse(f)
           x == NewPageNext(f)
           q == IF AtHead(f) THEN NoPage ELSE Predecessor(f)
           g == Allocated(f)
<1>1. /\ n \in PageIds /\ n \in Nat \ {0} /\ n \notin U
      /\ U \in SUBSET (Nat \ {0}) /\ U \in SUBSET PageIds
      /\ f.hdr.first_used_page \in Nat
      /\ \A p \in PageIds : f.page[p].next \in Nat
  <2>1. n \notin U
    BY NewNumberIsFree DEF ListsExact
  <2> QED
    BY <2>1, InUseType, FileParts, MaxPagesAssumption DEF PageIds, PageRefs
<1>2. /\ q \in U \cup {0} /\ q < n
      /\ x \in Nat /\ Follows(U, q, x) /\ (x = NoPage \/ x > n)
  BY AllocatedPlace DEF NoPage
<1>3. /\ g.hdr = AllocateHeader(f)
      /\ g.page[n] = NewPage(f)
      /\ \A p \in PageIds \ {n} :
            g.page[p].next = IF ~AtHead(f) /\ p = Predecessor(f) THEN n ELSE f.page[p].next
      /\ InUse(g) = U \cup {n}
  BY AllocatedParts, NewNumberIsFree DEF ListsExact
<1> HIDE DEF n, U, x, g
<1>4. /\ Follows(U \cup {n}, q, n)
      /\ Follows(U \cup {n}, n, x)
      /\ \A r \in U \cup {0}, y \in Nat :
            r # q /\ Follows(U, r, y) => Follows(U \cup {n}, r, y)
  <2> HIDE DEF q
  <2> QED
    BY <1>1, <1>2, FollowsInsert
<1>5. Follows(U, NoPage, f.hdr.first_used_page) /\ \A p \in U : Follows(U, p, f.page[p].next)
  BY DEF ListsExact, Linked, U
<1>6. g.hdr.first_used_page = IF AtHead(f) THEN n ELSE f.hdr.first_used_page
  BY <1>3 DEF AllocateHeader, n
<1>7. Follows(U \cup {n}, NoPage, g.hdr.first_used_page)
  <2>1. CASE AtHead(f)
    BY <1>4, <1>6, <2>1
  <2>2. CASE ~AtHead(f)
    <3>1. q # NoPage
      BY <1>1, <2>2, PageNumbers DEF AllocateFails, Readable
    <3> QED
      BY <1>1, <1>4, <1>5, <1>6, <2>2, <3>1 DEF NoPage
  <2> QED
    BY <2>1, <2>2
<1>8. ASSUME NEW p \in U \cup {n} PROVE Follows(U \cup {n}, p, g.page[p].next)
  <2>1. CASE p = n
    <3>1. g.page[n].next = x
      BY <1>3 DEF NewPage, x
    <3> QED
      BY <1>4, <2>1, <3>1
  <2>2. CASE p # n /\ p = q
    <3>1. ~AtHead(f) /\ p = Predecessor(f)
      BY <1>1, <1>8, <2>2 DEF NoPage
    <3>2. g.page[p].next = n
      BY <1>1, <1>3, <1>8, <2>2, <3>1
    <3> QED
      BY <1>4, <2>2, <3>2
  <2>3. CASE p # n /\ p # q
    <3>1. g.page[p].next = f.page[p].next
      BY <1>1, <1>3, <1>8, <2>3
    <3> QED
      BY <1>1, <1>4, <1>5, <1>8, <2>3, <3>1
  <2> QED
    BY <2>1, <2>2, <2>3
<1>9. Linked(g)
  BY <1>3, <1>7, <1>8 DEF Linked
<1>10. OneFreeWhenEmpty(g)
  BY <1>3 DEF OneFreeWhenEmpty
<1>11. Numbered(g) /\ FreeExact(g) /\ Bounded(g)
  BY AllocatedType, AllocatedFree DEF ListsExact, g
<1> QED
  BY <1>9, <1>10, <1>11 DEF ListsExact, g

\* deletePage finds the page before the deleted one.
LEMMA DeletedPlace ==
    ASSUME NEW f \in FileImage, ListsExact(f), NEW p \in PageIds,
           ~DeleteFails(f, p), ~IsHead(f, p)
    PROVE  /\ DeletePredecessor(f, p) \in InUse(f)
           /\ f.page[DeletePredecessor(f, p)].next = p
<1> DEFINE U == InUse(f)
           prev == DeletePredecessor(f, p)
           Stop == {q \in PageIds : f.page[q].next = p}
           at == Chain(f)
           first == f.hdr.first_used_page
<1>1. Readable(f) = U
  BY ReadableIsInUse DEF ListsExact
<1>2. p \in U /\ p # first /\ prev \in U \cup {NoPage}
  BY <1>1 DEF DeleteFails, IsHead
<1>3. Follows(U, NoPage, first) /\ \A r \in U : Follows(U, r, f.page[r].next)
  BY DEF ListsExact, Linked
<1>4. prev = WalkEnd(f, Stop)
  BY DEF DeletePredecessor
<1>5. U \in SUBSET (Nat \ {0}) /\ U \in SUBSET PageIds
  BY InUseType
<1>6. prev # NoPage
  <2> SUFFICES ASSUME prev = NoPage PROVE FALSE
    OBVIOUS
  <2>1. PICK k \in 0..MaxPages :
           /\ at[k] = NoPage
           /\ \A j \in 0..(k - 1) : at[j] \in U \ Stop
    <3>1. WalkEnd(f, Stop) # Endless
      BY <1>4, MaxPagesAssumption DEF Endless, NoPage
    <3> HIDE DEF Stop, U, prev, at
    <3> QED
      BY <1>1, <1>4, <3>1, WalkStops DEF at
  <2>2. /\ at[0] = first
        /\ \A j \in 0..(MaxPages - 1) : at[j + 1] = Successor(f, at[j])
    BY FileParts, LinksSteps DEF Chain
  <2> DEFINE S == {j \in 0..k : at[j] \in U /\ at[j] < p}
  <2>3. 0 \in S
    <3>1. first \in U /\ first <= p
      BY <1>2, <1>3, <1>5 DEF Follows, NoPage
    <3> QED
      BY <1>2, <1>5, <2>2, <3>1, MaxPagesAssumption
  <2>4. ASSUME NEW j \in 0..(k - 1), j \in S PROVE j + 1 \in S
    <3>1. at[j] \in U \ Stop /\ at[j] < p
      BY <2>1, <2>4
    <3>2. at[j + 1] = f.page[at[j]].next
      <4>1. j \in 0..(MaxPages - 1)
        BY <2>4, MaxPagesAssumption
      <4>2. at[j] # NoPage
        BY <1>5, <3>1 DEF NoPage
      <4> QED
        BY <2>2, <4>1, <4>2 DEF Successor
    <3>3. at[j + 1] # p
      BY <1>5, <3>1, <3>2
    <3>4. at[j + 1] \in U /\ at[j + 1] <= p
      BY <1>2, <1>3, <1>5, <3>1, <3>2 DEF Follows
    <3>5. at[j + 1] < p /\ j + 1 \in 0..k
      BY <1>2, <1>5, <3>3, <3>4, MaxPagesAssumption
    <3> QED
      BY <3>4, <3>5
  <2>5. 0..k \subseteq S
    <3>1. k \in Nat
      BY MaxPagesAssumption
    <3> HIDE DEF S
    <3> QED
      BY <2>3, <2>4, <3>1, InductionUpTo
  <2>6. at[k] \in U
    BY <2>5, MaxPagesAssumption
  <2> QED
    BY <1>5, <2>1, <2>6 DEF NoPage
<1>7. prev \in Stop
  <2>1. WalkEnd(f, Stop) \in Readable(f)
    BY <1>1, <1>2, <1>4, <1>6
  <2> HIDE DEF Stop
  <2> QED
    BY <1>4, <2>1, WalkFinds
<1> QED
  BY <1>2, <1>6, <1>7

\* deletePage links the page before the deleted one to the page after it.
LEMMA DeletedLists ==
    ASSUME NEW f \in FileImage, ListsExact(f), NEW p \in PageIds, ~DeleteFails(f, p),
           Readable(f) # {p} \/ f.hdr.num_free_pages = 0
    PROVE  ListsExact(Deleted(f, p))
<1> DEFINE U == InUse(f)
           q == IF IsHead(f, p) THEN NoPage ELSE DeletePredecessor(f, p)
           x == f.page[p].next
           g == Deleted(f, p)
<1>1. /\ U \in SUBSET (Nat \ {0}) /\ U \in SUBSET PageIds
      /\ f.hdr.first_used_page \in Nat
      /\ \A r \in PageIds : f.page[r].next \in Nat
  BY InUseType, FileParts, MaxPagesAssumption DEF PageRefs
<1>2. Readable(f) = U /\ p \in U
  BY ReadableIsInUse DEF ListsExact, DeleteFails
<1>3. Follows(U, NoPage, f.hdr.first_used_page) /\ \A r \in U : Follows(U, r, f.page[r].next)
  BY DEF ListsExact, Linked
<1>4. /\ g.hdr = DeleteHeader(f, p)
      /\ \A r \in PageIds \ {p} :
            g.page[r].next = IF ~IsHead(f, p) /\ r = DeletePredecessor(f, p)
                             THEN f.page[p].next ELSE f.page[r].next
      /\ InUse(g) = U \ {p}
  BY DeletedParts
<1>5. q \in U \cup {0} /\ Follows(U, q, p) /\ Follows(U, p, x) /\ x \in Nat
  <2>1. CASE IsHead(f, p)
    BY <1>1, <1>2, <1>3, <2>1 DEF IsHead, NoPage
  <2>2. CASE ~IsHead(f, p)
    BY <1>1, <1>2, <1>3, <2>2, DeletedPlace
  <2> QED
    BY <2>1, <2>2
<1>6. g.hdr.first_used_page = (IF IsHead(f, p) THEN x ELSE f.hdr.first_used_page)
      /\ g.hdr.num_free_pages = f.hdr.num_free_pages + 1
  BY <1>4, FileParts DEF DeleteHeader, FileHeader
<1> HIDE DEF U, g, x
<1>7. /\ Follows(U \ {p}, q, x)
      /\ \A r \in (U \ {p}) \cup {0}, y \in Nat :
            r # q /\ Follows(U, r, y) => Follows(U \ {p}, r, y)
  <2> HIDE DEF q
  <2> QED
    BY <1>1, <1>2, <1>5, FollowsRemove
<1>8. Follows(U \ {p}, NoPage, g.hdr.first_used_page)
  <2>1. CASE IsHead(f, p)
    BY <1>6, <1>7, <2>1
  <2>2. CASE ~IsHead(f, p)
    <3>1. q # NoPage
      BY <1>1, <2>2, DeletedPlace DEF U, NoPage
    <3> QED
      BY <1>1, <1>3, <1>6, <1>7, <2>2, <3>1 DEF NoPage
  <2> QED
    BY <2>1, <2>2
<1>9. ASSUME NEW r \in U \ {p} PROVE Follows(U \ {p}, r, g.page[r].next)
  <2>1. CASE r = q
    <3>1. ~IsHead(f, p) /\ r = DeletePredecessor(f, p)
      BY <1>1, <1>9, <2>1 DEF NoPage
    <3> QED
      BY <1>1, <1>4, <1>7, <1>9, <2>1, <3>1 DEF x
  <2>2. CASE r # q
    <3>1. g.page[r].next = f.page[r].next
      BY <1>1, <1>4, <1>9, <2>2
    <3> QED
      BY <1>1, <1>3, <1>7, <1>9, <2>2, <3>1
  <2> QED
    BY <2>1, <2>2
<1>10. Linked(g)
  BY <1>4, <1>8, <1>9 DEF Linked
<1>11. OneFreeWhenEmpty(g)
  <2> SUFFICES ASSUME U \ {p} = {} PROVE g.hdr.num_free_pages <= 1
    BY <1>4 DEF OneFreeWhenEmpty
  <2>1. Readable(f) = {p}
    BY <1>2
  <2> QED
    BY <1>6, <2>1
<1>12. Numbered(g) /\ FreeExact(g) /\ Bounded(g)
  BY DeletedType, DeletedFree DEF ListsExact, g
<1> QED
  BY <1>10, <1>11, <1>12 DEF ListsExact, g

\* writePage changes no list, however old the copy is that it writes.
LEMMA WrittenLists ==
    ASSUME NEW f \in FileImage, ListsExact(f),
           NEW pg \in Page, pg.num \in PageIds, ~WriteThrows(f, pg)
    PROVE  ListsExact(Written(f, pg))
<1> DEFINE g == Written(f, pg)
<1>1. /\ g.hdr = f.hdr
      /\ \A p \in PageIds : g.page[p].next = f.page[p].next
      /\ InUse(g) = InUse(f)
  BY WrittenParts
<1>2. Numbered(g) /\ FreeExact(g) /\ Bounded(g)
  BY WrittenType, WrittenFree DEF ListsExact
<1> HIDE DEF g
<1>3. Linked(g) /\ OneFreeWhenEmpty(g)
  BY <1>1, InUseType DEF ListsExact, Linked, OneFreeWhenEmpty
<1> QED
  BY <1>2, <1>3 DEF ListsExact, g

\* When each page links to the next one in use, an iterator meets exactly the
\* pages in use and comes to the end.
LEMMA LinkedIsExact ==
    ASSUME NEW f \in FileImage, ListsExact(f)
    PROVE  UsedExact(f)
<1> DEFINE U == InUse(f)
           at == Chain(f)
<1>1. /\ Follows(U, NoPage, f.hdr.first_used_page)
      /\ \A r \in U : Follows(U, r, f.page[r].next)
      /\ \A r \in U : f.page[r].num = r
  BY InUseType DEF ListsExact, Linked, Numbered, InUse
<1>2. \A r \in U : r \in Nat /\ r # 0 /\ r <= MaxPages
  BY InUseType, MaxPagesAssumption DEF PageIds
<1>3. /\ at[0] = f.hdr.first_used_page
      /\ \A k \in 0..(MaxPages - 1) : at[k + 1] = Successor(f, at[k])
  BY FileParts, LinksSteps DEF Chain
<1> HIDE DEF U, at
<1>4. \A k \in 0..MaxPages : at[k] = NoPage \/ (at[k] \in U /\ at[k] >= k + 1)
  <2> DEFINE S == {k \in 0..MaxPages : at[k] = NoPage \/ (at[k] \in U /\ at[k] >= k + 1)}
  <2>1. 0 \in S
    BY <1>1, <1>2, <1>3, MaxPagesAssumption DEF Follows, NoPage
  <2>2. ASSUME NEW k \in 0..(MaxPages - 1), k \in S PROVE k + 1 \in S
    <3>1. k + 1 \in 0..MaxPages /\ at[k + 1] = Successor(f, at[k])
      BY <1>3, MaxPagesAssumption
    <3>2. CASE at[k] = NoPage
      BY <3>1, <3>2 DEF Successor
    <3>3. CASE at[k] # NoPage
      <4>1. at[k] \in U /\ at[k] >= k + 1 /\ at[k + 1] = f.page[at[k]].next
        BY <2>2, <3>1, <3>3 DEF Successor
      <4>2. at[k + 1] # NoPage => at[k + 1] \in U /\ at[k] < at[k + 1]
        BY <1>1, <4>1 DEF Follows
      <4>3. at[k + 1] # NoPage => at[k + 1] >= (k + 1) + 1
        BY <1>2, <4>1, <4>2, MaxPagesAssumption
      <4> QED
        BY <3>1, <4>2, <4>3
    <3> QED
      BY <3>2, <3>3
  <2>3. 0..MaxPages \subseteq S
    <3> HIDE DEF S
    <3> QED
      BY <2>1, <2>2, InductionUpTo, MaxPagesAssumption
  <2> QED
    BY <2>3
<1>5. at[MaxPages] = NoPage
  <2>1. MaxPages \in 0..MaxPages /\ MaxPages \in Nat
    BY MaxPagesAssumption
  <2> QED
    BY <1>2, <1>4, <2>1
<1>6. ASSUME NEW p \in U PROVE \E k \in 0..MaxPages : at[k] = p
  <2> SUFFICES ASSUME \A k \in 0..MaxPages : at[k] # p PROVE FALSE
    OBVIOUS
  <2> DEFINE S == {k \in 0..MaxPages : at[k] \in U /\ at[k] < p}
  <2>1. 0 \in S
    <3>1. 0 \in 0..MaxPages
      BY MaxPagesAssumption
    <3>2. at[0] # NoPage /\ at[0] \in U /\ at[0] <= p
      BY <1>1, <1>2, <1>3, <1>6 DEF Follows, NoPage
    <3>3. at[0] # p
      BY <3>1
    <3>4. at[0] \in Nat /\ p \in Nat
      BY <1>2, <3>2
    <3> QED
      BY <3>1, <3>2, <3>3, <3>4
  <2>2. ASSUME NEW k \in 0..(MaxPages - 1), k \in S PROVE k + 1 \in S
    <3>1. k + 1 \in 0..MaxPages /\ at[k] \in U /\ at[k] < p
      BY <2>2, MaxPagesAssumption
    <3>2. at[k + 1] = f.page[at[k]].next
      BY <1>2, <1>3, <3>1 DEF Successor, NoPage
    <3>3. Follows(U, at[k], at[k + 1])
      BY <1>1, <3>1, <3>2
    <3>4. at[k] \in Nat /\ p \in Nat /\ at[k + 1] # p
      BY <1>2, <3>1
    <3>5. at[k + 1] \in U /\ at[k + 1] <= p
      BY <3>1, <3>3, <3>4 DEF Follows
    <3>6. at[k + 1] < p
      <4>1. at[k + 1] \in Nat
        BY <1>2, <3>5
      <4> QED
        BY <3>4, <3>5, <4>1
    <3> QED
      BY <3>1, <3>5, <3>6
  <2>3. 0..MaxPages \subseteq S
    <3> HIDE DEF S
    <3> QED
      BY <2>1, <2>2, InductionUpTo, MaxPagesAssumption
  <2>4. at[MaxPages] \in U
    BY <2>3, MaxPagesAssumption
  <2> QED
    BY <1>2, <1>5, <2>4 DEF NoPage
<1>7. {at[k] : k \in 0..MaxPages} \ {NoPage} = U
  <2>1. NoPage \notin U
    BY <1>2 DEF NoPage
  <2> QED
    BY <1>4, <1>6, <2>1
<1>8. \A r \in U : f.page[r].next = NoPage \/ f.page[r].next > r
  BY <1>1, <1>2 DEF Follows
<1> QED
  BY <1>1, <1>5, <1>7, <1>8 DEF UsedExact, U, at


\* A loop over an exact list ends at a page in use or at the end of the list.
LEMMA WalkEndsInList ==
    ASSUME NEW f \in FileImage, ListsExact(f), NEW Stop
    PROVE  WalkEnd(f, Stop) \in InUse(f) \cup {NoPage}
<1> DEFINE at == Chain(f)
<1>1. Readable(f) = InUse(f)
  BY ReadableIsInUse DEF ListsExact
<1>2. /\ {at[k] : k \in 0..MaxPages} \ {NoPage} = InUse(f)
      /\ at[MaxPages] = NoPage
  BY LinkedIsExact DEF UsedExact
<1> HIDE DEF at
<1>3. WalkEnd(f, Stop) # Endless
  <2> SUFFICES ASSUME WalkEnd(f, Stop) = Endless PROVE FALSE
    OBVIOUS
  <2>1. MaxPages \in 0..MaxPages
    BY MaxPagesAssumption
  <2>2. NoPage \notin Readable(f)
    BY PageNumbers DEF Readable
  <2>3. ~(\A k \in 0..MaxPages : at[k] \in Readable(f) \ Stop)
    BY <1>2, <2>1, <2>2
  <2> DEFINE Ends(k) == at[k] \notin Readable(f) \ Stop
             First(k) == Ends(k) /\ \A j \in 0..(k - 1) : ~Ends(j)
             m == CHOOSE k \in 0..MaxPages : First(k)
             T == {k \in 0..MaxPages : Ends(k)}
  <2>4. WalkEnd(f, Stop) = at[m]
    BY <2>3 DEF WalkEnd, at
  <2>5. PICK k \in T : \A j \in T : k <= j
    <3>1. T \in SUBSET Nat /\ T # {}
      BY <2>3, MaxPagesAssumption
    <3> HIDE DEF T
    <3> QED
      BY <3>1, LeastNatural
  <2>6. k \in 0..MaxPages /\ First(k)
    <3> SUFFICES ASSUME NEW j \in 0..(k - 1), Ends(j) PROVE FALSE
      BY <2>5
    <3>1. j \in T
      BY <2>5, MaxPagesAssumption
    <3>2. k <= j
      BY <2>5, <3>1
    <3> QED
      BY <2>5, <3>2, MaxPagesAssumption
  <2>7. m \in 0..MaxPages
    <3> HIDE DEF First
    <3> QED
      BY <2>6
  <2>8. at[m] \in InUse(f) \cup {NoPage}
    <3> HIDE DEF m
    <3> QED
      BY <1>2, <2>7
  <2>9. Endless \notin InUse(f) \cup {NoPage}
    BY MaxPagesAssumption DEF Endless, InUse, PageIds, NoPage
  <2> HIDE DEF m
  <2> QED
    BY <2>4, <2>8, <2>9
<1>4. PICK k \in 0..MaxPages : WalkEnd(f, Stop) = at[k]
  BY <1>3, WalkStops DEF at
<1> QED
  BY <1>2, <1>4

\* A search through the list that comes to its end has seen every page in use.
LEMMA WalkSeesAll ==
    ASSUME NEW f \in FileImage, ListsExact(f), NEW Stop, WalkEnd(f, Stop) = NoPage
    PROVE  \A p \in InUse(f) : p \notin Stop
<1> DEFINE at == Chain(f)
<1>1. /\ {at[k] : k \in 0..MaxPages} \ {NoPage} = InUse(f)
      /\ f.hdr.first_used_page \in PageRefs
  BY LinkedIsExact, FileParts DEF UsedExact
<1>2. \A k \in 0..(MaxPages - 1) : at[k + 1] = Successor(f, at[k])
  BY <1>1, LinksSteps DEF Chain
<1> HIDE DEF at
<1>3. WalkEnd(f, Stop) # Endless
  BY MaxPagesAssumption DEF Endless, NoPage
<1>4. PICK k \in 0..MaxPages : /\ at[k] = NoPage
                               /\ \A j \in 0..(k - 1) : at[j] \in Readable(f) \ Stop
  BY <1>3, WalkStops DEF at
<1>5. \A i \in 0..MaxPages : i >= k => at[i] = NoPage
  <2> DEFINE S == {i \in 0..MaxPages : i >= k => at[i] = NoPage}
  <2>1. 0 \in S
    BY <1>4, MaxPagesAssumption
  <2>2. ASSUME NEW i \in 0..(MaxPages - 1), i \in S PROVE i + 1 \in S
    <3>1. i + 1 \in 0..MaxPages /\ at[i + 1] = Successor(f, at[i])
      BY <1>2, MaxPagesAssumption
    <3>2. i >= k => at[i + 1] = NoPage
      BY <2>2, <3>1 DEF Successor
    <3>3. i + 1 >= k => i >= k \/ i + 1 = k
      BY <1>4, MaxPagesAssumption
    <3> QED
      BY <1>4, <3>1, <3>2, <3>3
  <2> HIDE DEF S
  <2>3. 0..MaxPages \subseteq S
    BY <2>1, <2>2, InductionUpTo, MaxPagesAssumption
  <2> QED
    BY <2>3 DEF S
<1> SUFFICES ASSUME NEW p \in InUse(f) PROVE p \notin Stop
  OBVIOUS
<1>6. PICK i \in 0..MaxPages : at[i] = p /\ p # NoPage
  BY <1>1
<1>7. i \in 0..(k - 1)
  BY <1>4, <1>5, <1>6, MaxPagesAssumption
<1> QED
  BY <1>4, <1>6, <1>7

\* While the lists are exact, deletePage of a page in use never throws.
LEMMA DeleteSucceeds ==
    ASSUME NEW f \in FileImage, ListsExact(f), NEW p \in InUse(f)
    PROVE  ~DeleteFails(f, p)
<1> DEFINE Stop == {q \in PageIds : f.page[q].next = p}
<1>1. Readable(f) = InUse(f)
  BY ReadableIsInUse DEF ListsExact
<1>2. DeletePredecessor(f, p) \in InUse(f) \cup {NoPage}
  <2> HIDE DEF Stop
  <2>1. WalkEnd(f, Stop) \in InUse(f) \cup {NoPage}
    BY WalkEndsInList
  <2> QED
    BY <2>1 DEF DeletePredecessor, Stop
<1> QED
  BY <1>1, <1>2 DEF DeleteFails

\* New contents of pages in use change no list.
LEMMA ContentKeepsLists ==
    ASSUME NEW f \in FileImage, NEW g \in FileImage, ListsExact(f), g.hdr = f.hdr,
           \A p \in PageIds :
              /\ g.page[p].num = f.page[p].num
              /\ g.page[p].next = f.page[p].next
              /\ p \notin InUse(f) => g.page[p].data = f.page[p].data
    PROVE  ListsExact(g) /\ InUse(g) = InUse(f)
<1>1. InUse(g) = InUse(f) /\ FreePages(g) = FreePages(f)
  BY DEF InUse, FreePages
<1>2. FreePages(f) \subseteq PageIds \ InUse(f)
  BY DEF FreePages
<1>3. FreeExact(f)
  BY DEF ListsExact
<1>4. \A k \in 0..f.hdr.num_free_pages : FreeChain(g)[k] = FreeChain(f)[k]
  <2>1. FreeChain(g) = LinksFrom(g, f.hdr.first_free_page)
    BY DEF FreeChain
  <2> QED
    BY <1>2, <1>3, <2>1, FreeChainKept
<1>5. \A p \in FreePages(g) : g.page[p].data = EmptyData
  BY <1>1, <1>2, <1>3 DEF FreeExact
<1>6. f.hdr.num_free_pages \in Nat /\ f.hdr.num_free_pages \in 0..f.hdr.num_free_pages
  BY FileParts
<1>7. \A k \in 0..(f.hdr.num_free_pages - 1) : k \in 0..f.hdr.num_free_pages
  BY <1>6
<1>8. FreeExact(g)
  BY <1>1, <1>3, <1>4, <1>5, <1>6, <1>7 DEF FreeExact
<1>9. Numbered(g) /\ Bounded(g) /\ OneFreeWhenEmpty(g)
  BY <1>1 DEF ListsExact, Numbered, Bounded, OneFreeWhenEmpty
<1>10. Linked(g)
  BY <1>1, InUseType DEF ListsExact, Linked
<1> QED
  BY <1>1, <1>8, <1>9, <1>10 DEF ListsExact
=============================================================================
