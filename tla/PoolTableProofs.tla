--------------------------- MODULE PoolTableProofs ---------------------------
(***************************************************************************)
(* The chains of the hash table, for every number of chains and frames,    *)
(* every addresses of the File objects and every page numbers: they answer *)
(* each lookup as the map of BufMgr does, and hold one bucket for each     *)
(* valid frame; and the buffer manager that goes by their answers is that  *)
(* of BufMgr.                                                              *)
(***************************************************************************)
EXTENDS PoolTable, BufMgrProofs, SequenceTheorems

-----------------------------------------------------------------------------
(* Chains as sequences *)

\* What stands where in a chain with a new head.
LEMMA ConsFacts ==
    ASSUME NEW S, NEW c \in Seq(S), NEW b \in S
    PROVE  /\ Cons(b, c) \in Seq(S)
           /\ Len(Cons(b, c)) = Len(c) + 1
           /\ Cons(b, c)[1] = b
           /\ \A j \in 1..Len(c) : Cons(b, c)[j + 1] = c[j]
<1>1. <<b>> \in Seq(S) /\ Len(<<b>>) = 1 /\ <<b>>[1] = b
  OBVIOUS
<1>2. Len(c) \in Nat
  OBVIOUS
<1> QED
  BY <1>1, <1>2, ConcatProperties DEF Cons

\* What stands where in a chain without its bucket i.
LEMMA RemoveAtFacts ==
    ASSUME NEW S, NEW c \in Seq(S), NEW i \in 1..Len(c)
    PROVE  /\ RemoveAt(c, i) \in Seq(S)
           /\ Len(RemoveAt(c, i)) = Len(c) - 1
           /\ \A j \in 1..(Len(c) - 1) :
                 RemoveAt(c, i)[j] = IF j < i THEN c[j] ELSE c[j + 1]
<1> DEFINE front == SubSeq(c, 1, i - 1)
           rest == SubSeq(c, i + 1, Len(c))
<1>1. Len(c) \in Nat /\ i \in Nat
  OBVIOUS
<1>2. /\ front \in Seq(S) /\ Len(front) = i - 1
      /\ \A j \in 1..(i - 1) : front[j] = c[j]
  OBVIOUS
<1>3. /\ rest \in Seq(S) /\ Len(rest) = Len(c) - i
      /\ \A j \in 1..(Len(c) - i) : rest[j] = c[i + j]
  OBVIOUS
<1> HIDE DEF front, rest
<1>4. /\ front \o rest \in Seq(S)
      /\ Len(front \o rest) = Len(front) + Len(rest)
      /\ \A j \in 1..(Len(front) + Len(rest)) :
            (front \o rest)[j] = IF j <= Len(front) THEN front[j]
                                 ELSE rest[j - Len(front)]
  BY <1>2, <1>3, ConcatProperties
<1>5. Len(front) + Len(rest) = Len(c) - 1
  BY <1>1, <1>2, <1>3
<1>6. ASSUME NEW j \in 1..(Len(c) - 1)
      PROVE  (front \o rest)[j] = IF j < i THEN c[j] ELSE c[j + 1]
  <2>1. CASE j < i
    BY <1>1, <1>2, <1>4, <1>5, <2>1
  <2>2. CASE ~(j < i)
    <3>1. /\ j - (i - 1) \in 1..(Len(c) - i) /\ ~(j <= i - 1)
          /\ i + (j - (i - 1)) = j + 1
      BY <1>1, <2>2
    <3>2. (front \o rest)[j] = rest[j - (i - 1)]
      BY <1>2, <1>4, <1>5, <3>1
    <3> QED
      BY <1>3, <2>2, <3>1, <3>2
  <2> QED
    BY <2>1, <2>2
<1>7. RemoveAt(c, i) = front \o rest
  BY DEF RemoveAt, front, rest
<1> QED
  BY <1>4, <1>5, <1>6, <1>7

-----------------------------------------------------------------------------
(* The table t and the map k describe the same pages *)

Agrees(b, i, k) == Index(b.file, b.pageNo) = i /\ k[b.file][b.pageNo] = b.frameNo

\* No page is in the chain twice.
NoDouble(c) ==
    \A j, l \in DOMAIN c : c[j].file = c[l].file /\ c[j].pageNo = c[l].pageNo => j = l

IsTable(t, k) ==
    /\ t \in [Chains -> Seq(Bucket)]
    /\ \A i \in Chains : /\ \A j \in DOMAIN t[i] : Agrees(t[i][j], i, k)
                         /\ NoDouble(t[i])
    /\ \A h \in Handles, p \in PageIds :
          k[h][p] # NoFrame => Stops(t[Index(h, p)], h, p) # {}

TableInv == IInv /\ IsTable(ht, hash)

IsMap(k) == k \in [Handles -> [PageIds -> 0..NumBufs]]

\* Every page has a chain.
LEMMA IndexType ==
    ASSUME NEW h \in Handles, NEW p \in PageIds
    PROVE  Index(h, p) \in Chains
<1>1. Address[h] + p \in Nat
  BY AddressAssumption, WordsAssumption, PageNumbers DEF PageIds
<1>2. \A a \in Nat, n \in Nat \ {0} : a % n \in 0..(n - 1)
  OBVIOUS
<1>3. (Address[h] + p) % Words \in Nat
  BY <1>1, <1>2, WordsAssumption
<1> QED
  BY <1>2, <1>3, HTSIZEAssumption DEF Index, Chains

\* The bucket that a walk along a chain stops at.
LEMMA StopFacts ==
    ASSUME NEW c \in Seq(Bucket), NEW h, NEW p, Stops(c, h, p) # {}
    PROVE  /\ Min(Stops(c, h, p)) \in 1..Len(c)
           /\ c[Min(Stops(c, h, p))] \in Bucket
           /\ c[Min(Stops(c, h, p))].file = h
           /\ c[Min(Stops(c, h, p))].pageNo = p
<1> DEFINE T == Stops(c, h, p)
<1>1. T \in SUBSET Nat /\ T # {}
  BY DEF Stops
<1>2. Min(T) \in T
  <2> HIDE DEF T
  <2>1. \E x \in T : \A y \in T : x <= y
    BY <1>1, LeastNatural
  <2> QED
    BY <2>1 DEF Min
<1>3. Min(T) \in DOMAIN c /\ c[Min(T)].file = h /\ c[Min(T)].pageNo = p
  BY <1>2 DEF Stops
<1> HIDE DEF T
<1>4. DOMAIN c = 1..Len(c) /\ c \in [1..Len(c) -> Bucket]
  OBVIOUS
<1>5. Min(T) \in 1..Len(c) /\ c[Min(T)] \in Bucket
  BY <1>3, <1>4
<1> QED
  BY <1>3, <1>5 DEF T

\* In a table that agrees with the map, a lookup finds what the map says.
LEMMA LookupFinds ==
    ASSUME NEW k, IsMap(k), NEW t, IsTable(t, k), NEW h \in Handles, NEW p \in PageIds
    PROVE  /\ Lookup(t, h, p) = k[h][p]
           /\ Stops(t[Index(h, p)], h, p) # {} <=> k[h][p] # NoFrame
<1> DEFINE c == t[Index(h, p)]
<1>1. c \in Seq(Bucket) /\ Index(h, p) \in Chains
  BY IndexType DEF IsTable
<1>2. CASE Stops(c, h, p) = {}
  BY <1>2 DEF IsTable, Lookup
<1>3. CASE Stops(c, h, p) # {}
  <2> DEFINE m == Min(Stops(c, h, p))
  <2>1. m \in DOMAIN c /\ c[m] \in Bucket /\ c[m].file = h /\ c[m].pageNo = p
    <3>1. DOMAIN c = 1..Len(c)
      BY <1>1
    <3> HIDE DEF c
    <3> QED
      BY <1>1, <1>3, <3>1, StopFacts
  <2>2. k[h][p] = c[m].frameNo
    BY <1>1, <2>1 DEF IsTable, Agrees
  <2>3. c[m].frameNo \in Frames
    BY <2>1 DEF Bucket
  <2>4. k[h][p] # NoFrame
    BY <2>2, <2>3, NoFrameIsNone
  <2> QED
    BY <1>3, <2>2, <2>4 DEF Lookup
<1> QED
  BY <1>2, <1>3

-----------------------------------------------------------------------------
(* insert and remove *)

\* A chain keeps its pages apart when one is put in front that it does not hold.
LEMMA NoDoubleCons ==
    ASSUME NEW c \in Seq(Bucket), NoDouble(c), NEW b \in Bucket,
           Stops(c, b.file, b.pageNo) = {}
    PROVE  NoDouble(Cons(b, c))
<1> DEFINE d == Cons(b, c)
<1>1. /\ d \in Seq(Bucket) /\ Len(d) = Len(c) + 1 /\ d[1] = b
      /\ \A j \in 1..Len(c) : d[j + 1] = c[j]
  BY ConsFacts
<1>2. Len(c) \in Nat /\ DOMAIN c = 1..Len(c)
  OBVIOUS
<1> HIDE DEF d
<1>3. DOMAIN d = 1..(Len(c) + 1)
  BY <1>1
<1>4. \A j \in DOMAIN d : j = 1 \/ (j - 1 \in DOMAIN c /\ d[j] = c[j - 1])
  <2> TAKE j \in DOMAIN d
  <2> SUFFICES ASSUME j # 1 PROVE j - 1 \in DOMAIN c /\ d[j] = c[j - 1]
    OBVIOUS
  <2>1. j - 1 \in 1..Len(c) /\ (j - 1) + 1 = j
    BY <1>2, <1>3
  <2> QED
    BY <1>1, <1>2, <2>1
<1>5. \A j \in DOMAIN c : ~(c[j].file = b.file /\ c[j].pageNo = b.pageNo)
  BY DEF Stops
<1> SUFFICES ASSUME NEW j \in DOMAIN d, NEW l \in DOMAIN d,
                    d[j].file = d[l].file, d[j].pageNo = d[l].pageNo
             PROVE  j = l
  BY DEF NoDouble, d
<1>6. CASE j = 1
  BY <1>1, <1>4, <1>5, <1>6
<1>7. CASE l = 1
  BY <1>1, <1>4, <1>5, <1>7
<1>8. CASE j # 1 /\ l # 1
  <2>1. j - 1 = l - 1
    BY <1>4, <1>8 DEF NoDouble
  <2>2. j \in Nat /\ l \in Nat
    BY <1>2, <1>3
  <2> QED
    BY <2>1, <2>2
<1> QED
  BY <1>6, <1>7, <1>8

\* What a chain without one bucket holds.
LEMMA UnlinkedFacts ==
    ASSUME NEW c \in Seq(Bucket), NoDouble(c), NEW i \in 1..Len(c)
    PROVE  /\ RemoveAt(c, i) \in Seq(Bucket)
           /\ NoDouble(RemoveAt(c, i))
           /\ \A j \in DOMAIN RemoveAt(c, i) :
                 \E l \in DOMAIN c : l # i /\ RemoveAt(c, i)[j] = c[l]
           /\ \A l \in DOMAIN c : l # i =>
                 \E j \in DOMAIN RemoveAt(c, i) : RemoveAt(c, i)[j] = c[l]
<1> DEFINE d == RemoveAt(c, i)
           old(j) == IF j < i THEN j ELSE j + 1
<1>1. /\ d \in Seq(Bucket) /\ Len(d) = Len(c) - 1
      /\ \A j \in 1..(Len(c) - 1) : d[j] = IF j < i THEN c[j] ELSE c[j + 1]
  BY RemoveAtFacts
<1>2. Len(c) \in Nat /\ DOMAIN c = 1..Len(c) /\ i \in 1..Len(c)
  OBVIOUS
<1> HIDE DEF d
<1>3. DOMAIN d = 1..(Len(c) - 1)
  BY <1>1
<1>4. \A j \in DOMAIN d : old(j) \in DOMAIN c /\ old(j) # i /\ d[j] = c[old(j)]
  BY <1>1, <1>2, <1>3
<1>5. \A j, l \in DOMAIN d : old(j) = old(l) => j = l
  BY <1>2, <1>3
<1>6. \A l \in DOMAIN c : l # i => \E j \in DOMAIN d : old(j) = l
  <2> SUFFICES ASSUME NEW l \in DOMAIN c, l # i PROVE \E j \in DOMAIN d : old(j) = l
    OBVIOUS
  <2>1. CASE l < i
    BY <1>2, <1>3, <2>1
  <2>2. CASE ~(l < i)
    <3>1. l - 1 \in DOMAIN d /\ ~(l - 1 < i) /\ (l - 1) + 1 = l
      BY <1>2, <1>3, <2>2
    <3> QED
      BY <3>1
  <2> QED
    BY <2>1, <2>2
<1> HIDE DEF old
<1>7. NoDouble(d)
  BY <1>4, <1>5 DEF NoDouble
<1> QED
  BY <1>1, <1>4, <1>6, <1>7 DEF d

\* insert adds the page to both, when neither has it.
LEMMA InsertedTable ==
    ASSUME NEW t, NEW k, IsMap(k), IsTable(t, k), NEW h \in Handles, NEW p \in PageIds,
           NEW f \in Frames, k[h][p] = NoFrame
    PROVE  IsTable(Inserted(t, h, p, f), [k EXCEPT ![h][p] = f])
<1> DEFINE i == Index(h, p)
           b == [file |-> h, pageNo |-> p, frameNo |-> f]
           c == Cons(b, t[i])
           u == [t EXCEPT ![i] = c]
           m == [k EXCEPT ![h][p] = f]
<1>1. i \in Chains /\ t \in [Chains -> Seq(Bucket)] /\ t[i] \in Seq(Bucket) /\ NoDouble(t[i])
  BY IndexType DEF IsTable
<1>2. b \in Bucket /\ b.file = h /\ b.pageNo = p /\ b.frameNo = f
  BY DEF Bucket
<1>3. Stops(t[i], h, p) = {}
  BY LookupFinds
<1>4. Inserted(t, h, p, f) = u
  BY <1>3 DEF Inserted
<1>5. c \in Seq(Bucket) /\ NoDouble(c)
  <2> HIDE DEF b, i
  <2> QED
    BY <1>1, <1>2, <1>3, ConsFacts, NoDoubleCons
<1>6. /\ DOMAIN c = 1..(Len(t[i]) + 1) /\ c[1] = b
      /\ \A j \in 1..Len(t[i]) : c[j + 1] = t[i][j]
      /\ Len(t[i]) \in Nat /\ DOMAIN t[i] = 1..Len(t[i])
  <2>1. /\ c \in Seq(Bucket) /\ Len(c) = Len(t[i]) + 1 /\ c[1] = b
        /\ \A j \in 1..Len(t[i]) : c[j + 1] = t[i][j]
    <3> HIDE DEF b, i
    <3> QED
      BY <1>1, <1>2, ConsFacts
  <2> HIDE DEF c, i, b
  <2> QED
    BY <1>1, <2>1
<1>7. /\ m[h][p] = f
      /\ \A g \in Handles, q \in PageIds : ~(g = h /\ q = p) => m[g][q] = k[g][q]
  BY DEF IsMap
<1>8. u \in [Chains -> Seq(Bucket)] /\ u[i] = c /\ \A j \in Chains \ {i} : u[j] = t[j]
  <2> HIDE DEF c, i
  <2> QED
    BY <1>1, <1>5
<1>9. \A j \in DOMAIN c : c[j] = b \/ \E l \in DOMAIN t[i] : c[j] = t[i][l]
  <2> HIDE DEF b, c, i
  <2> TAKE j \in DOMAIN c
  <2>1. j = 1 \/ (j - 1 \in 1..Len(t[i]) /\ (j - 1) + 1 = j)
    BY <1>6
  <2> QED
    BY <1>6, <2>1
<1>10. Agrees(b, i, m)
  BY <1>2, <1>7 DEF Agrees
<1>11. ASSUME NEW j \in Chains, NEW l \in DOMAIN t[j] PROVE Agrees(t[j][l], j, m)
  <2>1. Agrees(t[j][l], j, k) /\ t[j][l] \in Bucket
    BY <1>1, <1>11 DEF IsTable
  <2>2. t[j][l].frameNo # NoFrame
    BY <2>1, NoFrameIsNone DEF Bucket
  <2>3. t[j][l].file \in Handles /\ t[j][l].pageNo \in PageIds
    BY <2>1 DEF Bucket
  <2>4. ~(t[j][l].file = h /\ t[j][l].pageNo = p)
    BY <2>1, <2>2 DEF Agrees
  <2> HIDE DEF m
  <2> QED
    BY <1>7, <2>1, <2>3, <2>4 DEF Agrees
<1> HIDE DEF b, c, u, m, i
<1>12. ASSUME NEW j \in Chains
       PROVE  (\A l \in DOMAIN u[j] : Agrees(u[j][l], j, m)) /\ NoDouble(u[j])
  <2>1. CASE j = i
    BY <1>1, <1>5, <1>8, <1>9, <1>10, <1>11, <2>1
  <2>2. CASE j # i
    BY <1>8, <1>11, <2>2 DEF IsTable
  <2> QED
    BY <2>1, <2>2
<1>13. ASSUME NEW g \in Handles, NEW q \in PageIds, m[g][q] # NoFrame
       PROVE  Stops(u[Index(g, q)], g, q) # {}
  <2>1. CASE g = h /\ q = p
    <3>1. 1 \in DOMAIN c /\ c[1].file = h /\ c[1].pageNo = p
      BY <1>2, <1>6
    <3> QED
      BY <1>8, <2>1, <3>1 DEF Stops, i
  <2>2. CASE ~(g = h /\ q = p)
    <3>1. Stops(t[Index(g, q)], g, q) # {} /\ Index(g, q) \in Chains
      BY <1>7, <1>13, <2>2, IndexType DEF IsTable
    <3>2. CASE Index(g, q) # i
      BY <1>8, <3>1, <3>2
    <3>3. CASE Index(g, q) = i
      <4>1. PICK l \in DOMAIN t[i] : t[i][l].file = g /\ t[i][l].pageNo = q
        BY <3>1, <3>3 DEF Stops
      <4>2. l + 1 \in DOMAIN c /\ c[l + 1] = t[i][l]
        BY <1>6, <4>1
      <4> QED
        BY <1>8, <3>3, <4>1, <4>2 DEF Stops
    <3> QED
      BY <3>2, <3>3
  <2> QED
    BY <2>1, <2>2
<1>14. IsTable(u, m)
  BY <1>8, <1>12, <1>13 DEF IsTable
<1> QED
  BY <1>4, <1>14 DEF m

\* insert throws, and changes nothing, when the map has the page.
LEMMA InsertedTwice ==
    ASSUME NEW t, NEW k, IsMap(k), IsTable(t, k), NEW h \in Handles, NEW p \in PageIds,
           NEW f, k[h][p] # NoFrame
    PROVE  Inserted(t, h, p, f) = t
  BY LookupFinds DEF Inserted

\* remove takes the page out of both, or finds it in neither.
LEMMA RemovedTable ==
    ASSUME NEW t, NEW k, IsMap(k), IsTable(t, k), NEW h \in Handles, NEW p \in PageIds
    PROVE  IsTable(Removed(t, h, p), [k EXCEPT ![h][p] = NoFrame])
<1> DEFINE i == Index(h, p)
           m == [k EXCEPT ![h][p] = NoFrame]
<1>1. i \in Chains /\ t \in [Chains -> Seq(Bucket)] /\ t[i] \in Seq(Bucket) /\ NoDouble(t[i])
  BY IndexType DEF IsTable
<1>2. /\ m[h][p] = NoFrame
      /\ \A g \in Handles, q \in PageIds : ~(g = h /\ q = p) => m[g][q] = k[g][q]
  BY DEF IsMap
<1>3. CASE k[h][p] = NoFrame
  <2>1. Removed(t, h, p) = t
    BY <1>3, LookupFinds DEF Removed
  <2>2. m = k
    BY <1>3 DEF IsMap
  <2> QED
    BY <2>1, <2>2
<1>4. CASE k[h][p] # NoFrame
  <2> DEFINE at == Min(Stops(t[i], h, p))
             c == RemoveAt(t[i], at)
             u == [t EXCEPT ![i] = c]
  <2>1. Stops(t[i], h, p) # {}
    BY <1>4, LookupFinds
  <2>2. /\ at \in 1..Len(t[i]) /\ t[i][at].file = h /\ t[i][at].pageNo = p
        /\ at \in DOMAIN t[i]
    <3> HIDE DEF i
    <3>1. DOMAIN t[i] = 1..Len(t[i])
      BY <1>1
    <3> QED
      BY <1>1, <2>1, <3>1, StopFacts
  <2>3. Removed(t, h, p) = u
    BY <2>1 DEF Removed
  <2> HIDE DEF at, i
  <2>4. /\ c \in Seq(Bucket) /\ NoDouble(c)
        /\ \A j \in DOMAIN c : \E l \in DOMAIN t[i] : l # at /\ c[j] = t[i][l]
        /\ \A l \in DOMAIN t[i] : l # at => \E j \in DOMAIN c : c[j] = t[i][l]
    BY <1>1, <2>2, UnlinkedFacts
  <2> HIDE DEF c
  <2>5. u \in [Chains -> Seq(Bucket)] /\ u[i] = c /\ \A j \in Chains \ {i} : u[j] = t[j]
    BY <1>1, <2>4
  <2> HIDE DEF u, m
  <2>6. ASSUME NEW j \in Chains, NEW l \in DOMAIN t[j],
               ~(t[j][l].file = h /\ t[j][l].pageNo = p)
        PROVE  Agrees(t[j][l], j, m)
    <3>1. Agrees(t[j][l], j, k) /\ t[j][l] \in Bucket
      BY <1>1, <2>6 DEF IsTable
    <3>2. t[j][l].file \in Handles /\ t[j][l].pageNo \in PageIds
      BY <3>1 DEF Bucket
    <3> QED
      BY <1>2, <2>6, <3>1, <3>2 DEF Agrees
  <2>7. ASSUME NEW j \in Chains
        PROVE  (\A l \in DOMAIN u[j] : Agrees(u[j][l], j, m)) /\ NoDouble(u[j])
    <3>1. CASE j = i
      <4>1. ASSUME NEW l \in DOMAIN t[i], l # at
            PROVE  ~(t[i][l].file = h /\ t[i][l].pageNo = p)
        BY <1>1, <2>2, <4>1 DEF NoDouble
      <4>2. \A l \in DOMAIN t[i] : l # at => Agrees(t[i][l], i, m)
        BY <1>1, <2>6, <4>1
      <4> QED
        BY <2>4, <2>5, <3>1, <4>2
    <3>2. CASE j # i
      <4>1. u[j] = t[j] /\ NoDouble(t[j])
        BY <2>5, <3>2 DEF IsTable
      <4>2. ASSUME NEW l \in DOMAIN t[j] PROVE ~(t[j][l].file = h /\ t[j][l].pageNo = p)
        <5>1. Index(t[j][l].file, t[j][l].pageNo) = j
          BY <4>2 DEF IsTable, Agrees
        <5> QED
          BY <3>2, <5>1 DEF i
      <4> QED
        BY <2>6, <4>1, <4>2
    <3> QED
      BY <3>1, <3>2
  <2>8. ASSUME NEW g \in Handles, NEW q \in PageIds, m[g][q] # NoFrame
        PROVE  Stops(u[Index(g, q)], g, q) # {}
    <3>1. ~(g = h /\ q = p) /\ k[g][q] # NoFrame
      BY <1>2, <2>8
    <3>2. Stops(t[Index(g, q)], g, q) # {} /\ Index(g, q) \in Chains
      BY <3>1, IndexType DEF IsTable
    <3>3. CASE Index(g, q) # i
      BY <2>5, <3>2, <3>3
    <3>4. CASE Index(g, q) = i
      <4>1. PICK l \in DOMAIN t[i] : t[i][l].file = g /\ t[i][l].pageNo = q
        BY <3>2, <3>4 DEF Stops
      <4>2. l # at
        BY <2>2, <3>1, <4>1
      <4>3. PICK j \in DOMAIN c : c[j] = t[i][l]
        BY <2>4, <4>1, <4>2
      <4> QED
        BY <2>5, <3>4, <4>1, <4>3 DEF Stops
    <3> QED
      BY <3>3, <3>4
  <2>9. IsTable(u, m)
    BY <2>5, <2>7, <2>8 DEF IsTable
  <2> QED
    BY <2>3, <2>9 DEF m
<1> QED
  BY <1>3, <1>4

-----------------------------------------------------------------------------
(* The tables that allocBuf and flushFile leave behind *)

\* allocBuf takes the victim's page out of both.
LEMMA AllocTable ==
    ASSUME IInv, ~Exceeded, IsTable(ht, hash)
    PROVE  IsTable(TableAfterAlloc, HashAfter) /\ IsMap(HashAfter)
<1>1. /\ victim \in Frames /\ IsPool(bufDescTable, hash, bufPool)
      /\ IsPool(TableAfter, HashAfter, bufPool)
  BY FreedPool DEF IInv
<1>2. IsMap(hash) /\ IsMap(HashAfter)
  BY <1>1 DEF IsPool, IsMap
<1>3. CASE bufDescTable[victim].valid
  <2>1. bufDescTable[victim].file \in Handles /\ bufDescTable[victim].pageNo \in PageIds
    BY <1>1, <1>3 DEF IsPool, Hashed
  <2> QED
    BY <1>2, <1>3, <2>1, RemovedTable DEF TableAfterAlloc, HashAfter, Without
<1>4. CASE ~bufDescTable[victim].valid
  BY <1>2, <1>4 DEF TableAfterAlloc, HashAfter
<1> QED
  BY <1>3, <1>4

\* after holds the tables that flushFile has had before each frame, up to n.
FlushRun(after, n, S) ==
    after = [j \in 0..n |-> IF j = 0 THEN ht
                            ELSE IF j - 1 \in S THEN Without(after[j - 1], j - 1)
                            ELSE after[j - 1]]

\* One more frame.
LEMMA FlushRunGoesOn ==
    ASSUME NEW S, NEW n \in Nat, NEW after, FlushRun(after, n, S)
    PROVE  \E more : FlushRun(more, n + 1, S)
<1> DEFINE Body(g, j) == IF j = 0 THEN ht
                         ELSE IF j - 1 \in S THEN Without(g[j - 1], j - 1)
                         ELSE g[j - 1]
           more == [j \in 0..(n + 1) |-> IF j = n + 1 THEN Body(after, n + 1) ELSE after[j]]
<1>1. after = [j \in 0..n |-> Body(after, j)]
  BY DEF FlushRun
<1>2. \A j \in 0..n : more[j] = after[j]
  OBVIOUS
<1>3. \A j \in 0..(n + 1) : j = 0 \/ j - 1 \in 0..n
  OBVIOUS
<1>4. \A j \in 0..(n + 1) : j # n + 1 => j \in 0..n
  OBVIOUS
<1>5. ASSUME NEW j \in 0..(n + 1) PROVE Body(more, j) = Body(after, j)
  <2>1. j # 0 => more[j - 1] = after[j - 1]
    <3> HIDE DEF more
    <3> QED
      BY <1>2, <1>3
  <2> HIDE DEF more
  <2> QED
    BY <2>1
<1>6. ASSUME NEW j \in 0..(n + 1) PROVE more[j] = Body(after, j)
  <2> HIDE DEF Body
  <2>1. CASE j = n + 1
    BY <2>1
  <2>2. CASE j # n + 1
    <3>1. j \in 0..n /\ more[j] = after[j]
      BY <1>4, <2>2
    <3> QED
      BY <1>1, <3>1
  <2> QED
    BY <2>1, <2>2
<1>7. DOMAIN more = 0..(n + 1) /\ more = [j \in 0..(n + 1) |-> more[j]]
  OBVIOUS
<1> HIDE DEF more, Body
<1>8. more = [j \in 0..(n + 1) |-> Body(more, j)]
  BY <1>5, <1>6, <1>7
<1>9. FlushRun(more, n + 1, S)
  BY <1>8 DEF FlushRun, Body
<1> QED
  BY <1>9

LEMMA FlushRunExists ==
    ASSUME NEW S
    PROVE  \E after : FlushRun(after, NumBufs, S)
<1> DEFINE T == {n \in Nat : \E after : FlushRun(after, n, S)}
<1>1. 0 \in T
  <2> DEFINE g == [j \in 0..0 |-> ht]
  <2>1. g = [j \in 0..0 |-> IF j = 0 THEN ht
                            ELSE IF j - 1 \in S THEN Without(g[j - 1], j - 1)
                            ELSE g[j - 1]]
    OBVIOUS
  <2>2. FlushRun(g, 0, S)
    BY <2>1 DEF FlushRun
  <2> QED
    BY <2>2
<1>2. \A n \in Nat : n \in T => n + 1 \in T
  BY FlushRunGoesOn
<1>3. Nat \subseteq T
  <2> HIDE DEF T
  <2> QED
    BY <1>1, <1>2, Induction
<1> QED
  BY <1>3, NumBufsAssumption

\* flushFile's removes, one after another.
LEMMA FlushRunEnds ==
    ASSUME NEW S
    PROVE  \E after : /\ TableAfterFlush(S) = after[NumBufs]
                      /\ after[0] = ht
                      /\ \A f \in Frames :
                            after[f + 1] = IF f \in S THEN Without(after[f], f)
                                           ELSE after[f]
<1> DEFINE a == CHOOSE after : FlushRun(after, NumBufs, S)
<1>1. FlushRun(a, NumBufs, S)
  BY FlushRunExists
<1>2. TableAfterFlush(S) = a[NumBufs]
  BY DEF TableAfterFlush, FlushRun
<1> HIDE DEF a
<1>3. \A j \in 0..NumBufs : a[j] = IF j = 0 THEN ht
                                   ELSE IF j - 1 \in S THEN Without(a[j - 1], j - 1)
                                   ELSE a[j - 1]
  BY <1>1, Zenon DEF FlushRun
<1>4. a[0] = ht
  BY <1>3, NumBufsAssumption
<1>5. ASSUME NEW f \in Frames
      PROVE  a[f + 1] = IF f \in S THEN Without(a[f], f) ELSE a[f]
  <2>1. f + 1 \in 0..NumBufs /\ f + 1 # 0 /\ (f + 1) - 1 = f
    BY NumBufsAssumption DEF Frames
  <2> QED
    BY <1>3, <2>1
<1> QED
  BY <1>2, <1>4, <1>5

\* flushFile takes the pages that it has flushed out of both.
LEMMA FlushTable ==
    ASSUME IInv, IsTable(ht, hash), NEW h \in Handles, FlushFile(h)
    PROVE  IsTable(TableAfterFlush(Flushed(h)), hash')
<1> DEFINE S == Flushed(h)
           Gone(q, n) == \E f \in S : f < n /\ bufDescTable[f].pageNo = q
           Map(n) == [g \in Handles |-> [q \in PageIds |->
                         IF g = h /\ Gone(q, n) THEN NoFrame ELSE hash[g][q]]]
<1>1. IsPool(bufDescTable, hash, bufPool) /\ hash \in [Handles -> [PageIds -> 0..NumBufs]]
  BY DEF IInv, IsPool
<1>2. ASSUME NEW f \in S
      PROVE  /\ f \in Frames /\ f \in Nat /\ f < NumBufs
             /\ bufDescTable[f].file = h /\ bufDescTable[f].pageNo \in PageIds
  <2>1. f \in Frames /\ bufDescTable[f].file = h
    BY DEF Flushed, FramesOf
  <2>2. bufDescTable[f].valid
    BY <1>1, <2>1, NoHandleAssumption DEF IsPool, Clear
  <2> QED
    BY <1>1, <2>1, <2>2, NumBufsAssumption DEF IsPool, Hashed, Frames
<1>3. hash' = Map(NumBufs)
  <2>1. hash' = [hash EXCEPT ![h] = [q \in PageIds |->
                    IF \E f \in S : bufDescTable[f].pageNo = q
                    THEN NoFrame ELSE hash[h][q]]]
    BY DEF FlushFile
  <2>2. \A q : Gone(q, NumBufs) <=> \E f \in S : bufDescTable[f].pageNo = q
    BY <1>2
  <2> HIDE DEF Gone, S
  <2>3. hash = [g \in Handles |-> hash[g]]
    BY <1>1
  <2>4. \A g \in Handles : hash[g] = [q \in PageIds |-> hash[g][q]]
    BY <1>1
  <2> QED
    BY <2>1, <2>2, <2>3, <2>4
<1>4. PICK after : /\ TableAfterFlush(S) = after[NumBufs]
                   /\ after[0] = ht
                   /\ \A f \in Frames :
                         after[f + 1] = IF f \in S THEN Without(after[f], f)
                                        ELSE after[f]
  <2> HIDE DEF S
  <2> QED
    BY FlushRunEnds
<1>5. ASSUME NEW n \in Nat PROVE IsMap(Map(n))
  <2> HIDE DEF Gone
  <2> QED
    BY <1>1, NoFrameIsNone DEF IsMap
<1>6. Map(0) = hash
  <2>1. \A q : ~Gone(q, 0)
    BY <1>2
  <2>2. hash = [g \in Handles |-> [q \in PageIds |-> hash[g][q]]]
    BY <1>1
  <2> HIDE DEF Gone
  <2> QED
    BY <2>1, <2>2
<1> HIDE DEF S
<1>7. ASSUME NEW n \in 0..(NumBufs - 1), IsTable(after[n], Map(n))
      PROVE  IsTable(after[n + 1], Map(n + 1))
  <2>1. n \in Frames /\ n \in Nat
    BY NumBufsAssumption DEF Frames
  <2>2. CASE n \in S
    <3> DEFINE p == bufDescTable[n].pageNo
    <3>1. bufDescTable[n].file = h /\ p \in PageIds
      BY <1>2, <2>2
    <3>2. after[n + 1] = Removed(after[n], h, p)
      BY <1>4, <2>1, <2>2, <3>1 DEF Without
    <3>3. \A q : Gone(q, n + 1) <=> Gone(q, n) \/ q = p
      <4>1. \A f \in S : f < n + 1 <=> f < n \/ f = n
        BY <1>2, <2>1
      <4> QED
        BY <2>2, <4>1
    <3> HIDE DEF p, Gone
    <3>4. Map(n + 1) = [Map(n) EXCEPT ![h][p] = NoFrame]
      BY <3>1, <3>3
    <3>5. IsMap(Map(n))
      BY <1>5, <2>1
    <3> HIDE DEF Map
    <3> QED
      BY <1>7, <3>1, <3>2, <3>4, <3>5, RemovedTable
  <2>3. CASE n \notin S
    <3>1. after[n + 1] = after[n]
      BY <1>4, <2>1, <2>3
    <3>2. \A q : Gone(q, n + 1) <=> Gone(q, n)
      <4>1. \A f \in S : f < n + 1 <=> f < n
        <5> SUFFICES ASSUME NEW f \in S PROVE f < n + 1 <=> f < n
          OBVIOUS
        <5>1. f # n /\ f \in Nat
          BY <1>2, <2>3
        <5> QED
          BY <2>1, <5>1
      <4> QED
        BY <4>1
    <3> HIDE DEF Gone
    <3>3. Map(n + 1) = Map(n)
      BY <3>2
    <3> HIDE DEF Map
    <3> QED
      BY <1>7, <3>1, <3>3
  <2> QED
    BY <2>2, <2>3
<1> DEFINE T == {n \in 0..NumBufs : IsTable(after[n], Map(n))}
<1>8. 0 \in T
  <2> HIDE DEF Map
  <2> QED
    BY <1>4, <1>6, NumBufsAssumption
<1>9. \A n \in 0..(NumBufs - 1) : n \in T => n + 1 \in T
  <2> HIDE DEF Map
  <2> QED
    BY <1>7, NumBufsAssumption
<1>10. NumBufs \in T
  <2> HIDE DEF T
  <2>1. 0..NumBufs \subseteq T
    BY <1>8, <1>9, InductionUpTo, NumBufsAssumption
  <2> QED
    BY <2>1, NumBufsAssumption
<1> HIDE DEF Map
<1> QED
  BY <1>3, <1>4, <1>10 DEF S

-----------------------------------------------------------------------------
(* The calls *)

\* Every call is one of BufMgr's.
LEMMA CallIsCall == [TableNext]_tableVars => [Next]_vars
<1> SUFFICES ASSUME [TableNext]_tableVars PROVE [Next]_vars
  OBVIOUS
<1>1. CASE OnlyLooks
  BY <1>1 DEF OnlyLooks, Next
<1>2. ASSUME NEW h \in Handles, NEW p \in PageIds, ReadMissTable(h, p) \/ DisposeTable(h, p)
      PROVE  Next
  BY <1>2 DEF ReadMissTable, DisposeTable, Next
<1>3. ASSUME NEW h \in Handles, AllocPageTable(h) \/ FlushFileTable(h)
      PROVE  Next
  BY <1>3 DEF AllocPageTable, FlushFileTable, Next
<1>4. CASE RestartTable
  BY <1>4 DEF RestartTable, Next
<1>5. CASE UNCHANGED tableVars
  BY <1>5 DEF tableVars
<1> QED
  BY <1>1, <1>2, <1>3, <1>4, <1>5 DEF TableNext

\* A new table and a new map have no page.
LEMMA EmptyTableAgrees ==
    IsTable(EmptyTable, [h \in Handles |-> [p \in PageIds |-> NoFrame]])
<1>1. EmptyTable \in [Chains -> Seq(Bucket)] /\ \A i \in Chains : EmptyTable[i] = <<>>
  BY DEF EmptyTable
<1>2. DOMAIN <<>> = {}
  OBVIOUS
<1> QED
  BY <1>1, <1>2 DEF IsTable, NoDouble

LEMMA TableInvInit == TableInit => TableInv
  BY InvInit, EmptyTableAgrees DEF TableInit, TableInv, Init

\* Calls that find no frame, or only look, leave the map as it is.
LEMMA LooksKeepMap ==
    ASSUME OnlyLooks
    PROVE  hash' = hash /\ ht' = ht
<1>1. ASSUME NEW h \in Handles, NEW p \in PageIds,
             \/ \E c \in Clients : ReadHit(c, h, p)
             \/ ReadNoFrame(h, p)
             \/ DisposeUnbuffered(h, p)
      PROVE  hash' = hash
  BY <1>1 DEF ReadHit, ReadNoFrame, AllocBufExceeded, AllocBufFails, DisposeUnbuffered, pool
<1>2. ASSUME NEW h \in Handles, AllocPageNoFrame(h) PROVE hash' = hash
  BY <1>2 DEF AllocPageNoFrame, AllocBufExceeded, AllocBufFails
<1>3. ASSUME NEW c \in Clients,
             \/ \E d \in Data : WritePinned(c, d)
             \/ \E dirty \in BOOLEAN : UnPin(c, dirty)
             \/ UnPinLost(c)
      PROVE  hash' = hash
  BY <1>3 DEF WritePinned, UnPin, UnPinLost, pool
<1> QED
  BY <1>1, <1>2, <1>3 DEF OnlyLooks

\* Every call leaves chains that agree with the map it leaves.
LEMMA TableInvNext == TableInv /\ [TableNext]_tableVars => TableInv'
<1> SUFFICES ASSUME TableInv, [TableNext]_tableVars PROVE TableInv'
  OBVIOUS
<1>1. IInv /\ IsTable(ht, hash) /\ IInv'
  BY CallIsCall, InvNext DEF TableInv
<1>2. IsMap(hash)
  BY <1>1 DEF IInv, IsPool, IsMap
<1>3. CASE OnlyLooks
  BY <1>1, <1>3, LooksKeepMap DEF TableInv
<1>4. ASSUME NEW h \in Handles, NEW p \in PageIds, ReadMissTable(h, p)
      PROVE  IsTable(ht', hash')
  <2>1. ~Exceeded
    BY <1>4 DEF ReadMissTable, ReadMiss, ReadInvalid, Allocates
  <2>2. IsTable(TableAfterAlloc, HashAfter) /\ IsMap(HashAfter) /\ victim \in Frames
    BY <1>1, <2>1, AllocTable, FreedPool DEF IInv
  <2>3. ASSUME NEW c \in Clients, ReadMiss(c, h, p),
               ht' = Inserted(TableAfterAlloc, h, p, victim)
        PROVE  IsTable(ht', hash')
    <3>1. HashAfter[h][p] = NoFrame
      BY <1>1, <2>1, <2>3, FreedPool DEF ReadMiss, IInv
    <3>2. hash' = [HashAfter EXCEPT ![h][p] = victim]
      BY <2>3 DEF ReadMiss
    <3> QED
      BY <2>2, <2>3, <3>1, <3>2, InsertedTable
  <2>4. ASSUME ReadInvalid(h, p), ht' = TableAfterAlloc PROVE IsTable(ht', hash')
    BY <2>2, <2>4 DEF ReadInvalid
  <2> QED
    BY <1>4, <2>3, <2>4 DEF ReadMissTable
<1>5. ASSUME NEW h \in Handles, NEW p \in PageIds, DisposeTable(h, p)
      PROVE  IsTable(ht', hash')
  <2>1. hash' = [hash EXCEPT ![h][p] = NoFrame] /\ ht' = Removed(ht, h, p)
    BY <1>5 DEF DisposeTable, DisposeBuffered
  <2> QED
    BY <1>1, <1>2, <2>1, RemovedTable
<1>6. ASSUME NEW h \in Handles, AllocPageTable(h)
      PROVE  IsTable(ht', hash')
  <2> DEFINE p == NewNumber(h)
  <2>1. ~Exceeded /\ p \in PageIds /\ ht' = Inserted(TableAfterAlloc, h, p, victim)
    BY <1>6 DEF AllocPageTable, AllocPage, AllocPagePresent, Allocates, CanAllocate, NewNumber
  <2>2. IsTable(TableAfterAlloc, HashAfter) /\ IsMap(HashAfter) /\ victim \in Frames
    BY <1>1, <2>1, AllocTable, FreedPool DEF IInv
  <2>3. CASE \E c \in Clients : AllocPage(c, h)
    <3>1. HashAfter[h][p] = NoFrame /\ hash' = [HashAfter EXCEPT ![h][p] = victim]
      BY <2>3 DEF AllocPage
    <3> HIDE DEF p
    <3> QED
      BY <2>1, <2>2, <3>1, InsertedTable
  <2>4. CASE AllocPagePresent(h)
    <3>1. HashAfter[h][p] # NoFrame /\ hash' = HashAfter
      BY <2>4 DEF AllocPagePresent
    <3> HIDE DEF p
    <3> QED
      BY <2>1, <2>2, <3>1, InsertedTwice
  <2> QED
    BY <1>6, <2>3, <2>4 DEF AllocPageTable
<1>7. ASSUME NEW h \in Handles, FlushFileTable(h)
      PROVE  IsTable(ht', hash')
  BY <1>1, <1>7, FlushTable DEF FlushFileTable
<1>8. CASE RestartTable
  BY <1>1, <1>8, EmptyTableAgrees DEF RestartTable, Restart, TableInv
<1>9. CASE UNCHANGED tableVars
  BY <1>1, <1>9 DEF tableVars, vars, pool, TableInv
<1> QED
  BY <1>1, <1>3, <1>4, <1>5, <1>6, <1>7, <1>8, <1>9 DEF TableNext, TableInv

-----------------------------------------------------------------------------
(* What the invariant says of the chains *)

LEMMA TableInvAgrees == TableInv => LookupsAgree
<1> SUFFICES ASSUME TableInv PROVE LookupsAgree
  OBVIOUS
<1>1. IsMap(hash) /\ IsTable(ht, hash)
  BY DEF TableInv, IInv, IsPool, IsMap
<1>2. \A h \in Handles, p \in PageIds : Lookup(ht, h, p) = hash[h][p]
  BY <1>1, LookupFinds
<1>3. hash \in [Handles -> [PageIds -> 0..NumBufs]]
  BY <1>1 DEF IsMap
<1> QED
  BY <1>2, <1>3 DEF LookupsAgree, ChainMap

\* A bucket is that of the frame it names.
LEMMA BucketFrame ==
    ASSUME TableInv, NEW i \in Chains, NEW j \in DOMAIN ht[i]
    PROVE  /\ ht[i] \in Seq(Bucket) /\ ht[i][j] \in Bucket
           /\ j \in 1..Len(ht[i]) /\ ht[i][j].frameNo \in Frames
           /\ bufDescTable[ht[i][j].frameNo].valid
           /\ bufDescTable[ht[i][j].frameNo].file = ht[i][j].file
           /\ bufDescTable[ht[i][j].frameNo].pageNo = ht[i][j].pageNo
<1>1. /\ ht[i] \in Seq(Bucket) /\ Agrees(ht[i][j], i, hash)
      /\ EntriesLead(bufDescTable, hash)
  BY DEF TableInv, IsTable, IInv, IsPool
<1>2. ht[i][j] \in Bucket /\ j \in 1..Len(ht[i])
  BY <1>1
<1>3. /\ ht[i][j].file \in Handles /\ ht[i][j].pageNo \in PageIds
      /\ ht[i][j].frameNo \in Frames
  BY <1>2 DEF Bucket
<1>4. hash[ht[i][j].file][ht[i][j].pageNo] = ht[i][j].frameNo
  BY <1>1 DEF Agrees
<1>5. ht[i][j].frameNo # NoFrame
  BY <1>3, NoFrameIsNone
<1> QED
  BY <1>1, <1>2, <1>3, <1>4, <1>5 DEF EntriesLead

\* No frame has two buckets.
LEMMA BucketsDiffer ==
    ASSUME TableInv, NEW i \in Chains, NEW j \in DOMAIN ht[i],
           NEW m \in Chains, NEW n \in DOMAIN ht[m],
           ht[i][j].frameNo = ht[m][n].frameNo
    PROVE  i = m /\ j = n
<1>1. ht[i][j].file = ht[m][n].file /\ ht[i][j].pageNo = ht[m][n].pageNo
  BY BucketFrame
<1>2. i = m
  BY <1>1 DEF TableInv, IsTable, Agrees
<1> QED
  BY <1>1, <1>2 DEF TableInv, IsTable, NoDouble

\* No chain is longer than the pool.
LEMMA ChainsFit ==
    ASSUME TableInv, NEW i \in Chains
    PROVE  Len(ht[i]) \in Nat /\ Len(ht[i]) <= NumBufs
<1> DEFINE c == ht[i]
           frameOf == [j \in 1..Len(c) |-> c[j].frameNo]
<1>1. c \in Seq(Bucket) /\ Len(c) \in Nat /\ DOMAIN c = 1..Len(c)
  BY DEF TableInv, IsTable
<1>2. \A j \in 1..Len(c) : c[j].frameNo \in Frames
  BY <1>1, BucketFrame
<1>3. \A j, l \in 1..Len(c) : c[j].frameNo = c[l].frameNo => j = l
  BY <1>1, BucketsDiffer
<1> HIDE DEF c
<1>4. frameOf \in Injection(1..Len(c), Frames)
  BY <1>2, <1>3 DEF Injection, IsInjective
<1>5. IsFiniteSet(Frames) /\ Cardinality(Frames) = NumBufs
  BY FS_Interval, NumBufsAssumption DEF Frames
<1>6. IsFiniteSet(1..Len(c)) /\ Cardinality(1..Len(c)) = Len(c)
  BY <1>1, FS_Interval
<1>7. Cardinality(1..Len(c)) <= Cardinality(Frames)
  BY <1>4, <1>5, <1>6, FS_Injection
<1> QED
  BY <1>1, <1>5, <1>6, <1>7 DEF c

LEMMA TableInvExact == TableInv => OneBucketPerFrame
<1> SUFFICES ASSUME TableInv PROVE OneBucketPerFrame
  OBVIOUS
<1>1. \A i \in Chains : Len(ht[i]) <= NumBufs
  BY ChainsFit
<1>2. ASSUME NEW k \in Buckets
      PROVE  k[1] \in Chains /\ k[2] \in DOMAIN ht[k[1]] /\ k = <<k[1], k[2]>>
  BY DEF Buckets
<1>3. ASSUME NEW k \in Buckets
      PROVE  /\ bufDescTable[BucketAt(k).frameNo].valid
             /\ bufDescTable[BucketAt(k).frameNo].file = BucketAt(k).file
             /\ bufDescTable[BucketAt(k).frameNo].pageNo = BucketAt(k).pageNo
  BY <1>2, BucketFrame DEF BucketAt
<1>4. ASSUME NEW k \in Buckets, NEW l \in Buckets,
             BucketAt(k).frameNo = BucketAt(l).frameNo
      PROVE  k = l
  <2>1. k[1] = l[1] /\ k[2] = l[2]
    BY <1>2, <1>4, BucketsDiffer DEF BucketAt
  <2>2. k = <<k[1], k[2]>> /\ l = <<l[1], l[2]>>
    BY <1>2
  <2> QED
    BY <2>1, <2>2
<1>5. ASSUME NEW f \in Frames, bufDescTable[f].valid
      PROVE  \E k \in Buckets : BucketAt(k).frameNo = f
  <2> DEFINE h == bufDescTable[f].file
             p == bufDescTable[f].pageNo
             i == Index(h, p)
  <2>1. h \in Handles /\ p \in PageIds /\ hash[h][p] = f
    BY <1>5 DEF TableInv, IInv, IsPool, Hashed
  <2>2. f # NoFrame
    BY NoFrameIsNone
  <2>3. i \in Chains /\ Stops(ht[i], h, p) # {} /\ IsTable(ht, hash)
    BY <2>1, <2>2, IndexType DEF TableInv, IsTable
  <2> HIDE DEF h, p, i
  <2>4. PICK j \in DOMAIN ht[i] : ht[i][j].file = h /\ ht[i][j].pageNo = p
    BY <2>3 DEF Stops
  <2>5. ht[i][j].frameNo = f
    BY <2>1, <2>3, <2>4 DEF IsTable, Agrees
  <2>6. Len(ht[i]) \in Nat /\ Len(ht[i]) <= NumBufs /\ j \in 1..Len(ht[i])
    BY <2>3, <2>4, ChainsFit, BucketFrame
  <2>7. <<i, j>> \in Buckets
    BY <2>3, <2>4, <2>6, NumBufsAssumption DEF Buckets
  <2> QED
    BY <2>5, <2>7 DEF BucketAt
<1> QED
  BY <1>1, <1>3, <1>4, <1>5 DEF OneBucketPerFrame

-----------------------------------------------------------------------------
(* The buffer manager of BufMgr with the answers of the chains for its map:  *)
(* what does not look a page up is the same by definition.                   *)

\* The constants of both.
LEMMA SameNumbers ==
    /\ Chained!PageIds = PageIds /\ Chained!NoPage = NoPage
    /\ Chained!Frames = Frames /\ Chained!NoFrame = NoFrame
    /\ Chained!Idle = Idle /\ Chained!Clear = Clear
    /\ Chained!FreshPage = FreshPage /\ Chained!NewFile = NewFile
  BY DEF PageIds, Chained!PageIds, NoPage, Chained!NoPage, Frames,
     Chained!Frames, NoFrame, Chained!NoFrame, Idle, Chained!Idle, Clear,
     Chained!Clear, FreshPage, Chained!FreshPage, NewFile, Chained!NewFile

\* A walk over a file ends where it does, whoever answers the lookups; so with
\* each operator below that does not look a page up.
LEMMA SameWalks ==
    ASSUME NEW f, NEW S
    PROVE  /\ Chained!Readable(f) = Readable(f)
           /\ Chained!WalkEnd(f, S) = WalkEnd(f, S)
  BY DEF PageIds, Chained!PageIds, NoPage, Chained!NoPage, Readable,
     Chained!Readable, WalkEnd, Chained!WalkEnd, Chain, Chained!Chain,
     LinksFrom, Chained!LinksFrom, Successor, Chained!Successor, Endless,
     Chained!Endless

\* allocatePage.
LEMMA SameAllocation ==
    ASSUME NEW f
    PROVE  /\ Chained!AllocateFails(f) = AllocateFails(f)
           /\ Chained!NewPageNumber(f) = NewPageNumber(f)
           /\ Chained!NewPage(f) = NewPage(f)
           /\ Chained!Allocated(f) = Allocated(f)
  BY DEF PageIds, Chained!PageIds, NoPage, Chained!NoPage, WalkEnd,
     Chained!WalkEnd, Chain, Chained!Chain, LinksFrom, Chained!LinksFrom,
     Successor, Chained!Successor, Endless, Chained!Endless, Readable,
     Chained!Readable, AllocateFails, Chained!AllocateFails, Allocated,
     Chained!Allocated, PutPage, Chained!PutPage, PutHeader,
     Chained!PutHeader, AtHead, Chained!AtHead, Reuses, Chained!Reuses,
     Predecessor, Chained!Predecessor, NewPageNumber,
     Chained!NewPageNumber, NewPage, Chained!NewPage, NewPageNext,
     Chained!NewPageNext, AllocateHeader, Chained!AllocateHeader

\* deletePage.
LEMMA SameDeletion ==
    ASSUME NEW f, NEW p
    PROVE  /\ Chained!DeleteFails(f, p) = DeleteFails(f, p)
           /\ Chained!Deleted(f, p) = Deleted(f, p)
  BY DEF PageIds, Chained!PageIds, NoPage, Chained!NoPage, WalkEnd,
     Chained!WalkEnd, Chain, Chained!Chain, LinksFrom, Chained!LinksFrom,
     Successor, Chained!Successor, Endless, Chained!Endless, Readable,
     Chained!Readable, DeleteFails, Chained!DeleteFails, Deleted,
     Chained!Deleted, DeletePredecessor, Chained!DeletePredecessor,
     DeleteHeader, Chained!DeleteHeader, IsHead, Chained!IsHead, PutPage,
     Chained!PutPage, PutHeader, Chained!PutHeader, FreshPage,
     Chained!FreshPage

\* writePage, for the frames of S.
LEMMA SameWriteBack ==
    ASSUME NEW d, NEW f, NEW S
    PROVE  /\ Chained!WriteBackThrows(d, f) = WriteBackThrows(d, f)
           /\ Chained!WrittenBack(d, S) = WrittenBack(d, S)
  BY DEF PageIds, Chained!PageIds, NoPage, Chained!NoPage, WriteThrows,
     Chained!WriteThrows, WriteBackThrows, Chained!WriteBackThrows,
     WrittenBack, Chained!WrittenBack, FileIn, Chained!FileIn

\* The sweep of allocBuf.
LEMMA SameSweep ==
    ASSUME NEW f
    PROVE  /\ Chained!Exceeded = Exceeded
           /\ Chained!victim = victim
           /\ Chained!SweptTable(f) = SweptTable(f)
           /\ Chained!VictimDirty = VictimDirty
           /\ Chained!TableAfter = TableAfter
  BY DEF Busy, Chained!Busy, Exceeded, Chained!Exceeded, victim,
     Chained!victim, Victim, Chained!Victim, Turns, Chained!Turns, Frames,
     Chained!Frames, Swept, Chained!Swept, SweptTable, Chained!SweptTable,
     VictimDirty, Chained!VictimDirty, TableAfter, Chained!TableAfter,
     Clear, Chained!Clear, NoPage, Chained!NoPage

\* The outcomes of allocBuf.
LEMMA SameAlloc ==
    ASSUME NEW d
    PROVE  /\ Chained!VictimFails(d) = VictimFails(d)
           /\ Chained!Allocates(d) = Allocates(d)
           /\ Chained!DiskAfter(d) = DiskAfter(d)
  BY SameSweep, SameWriteBack
     DEF VictimFails, Chained!VictimFails, Allocates, Chained!Allocates,
     DiskAfter, Chained!DiskAfter

\* Pins, counters, and what clients may dispose of.
LEMMA SameEffects ==
    ASSUME NEW c, NEW h, NEW p, NEW f, NEW m, NEW n
    PROVE  /\ Chained!Active(c) = Active(c)
           /\ Chained!Set(h, p) = Set(h, p)
           /\ Pins(c, h, p, f) => Chained!Pins(c, h, p, f)
           /\ Count(m, n, p) => Chained!Count(m, n, p)
           /\ Chained!MayDispose(h, p) = MayDispose(h, p)
  BY DEF Active, Chained!Active, Idle, Chained!Idle, NoPage, Chained!NoPage,
     NoFrame, Chained!NoFrame, Set, Chained!Set, Pins, Chained!Pins, Count,
     Chained!Count, Plus, Chained!Plus, MayDispose, Chained!MayDispose,
     Readable, Chained!Readable, PageIds, Chained!PageIds

\* The frames that flushFile comes to.
LEMMA SameFlushed ==
    ASSUME NEW h
    PROVE  Chained!Flushed(h) = Flushed(h)
  BY SameNumbers, SameWriteBack
     DEF FramesOf, Chained!FramesOf, StopsFlush, Chained!StopsFlush, Flushed,
     Chained!Flushed

\* The pages that flushFile writes are counted alike.
LEMMA SameCount ==
    ASSUME NEW S
    PROVE  Chained!Cardinality(S) = Cardinality(S)
  BY DEF Cardinality, Chained!Cardinality

\* allocBuf removes the victim from one map.
LEMMA SameMapAfter ==
    ASSUME hash = ChainMap
    PROVE  Chained!HashAfter = HashAfter
  BY SameSweep DEF HashAfter, Chained!HashAfter, NoFrame, Chained!NoFrame

-----------------------------------------------------------------------------
(* Each call, answered by the chains, is the call of BufMgr *)

\* readPage, of a page that is in the pool.
LEMMA ChainedReadHit ==
    ASSUME hash = ChainMap, hash' = ChainMap',
           NEW c, NEW h, NEW p, ReadHit(c, h, p)
    PROVE  Chained!ReadHit(c, h, p)
  BY SameNumbers, SameEffects DEF ReadHit, Chained!ReadHit

\* readPage, of a page that is not.
LEMMA ChainedReadMiss ==
    ASSUME hash = ChainMap, hash' = ChainMap',
           NEW c, NEW h, NEW p, ReadMiss(c, h, p)
    PROVE  Chained!ReadMiss(c, h, p)
  BY SameNumbers, SameEffects, SameAlloc, SameSweep, SameWalks, SameMapAfter
     DEF ReadMiss, Chained!ReadMiss

\* readPage, of a page that the file does not have.
LEMMA ChainedReadInvalid ==
    ASSUME hash = ChainMap, hash' = ChainMap',
           NEW h, NEW p, ReadInvalid(h, p)
    PROVE  Chained!ReadInvalid(h, p)
  BY SameNumbers, SameEffects, SameAlloc, SameSweep, SameWalks, SameMapAfter
     DEF ReadInvalid, Chained!ReadInvalid

\* readPage, when allocBuf throws.
LEMMA ChainedReadNoFrame ==
    ASSUME hash = ChainMap, hash' = ChainMap',
           NEW h, NEW p, ReadNoFrame(h, p)
    PROVE  Chained!ReadNoFrame(h, p)
  BY SameNumbers, SameEffects, SameAlloc, SameSweep
     DEF ReadNoFrame, Chained!ReadNoFrame, AllocBufExceeded,
     Chained!AllocBufExceeded, AllocBufFails, Chained!AllocBufFails

\* allocPage.
LEMMA ChainedAllocPage ==
    ASSUME hash = ChainMap, hash' = ChainMap',
           NEW c, NEW h, AllocPage(c, h)
    PROVE  Chained!AllocPage(c, h)
  BY SameNumbers, SameEffects, SameAlloc, SameSweep, SameAllocation, SameMapAfter
     DEF AllocPage, Chained!AllocPage, CanAllocate, Chained!CanAllocate,
     NewNumber, Chained!NewNumber, GrownDisk, Chained!GrownDisk

\* allocPage, when insert throws.
LEMMA ChainedAllocPagePresent ==
    ASSUME hash = ChainMap, hash' = ChainMap',
           NEW h, AllocPagePresent(h)
    PROVE  Chained!AllocPagePresent(h)
  BY SameNumbers, SameEffects, SameAlloc, SameSweep, SameAllocation, SameMapAfter
     DEF AllocPagePresent, Chained!AllocPagePresent, CanAllocate,
     Chained!CanAllocate, NewNumber, Chained!NewNumber, GrownDisk,
     Chained!GrownDisk

\* allocPage, when allocBuf throws.
LEMMA ChainedAllocPageNoFrame ==
    ASSUME hash = ChainMap, hash' = ChainMap',
           NEW h, AllocPageNoFrame(h)
    PROVE  Chained!AllocPageNoFrame(h)
  BY SameNumbers, SameEffects, SameAlloc, SameSweep, SameAllocation
     DEF AllocPageNoFrame, Chained!AllocPageNoFrame, CanAllocate,
     Chained!CanAllocate, NewNumber, Chained!NewNumber, GrownDisk,
     Chained!GrownDisk, AllocBufExceeded, Chained!AllocBufExceeded,
     AllocBufFails, Chained!AllocBufFails

\* A write through the page pointer.
LEMMA ChainedWritePinned ==
    ASSUME hash = ChainMap, hash' = ChainMap',
           NEW c, NEW d, WritePinned(c, d)
    PROVE  Chained!WritePinned(c, d)
  BY SameEffects DEF WritePinned, Chained!WritePinned

\* unPinPage.
LEMMA ChainedUnPin ==
    ASSUME hash = ChainMap, hash' = ChainMap',
           NEW c, NEW dirty, UnPin(c, dirty)
    PROVE  Chained!UnPin(c, dirty)
  BY SameEffects, SameNumbers
     DEF UnPin, Chained!UnPin, PinnedFrame, Chained!PinnedFrame

\* unPinPage, of a page that is gone or not pinned.
LEMMA ChainedUnPinLost ==
    ASSUME hash = ChainMap, hash' = ChainMap',
           NEW c, UnPinLost(c)
    PROVE  Chained!UnPinLost(c)
  BY SameEffects, SameNumbers
     DEF UnPinLost, Chained!UnPinLost, PinnedFrame, Chained!PinnedFrame, pool,
     Chained!pool

\* flushFile.
LEMMA ChainedFlushFile ==
    ASSUME hash = ChainMap, hash' = ChainMap',
           NEW h, FlushFile(h)
    PROVE  Chained!FlushFile(h)
  BY SameNumbers, SameWriteBack, SameEffects, SameFlushed, SameCount
     DEF FlushFile, Chained!FlushFile

\* disposePage, of a page that is in the pool.
LEMMA ChainedDisposeBuffered ==
    ASSUME hash = ChainMap, hash' = ChainMap',
           NEW h, NEW p, DisposeBuffered(h, p)
    PROVE  Chained!DisposeBuffered(h, p)
  BY SameNumbers, SameEffects, SameDeletion
     DEF DisposeBuffered, Chained!DisposeBuffered

\* disposePage, of a page that is not.
LEMMA ChainedDisposeUnbuffered ==
    ASSUME hash = ChainMap, hash' = ChainMap',
           NEW h, NEW p, DisposeUnbuffered(h, p)
    PROVE  Chained!DisposeUnbuffered(h, p)
  BY SameNumbers, SameEffects, SameDeletion
     DEF DisposeUnbuffered, Chained!DisposeUnbuffered, pool, Chained!pool

\* ~BufMgr and a new BufMgr.
LEMMA ChainedRestart ==
    ASSUME hash = ChainMap, hash' = ChainMap',
           Restart
    PROVE  Chained!Restart
  BY SameNumbers, SameEffects, SameWriteBack
     DEF Restart, Chained!Restart, DirtyFrames, Chained!DirtyFrames, Saved,
     Chained!Saved

\* Every step, while the chains and the map answer alike before and after it.
LEMMA ChainedNext ==
    ASSUME hash = ChainMap, hash' = ChainMap', [Next]_vars
    PROVE  [Chained!Next]_(Chained!vars)
<1>1. ASSUME NEW h \in Handles, NEW p \in PageIds,
             \/ \E c \in Clients : ReadHit(c, h, p) \/ ReadMiss(c, h, p)
             \/ ReadInvalid(h, p)
             \/ ReadNoFrame(h, p)
             \/ DisposeBuffered(h, p)
             \/ DisposeUnbuffered(h, p)
      PROVE  Chained!Next
  BY <1>1, SameNumbers, ChainedReadHit, ChainedReadMiss, ChainedReadInvalid,
     ChainedReadNoFrame, ChainedDisposeBuffered, ChainedDisposeUnbuffered
     DEF Chained!Next
<1>2. ASSUME NEW h \in Handles,
             \/ \E c \in Clients : AllocPage(c, h)
             \/ AllocPagePresent(h)
             \/ AllocPageNoFrame(h)
             \/ FlushFile(h)
      PROVE  Chained!Next
  BY <1>2, ChainedAllocPage, ChainedAllocPagePresent, ChainedAllocPageNoFrame,
     ChainedFlushFile DEF Chained!Next
<1>3. ASSUME NEW c \in Clients,
             \/ \E d \in Data : WritePinned(c, d)
             \/ \E dirty \in BOOLEAN : UnPin(c, dirty)
             \/ UnPinLost(c)
      PROVE  Chained!Next
  BY <1>3, ChainedWritePinned, ChainedUnPin, ChainedUnPinLost DEF Chained!Next
<1>4. CASE Restart
  BY <1>4, ChainedRestart DEF Chained!Next
<1>5. CASE UNCHANGED vars
  BY <1>5 DEF vars, pool, Chained!vars, Chained!pool
<1> QED
  BY <1>1, <1>2, <1>3, <1>4, <1>5 DEF Next

\* The first state: a new table answers as the new map.
LEMMA ChainedInit ==
    ASSUME TableInit
    PROVE  Chained!Init
<1>1. hash = ChainMap
  BY TableInvInit, TableInvAgrees DEF LookupsAgree
<1> QED
  BY <1>1, SameNumbers DEF TableInit, Init, Chained!Init

\* What clients find is the same through the chains.
LEMMA SameFound == LookupsAgree => Chained!Found = Found
  BY SameNumbers
     DEF LookupsAgree, Found, Chained!Found, Content, Chained!Content

-----------------------------------------------------------------------------

\* For every number of chains and frames, and wherever the File objects lie in
\* memory, lookup (bufHashTbl.cpp) finds the frame that holds the page, and
\* throws for every other page.
THEOREM TableAnswersAsMap == TableSpec => []LookupsAgree
  BY TableInvInit, TableInvNext, TableInvAgrees, PTL DEF TableSpec

\* For every number of chains and frames, insert and remove (bufHashTbl.cpp)
\* leave one bucket for each valid frame and none besides.
THEOREM TableIsExact == TableSpec => []OneBucketPerFrame
  BY TableInvInit, TableInvNext, TableInvExact, PTL DEF TableSpec

\* The buffer manager that asks the chains is the one that asks the map: what
\* the calls of buffer.cpp do with the answers of bufHashTbl.cpp, step by step,
\* is what BufMgr does, with the answers for its map.
THEOREM ChainsImplementMap == TableSpec => MapImplemented
<1>1. TableInit => Chained!Init
  BY ChainedInit
<1>2. LookupsAgree /\ LookupsAgree' /\ [TableNext]_tableVars
      => [Chained!Next]_(Chained!vars)
  BY CallIsCall, ChainedNext DEF LookupsAgree
<1> QED
  BY <1>1, <1>2, TableAnswersAsMap, PTL
     DEF TableSpec, MapImplemented, Chained!Spec

\* The buffer manager over its chains cannot be noticed either: what clients
\* find through buffer.cpp and bufHashTbl.cpp together are the pages of a store.
THEOREM TablePoolImplementsStore ==
    ASSUME Disciplined, OneHandle
    PROVE  TableSpec => Chained!StoreImplemented
<1>1. TableSpec => Spec
  BY CallIsCall, PTL DEF TableSpec, TableInit, Spec
<1>2. Chained!Found = Found /\ Store!Init => Chained!Store!Init
  BY SameNumbers DEF Store!Init, Chained!Store!Init
<1>3. /\ Chained!Found = Found /\ (Chained!Found = Found)' /\ [Store!Next]_Found
      => [Chained!Store!Next]_(Chained!Found)
  BY SameNumbers
     DEF Store!Next, Chained!Store!Next, Store!Allocate, Chained!Store!Allocate,
         Store!Write, Chained!Store!Write, Store!Release, Chained!Store!Release
<1> QED
  BY <1>1, <1>2, <1>3, SameFound, TableAnswersAsMap, PoolImplementsStore, PTL
     DEF StoreImplemented, Store!Spec, Chained!StoreImplemented, Chained!Store!Spec
=============================================================================
