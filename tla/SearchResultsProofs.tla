------------------------- MODULE SearchResultsProofs -------------------------
(***************************************************************************)
(* For every index and every text searched for: the keyboard is never at   *)
(* an entry of the results that is hidden, the arrow keys lead to the      *)
(* entry displayed next, only the row that is acted on opens, and, while   *)
(* keys are held one at a time, a key that repeats acts as itself.  The    *)
(* last needs to know that lastKey is the key held whenever the keyboard   *)
(* is at an entry: the field gives the keyboard to an entry only when its  *)
(* key is released.                                                        *)
(***************************************************************************)
EXTENDS SearchResults, FiniteSetTheorems, TLAPS

-----------------------------------------------------------------------------
(* The inductive invariants *)

Keyboard == [lastKey : Keys \cup {NoKey}, repeatOn : BOOLEAN]

PageInv ==
    /\ page \in Seq(STRING \X (Nat \ {0}))
    /\ shown \subseteq Rows
    /\ window \in BOOLEAN
    /\ keys \in Keyboard
    /\ held \in Seq(Keys)
    /\ AtEntry => Displayed(focus)

\* At an entry, the key that is held is the key that acts; it has gone down
\* there, and its first keypress event is still to be ignored.
KeyInv ==
    /\ Len(held) <= 1
    /\ AtEntry /\ held # <<>> /\ Last(held) # "Enter" =>
          /\ keys.lastKey = Last(held)
          /\ fresh => ~keys.repeatOn

-----------------------------------------------------------------------------

\* The field and the rest of the page are no entries.
LEMMA NoEntry ==
    ASSUME page \in Seq(STRING \X (Nat \ {0}))
    PROVE  Field \notin Entries /\ Away \notin Entries
<1>1. Rows \subseteq Nat \ {0}
  BY DEF Rows
<1>2. \A e \in Entries : e[1] \in Rows
  BY DEF Entries
<1> QED
  BY <1>1, <1>2 DEF Field, Away

\* What is searched for: a page of the index, and the rows of it that match.
LEMMA SearchType ==
    ASSUME NEW s \in Searches
    PROVE  /\ s[1] \in Seq(STRING \X (Nat \ {0}))
           /\ Matching(s[1], s[2]) \subseteq DOMAIN s[1]
  BY SearchesAssumption DEF Matching

LEMMA InitInv == Init => PageInv /\ KeyInv
<1> SUFFICES ASSUME Init PROVE PageInv /\ KeyInv
  OBVIOUS
<1>1. PICK s \in Searches : page = s[1] /\ shown = Matching(s[1], s[2])
  BY DEF Init, Results
<1>2. page \in Seq(STRING \X (Nat \ {0})) /\ shown \subseteq Rows
  BY <1>1, SearchType DEF Rows
<1>3. ~AtEntry
  BY <1>2, NoEntry DEF Init, AtEntry
<1>4. keys \in Keyboard
  BY DEF Init, Keyboard, NoKey
<1> QED
  BY <1>2, <1>3, <1>4 DEF Init, PageInv, KeyInv

-----------------------------------------------------------------------------
(* The events *)

\* What an event does to the keyboard and what is displayed: it moves among what
\* is displayed, or shows and hides children from their symbol, or takes the
\* keyboard out of the results.
Moves == \/ /\ window' = window /\ open' = open
            /\ focus' = focus \/ focus' = Field \/ Displayed(focus')
         \/ window' = window /\ focus' = focus /\ focus[2] = 0
         \/ window' \in BOOLEAN /\ focus' \in {Field, Away}

\* Every key leaves the keyboard at something displayed.
LEMMA NavMoves ==
    ASSUME NEW k, Nav(k)
    PROVE  Moves
<1>1. CASE k = "Up"
  BY <1>1 DEF Nav, MoveUp, Focused, Moves
<1>2. CASE k = "Down"
  BY <1>2 DEF Nav, MoveDown, Focused, Moves
<1>3. CASE k = "Right"
  BY <1>3 DEF Nav, Unfold, Moves
<1>4. CASE k = "Left"
  BY <1>4 DEF Nav, Fold, Moves
<1>5. CASE k = "Escape"
  BY <1>5 DEF Nav, Moves
<1>6. CASE k \notin {"Up", "Down", "Right", "Left", "Escape"}
  BY <1>6 DEF Nav, Moves
<1> QED
  BY <1>1, <1>2, <1>3, <1>4, <1>5, <1>6

\* Then it does not leave the keyboard at something hidden.
LEMMA MovesDisplayed ==
    ASSUME PageInv, Moves, page' = page, shown' = shown, keys' \in Keyboard,
           held' \in Seq(Keys)
    PROVE  PageInv'
<1>1. Entries' = Entries
  BY DEF Entries, Rows, HasChildren, Links
<1>2. Field \notin Entries /\ Away \notin Entries
  BY NoEntry DEF PageInv
<1>3. ASSUME AtEntry' PROVE Displayed(focus)'
  <2>1. focus' \in Entries
    BY <1>1, <1>3 DEF AtEntry
  <2>2. focus' # Field /\ focus' # Away
    BY <1>2, <2>1
  <2>3. focus' = focus => Displayed(focus)
    BY <2>1 DEF PageInv, AtEntry
  <2>4. CASE window' = window /\ open' = open /\ Displayed(focus')
    BY <2>4 DEF Displayed
  <2>5. CASE window' = window /\ focus' = focus /\ (open' = open \/ focus[2] = 0)
    BY <2>3, <2>5 DEF Displayed
  <2> QED
    BY <2>2, <2>3, <2>4, <2>5 DEF Moves
<1>4. window' \in BOOLEAN
  BY DEF Moves, PageInv
<1> QED
  BY <1>3, <1>4 DEF PageInv, Rows

LEMMA LoadInv ==
    ASSUME PageInv, NEW s \in Searches, Load(s)
    PROVE  PageInv' /\ (KeyInv => KeyInv')
<1>1. page' \in Seq(STRING \X (Nat \ {0})) /\ shown' \subseteq Rows'
  BY SearchType DEF Load, Rows, Results
<1>2. ~AtEntry'
  <2>1. Rows' \subseteq Nat \ {0}
    BY <1>1 DEF Rows
  <2>2. \A e \in Entries' : e[1] \in Rows'
    BY DEF Entries
  <2> QED
    BY <2>1, <2>2 DEF Load, AtEntry, Field, Away
<1>3. keys' \in Keyboard
  BY DEF Load, Keyboard
<1>4. window' = window /\ held' = held
  BY DEF Load
<1> QED
  BY <1>1, <1>2, <1>3, <1>4 DEF PageInv, KeyInv

\* A window that is shown hides nothing.
LEMMA AskInv ==
    ASSUME PageInv, Ask
    PROVE  PageInv' /\ (KeyInv => KeyInv')
<1>1. /\ page' = page /\ shown' = shown /\ keys' = keys /\ held' = held
      /\ fresh' = fresh /\ focus' = focus /\ open' = open /\ window' = TRUE
  BY DEF Ask
<1>2. Entries' = Entries
  BY <1>1 DEF Entries, Rows, HasChildren, Links
<1>3. AtEntry' = AtEntry /\ (Displayed(focus) => Displayed(focus)')
  BY <1>1, <1>2 DEF AtEntry, Displayed
<1>4. PageInv'
  BY <1>1, <1>3 DEF PageInv, Rows
<1>5. KeyInv => KeyInv'
  BY <1>1, <1>3 DEF KeyInv
<1> QED
  BY <1>4, <1>5

\* In the field, the keyboard is at no entry.
LEMMA EnterFieldInv ==
    ASSUME PageInv, EnterField
    PROVE  PageInv' /\ (KeyInv => KeyInv')
<1>1. /\ page' = page /\ shown' = shown /\ keys' = keys /\ held' = held
      /\ fresh' = fresh /\ focus' = Field /\ open' = open /\ window' = window
  BY DEF EnterField
<1>2. Entries' = Entries
  BY <1>1 DEF Entries, Rows, HasChildren, Links
<1>3. ~AtEntry'
  BY <1>1, <1>2, NoEntry DEF AtEntry, PageInv
<1>4. PageInv'
  BY <1>1, <1>3 DEF PageInv, Rows
<1>5. KeyInv => KeyInv'
  BY <1>1, <1>3 DEF KeyInv
<1> QED
  BY <1>4, <1>5

LEMMA PressInv ==
    ASSUME PageInv, NEW k \in Keys, Press(k)
    PROVE  PageInv' /\ (MaxHeld = 1 => KeyInv')
<1>1. /\ held' = Append(held, k) /\ page' = page /\ shown' = shown
      /\ Len(held) < MaxHeld
  BY DEF Press
<1>2. held' \in Seq(Keys) /\ Len(held') = Len(held) + 1 /\ Last(held') = k
  BY <1>1 DEF Last, PageInv
<1>3. Entries' = Entries
  BY <1>1 DEF Entries, Rows, HasChildren, Links
<1>4. MaxHeld = 1 => Len(held') <= 1
  BY <1>1, <1>2 DEF PageInv
<1>5. CASE AtEntry /\ k # "Enter"
  <2>1. Moves /\ keys' = [lastKey |-> k, repeatOn |-> FALSE]
    BY <1>5, NavMoves DEF Press, KeyDownEvent
  <2>2. keys' \in Keyboard
    BY <2>1 DEF Keyboard
  <2> QED
    BY <1>1, <1>2, <1>4, <2>1, <2>2, MovesDisplayed DEF KeyInv
<1>6. CASE AtEntry /\ k = "Enter"
  <2>1. Moves /\ keys' = keys
    BY <1>6 DEF Press, FollowLink, Unheard, Moves
  <2> QED
    BY <1>1, <1>2, <1>4, <1>6, <2>1, MovesDisplayed DEF KeyInv, PageInv
<1>7. CASE ~AtEntry
  <2>1. Unheard
    BY <1>7 DEF Press
  <2>2. Moves /\ keys' = keys /\ ~AtEntry'
    BY <1>3, <1>7, <2>1 DEF Unheard, Moves, AtEntry
  <2> QED
    BY <1>1, <1>2, <1>4, <2>2, MovesDisplayed DEF KeyInv, PageInv
<1> QED
  BY <1>5, <1>6, <1>7

LEMMA RepeatKeyPressInv ==
    ASSUME PageInv, RepeatKeyPress
    PROVE  PageInv' /\ (KeyInv => KeyInv')
<1>1. /\ held # <<>> /\ Last(held) # "Enter" /\ fresh' = FALSE
      /\ page' = page /\ shown' = shown /\ held' = held
  BY DEF RepeatKeyPress
<1>2. Entries' = Entries
  BY <1>1 DEF Entries, Rows, HasChildren, Links
<1>3. CASE AtEntry
  <2>1. Moves
    BY <1>3, NavMoves DEF RepeatKeyPress, KeyPressEvent, Moves
  <2>2. keys' \in Keyboard /\ keys'.lastKey = keys.lastKey
    BY <1>3 DEF RepeatKeyPress, KeyPressEvent, PageInv, Keyboard
  <2>3. PageInv'
    BY <1>1, <2>1, <2>2, MovesDisplayed DEF PageInv
  <2> QED
    BY <1>1, <1>3, <2>2, <2>3 DEF KeyInv
<1>4. CASE ~AtEntry
  <2>1. Moves /\ keys' = keys /\ ~AtEntry'
    BY <1>2, <1>4 DEF RepeatKeyPress, Unheard, Moves, AtEntry
  <2> QED
    BY <1>1, <2>1, MovesDisplayed DEF KeyInv, PageInv
<1> QED
  BY <1>3, <1>4

LEMMA RepeatKeyDownInv ==
    ASSUME PageInv, RepeatKeyDown
    PROVE  PageInv' /\ (KeyInv => KeyInv')
<1>1. held # <<>> /\ page' = page /\ shown' = shown /\ held' = held
  BY DEF RepeatKeyDown
<1>2. Last(held) \in Keys
  BY <1>1 DEF PageInv, Last
<1>3. Moves /\ keys' = [lastKey |-> Last(held), repeatOn |-> FALSE]
  BY NavMoves DEF RepeatKeyDown, KeyDownEvent
<1>4. keys' \in Keyboard
  BY <1>2, <1>3 DEF Keyboard
<1>5. PageInv'
  BY <1>1, <1>3, <1>4, MovesDisplayed DEF PageInv
<1> QED
  BY <1>1, <1>3, <1>5 DEF KeyInv

\* The field gives the keyboard to an entry when the only key is released.
LEMMA ReleaseInv ==
    ASSUME PageInv, NEW k \in Keys, Release(k)
    PROVE  PageInv' /\ (KeyInv => KeyInv')
<1>1. page' = page /\ shown' = shown
  BY DEF Release
<1>2. PICK i \in DOMAIN held : held' = RemoveAt(held, i)
  BY DEF Release
<1>3. held' \in Seq(Keys)
  BY <1>2 DEF RemoveAt, PageInv
<1>4. KeyInv => held' = <<>>
  <2> SUFFICES ASSUME KeyInv PROVE held' = <<>>
    OBVIOUS
  <2>1. held \in Seq(Keys) /\ Len(held) <= 1
    BY DEF KeyInv, PageInv
  <2>2. Len(held) = 1 /\ i = 1
    <3>1. Len(held) \in Nat /\ DOMAIN held = 1..Len(held)
      BY <2>1
    <3> QED
      BY <2>1, <3>1
  <2>3. held' = SubSeq(held, 1, 0) \o SubSeq(held, 2, 1)
    BY <1>2, <2>2 DEF RemoveAt
  <2>4. SubSeq(held, 1, 0) = <<>> /\ SubSeq(held, 2, 1) = <<>>
    BY <2>1
  <2> QED
    BY <2>3, <2>4
<1>5. Moves
  <2>1. CASE AtEntry
    BY <2>1 DEF Release, KeyUpEvent, Unheard, Moves
  <2>2. CASE ~AtEntry /\ focus = Field
    <3>1. FieldKeyUp(k)
      BY <2>2 DEF Release
    <3>2. CASE k = "Escape"
      BY <3>1, <3>2 DEF FieldKeyUp, Moves
    <3>3. CASE k # "Escape"
      <4>1. window' = window /\ open' = open
        BY <3>1, <3>3 DEF FieldKeyUp, PageInv
      <4>2. focus' = focus \/ Displayed(focus')
        BY <3>1, <3>3 DEF FieldKeyUp, Focused
      <4> QED
        BY <4>1, <4>2 DEF Moves
    <3> QED
      BY <3>2, <3>3
  <2>3. CASE ~AtEntry /\ focus # Field
    BY <2>3 DEF Release, Unheard, Moves
  <2> QED
    BY <2>1, <2>2, <2>3
<1>6. keys' \in Keyboard
  <2>1. keys' = keys \/ keys' = [lastKey |-> NoKey, repeatOn |-> FALSE]
    BY DEF Release, KeyUpEvent, Unheard, FieldKeyUp
  <2>2. [lastKey |-> NoKey, repeatOn |-> FALSE] \in Keyboard
    BY DEF Keyboard
  <2> QED
    BY <2>1, <2>2 DEF PageInv
<1>7. PageInv'
  BY <1>1, <1>3, <1>5, <1>6, MovesDisplayed
<1> QED
  BY <1>4, <1>7 DEF KeyInv

\* A click comes between two keys.
LEMMA ClickInv ==
    ASSUME PageInv, NEW i \in Rows, Click(i)
    PROVE  PageInv' /\ KeyInv'
<1>1. /\ page' = page /\ shown' = shown /\ window' = window /\ keys' = keys
      /\ held' = held /\ held = <<>> /\ window /\ i \in shown /\ focus' = <<i, 0>>
  BY DEF Click
<1>2. Displayed(focus)'
  BY <1>1 DEF Displayed
<1> QED
  BY <1>1, <1>2 DEF PageInv, KeyInv, Rows

LEMMA StepInv ==
    ASSUME PageInv, [Next]_vars
    PROVE  PageInv' /\ (MaxHeld = 1 /\ KeyInv => KeyInv')
<1>1. CASE Next
  BY <1>1, AskInv, LoadInv, PressInv, ReleaseInv, RepeatKeyPressInv, RepeatKeyDownInv,
     ClickInv, EnterFieldInv DEF Next
<1>2. CASE UNCHANGED vars
  BY <1>2 DEF vars, PageInv, KeyInv, AtEntry, Entries, Displayed, Rows, HasChildren, Links
<1> QED
  BY <1>1, <1>2

-----------------------------------------------------------------------------
(* The rows *)

\* A set of numbers that is not empty has a least one.
LEMMA LeastNatural ==
    ASSUME NEW T \in SUBSET Nat, T # {}
    PROVE  \E x \in T : \A y \in T : x <= y
<1> DEFINE UpTo(x) == {y \in T : y <= x}
           Segments == {UpTo(x) : x \in T}
<1>1. Segments # {}
  OBVIOUS
<1>2. Segments \subseteq FiniteSubsetsOf(Nat)
  <2> SUFFICES ASSUME NEW x \in T PROVE UpTo(x) \in FiniteSubsetsOf(Nat)
    OBVIOUS
  <2>1. UpTo(x) \in SUBSET Nat /\ x \in Nat
    OBVIOUS
  <2>2. \A s \in UpTo(x) : s <= x
    OBVIOUS
  <2>3. IsFiniteSet(UpTo(x))
    BY <2>1, <2>2, FS_BoundedSetOfNaturals
  <2> QED
    BY <2>1, <2>3 DEF FiniteSubsetsOf
<1>3. PICK M \in Segments :
         \A U \in Segments : ~(<<U, M>> \in StrictSubsetOrdering(Nat))
  <2> HIDE DEF Segments
  <2> QED
    BY <1>1, <1>2, FS_StrictSubsetOrderingWellFounded, WFMin
<1>4. PICK x \in T : M = UpTo(x)
  BY <1>3
<1>5. ASSUME NEW y \in T, ~(x <= y) PROVE FALSE
  <2>1. x \in Nat /\ y \in Nat /\ y < x
    BY <1>5
  <2>2. UpTo(y) \subseteq UpTo(x)
    <3> SUFFICES ASSUME NEW s \in UpTo(y) PROVE s \in UpTo(x)
      OBVIOUS
    <3>1. s \in T /\ s \in Nat /\ s <= y
      OBVIOUS
    <3>2. s <= x
      <4> HIDE DEF Below
      <4> QED
        BY <2>1, <3>1
    <3> QED
      BY <3>1, <3>2
  <2>3. x \in UpTo(x) /\ x \notin UpTo(y)
    BY <2>1
  <2>4. UpTo(x) \in SUBSET Nat /\ UpTo(y) \in SUBSET Nat
    OBVIOUS
  <2>5. <<UpTo(y), UpTo(x)>> \in StrictSubsetOrdering(Nat)
    BY <2>2, <2>3, <2>4 DEF StrictSubsetOrdering
  <2> QED
    BY <2>5, <1>3, <1>4
<1> QED
  BY <1>5

\* A set of rows has a first row.
LEMMA FirstOfRows ==
    ASSUME NEW n \in Nat, NEW T \in SUBSET (1..n), T # {}
    PROVE  \E x \in T : \A y \in T : x <= y
<1>1. T \in SUBSET Nat
  OBVIOUS
<1> QED
  BY <1>1, LeastNatural

\* And a last row.
LEMMA LastOfRows ==
    ASSUME NEW n \in Nat, NEW T \in SUBSET (1..n), T # {}
    PROVE  \E x \in T : \A y \in T : x >= y
<1> DEFINE U == {n + 1 - y : y \in T}
<1>1. U \in SUBSET (1..n) /\ U # {}
  <2>1. ASSUME NEW y \in T PROVE n + 1 - y \in 1..n
    <3>1. y \in Int /\ 1 <= y /\ y <= n
      OBVIOUS
    <3> QED
      BY <3>1
  <2> QED
    BY <2>1
<1>2. PICK u \in U : \A v \in U : u <= v
  <2> HIDE DEF U
  <2> QED
    BY <1>1, FirstOfRows
<1>3. PICK x \in T : u = n + 1 - x
  BY <1>2
<1>4. ASSUME NEW y \in T PROVE x >= y
  <2>1. n + 1 - x <= n + 1 - y
    BY <1>2, <1>3
  <2> QED
    BY <2>1
<1> QED
  BY <1>4

\* Min and Max name them.
LEMMA MinOfRows ==
    ASSUME NEW n \in Nat, NEW T \in SUBSET (1..n), T # {}
    PROVE  Min(T) \in T /\ \A y \in T : Min(T) <= y
  BY FirstOfRows DEF Min

LEMMA MaxOfRows ==
    ASSUME NEW n \in Nat, NEW T \in SUBSET (1..n), T # {}
    PROVE  Max(T) \in T /\ \A y \in T : Max(T) >= y
  BY LastOfRows DEF Max

\* The rows are numbered from 1.
LEMMA RowNumbers ==
    ASSUME page \in Seq(STRING \X (Nat \ {0}))
    PROVE  /\ Len(page) \in Nat /\ Rows = 1..Len(page)
           /\ \A i \in Rows : Links(i) \in Nat \ {0}
  BY DEF Rows, Links

\* getElementById finds a row with the name, and no row before it has the name.
LEMMA FirstRow ==
    ASSUME page \in Seq(STRING \X (Nat \ {0})), NEW i \in Rows
    PROVE  /\ FirstWithId(i) \in Rows
           /\ Id(FirstWithId(i)) = Id(i)
           /\ \A s \in Rows : Id(s) = Id(i) => FirstWithId(i) <= s
<1> DEFINE T == {r \in Rows : Id(r) = Id(i)}
<1>1. T \in SUBSET (1..Len(page)) /\ T # {} /\ Len(page) \in Nat
  BY RowNumbers
<1>2. PICK r \in T : \A s \in T : r <= s
  <2> HIDE DEF T
  <2> QED
    BY <1>1, FirstOfRows
<1>3. \E q \in Rows : Id(q) = Id(i) /\ \A s \in Rows : Id(s) = Id(i) => q <= s
  BY <1>2
<1> QED
  BY <1>3 DEF FirstWithId

\* FindChildElement finds children only of the first row with the name.
LEMMA ChildElement ==
    ASSUME page \in Seq(STRING \X (Nat \ {0})), NEW i \in Rows,
           NEW r \in FindChildElement(i)
    PROVE  /\ r \in Rows /\ HasChildren(r) /\ Id(r) = Id(i)
           /\ FirstWithId(r) = r
<1>1. r = FirstWithId(i) /\ HasChildren(r)
  BY DEF FindChildElement
<1>2. r \in Rows /\ Id(r) = Id(i) /\ \A s \in Rows : Id(s) = Id(i) => r <= s
  BY <1>1, FirstRow
<1>3. FirstWithId(r) \in Rows /\ Id(FirstWithId(r)) = Id(i) /\ FirstWithId(r) <= r
  BY <1>2, FirstRow
<1>4. r <= FirstWithId(r)
  BY <1>2, <1>3
<1>5. FirstWithId(r) = r
  BY <1>2, <1>3, <1>4, RowNumbers
<1> QED
  BY <1>1, <1>2, <1>5

-----------------------------------------------------------------------------
(* What the screen can show *)

\* Children are displayed only of rows that have some, and that are found by
\* their name; the keyboard is at an entry of the page or outside.
ScreenInv ==
    /\ \E s \in Searches : page = s[1] /\ shown = Matching(s[1], s[2])
    /\ \A i \in open : i \in Rows /\ HasChildren(i) /\ FirstWithId(i) = i
    /\ focus \in Entries \cup {Field, Away}
    /\ fresh \in BOOLEAN

LEMMA EntryParts ==
    ASSUME page \in Seq(STRING \X (Nat \ {0}))
    PROVE  /\ \A i \in Rows : <<i, 0>> \in Entries
           /\ \A i \in Rows : HasChildren(i) =>
                 \A c \in 1..Links(i) : <<i, c>> \in Entries
           /\ \A e \in Entries :
                 /\ e = <<e[1], e[2]>> /\ e[1] \in Rows /\ e[2] \in Nat
                 /\ e[2] # 0 => HasChildren(e[1]) /\ e[2] \in 1..Links(e[1])
<1>1. \A i \in Rows : Links(i) \in Nat
  BY RowNumbers
<1> QED
  BY <1>1 DEF Entries

\* The arrow keys lead from an entry to an entry, or to the field.
LEMMA NavEntry ==
    ASSUME PageInv, NEW i \in Int
    PROVE  NavNext(i) \in Entries \cup {Field} /\ NavPrev(i) \in Entries \cup {Field}
<1> DEFINE later == {r \in shown : r >= i}
           earlier == {r \in shown : r <= i}
<1>1. Len(page) \in Nat /\ Rows = 1..Len(page) /\ shown \subseteq Rows
  BY RowNumbers DEF PageInv
<1>2. later \in SUBSET (1..Len(page)) /\ earlier \in SUBSET (1..Len(page))
      /\ later \subseteq Rows /\ earlier \subseteq Rows
  BY <1>1
<1>3. NavNext(i) = (IF later = {} THEN Field ELSE <<Min(later), 0>>)
      /\ NavPrev(i) = (IF earlier = {} THEN Field ELSE <<Max(earlier), 0>>)
  BY DEF NavNext, NavPrev
<1> HIDE DEF later, earlier
<1>4. later # {} => Min(later) \in Rows
  BY <1>1, <1>2, MinOfRows
<1>5. earlier # {} => Max(earlier) \in Rows
  BY <1>1, <1>2, MaxOfRows
<1> QED
  BY <1>3, <1>4, <1>5, EntryParts DEF PageInv

LEMMA ArrowEntry ==
    ASSUME PageInv, NEW e \in Entries
    PROVE  /\ Below(e) \in Entries \cup {Field}
           /\ Above(e) # Field /\ Displayed(Above(e)) => Above(e) \in Entries
<1>1. /\ e = <<e[1], e[2]>> /\ e[1] \in Rows /\ e[2] \in Nat
      /\ e[2] # 0 => HasChildren(e[1]) /\ e[2] \in 1..Links(e[1])
  BY EntryParts DEF PageInv
<1>2. e[1] + 1 \in Int /\ e[1] - 1 \in Int /\ Links(e[1]) \in Nat \ {0}
  BY <1>1, RowNumbers DEF PageInv
<1>3. /\ NavNext(e[1] + 1) \in Entries \cup {Field}
      /\ NavPrev(e[1] - 1) \in Entries \cup {Field}
  BY <1>2, NavEntry
<1>4. CASE e[2] = 0
  <2>1. Below(e) = BelowItem(e[1]) /\ Above(e) = AboveItem(e[1])
    BY <1>4 DEF Below, Above
  <2>2. HasChildren(e[1]) => <<e[1], 1>> \in Entries
    BY <1>1, <1>2, EntryParts DEF PageInv
  <2>3. BelowItem(e[1]) \in Entries \cup {Field}
    BY <1>3, <2>2 DEF BelowItem
  <2>4. CASE AboveItem(e[1]) = NavPrev(e[1] - 1)
    BY <1>3, <2>1, <2>3, <2>4
  <2>5. CASE AboveItem(e[1]) = <<e[1] - 1, Links(e[1] - 1)>> /\ HasChildren(e[1] - 1)
    <3>1. Displayed(Above(e)) => e[1] - 1 \in Rows
      BY <2>1, <2>5 DEF Displayed, PageInv
    <3>2. e[1] - 1 \in Rows => Links(e[1] - 1) \in 1..Links(e[1] - 1)
      BY RowNumbers DEF PageInv
    <3>3. e[1] - 1 \in Rows => <<e[1] - 1, Links(e[1] - 1)>> \in Entries
      BY <2>5, <3>2, EntryParts DEF PageInv
    <3> QED
      BY <2>1, <2>3, <2>5, <3>1, <3>3
  <2> QED
    BY <2>4, <2>5 DEF AboveItem
<1>5. CASE e[2] # 0
  <2>1. Below(e) = BelowChild(e[1], e[2]) /\ Above(e) = AboveChild(e[1], e[2])
    BY <1>5 DEF Below, Above
  <2>2. e[2] < Links(e[1]) => <<e[1], e[2] + 1>> \in Entries
    BY <1>1, <1>2, <1>5, EntryParts DEF PageInv
  <2>3. BelowChild(e[1], e[2]) \in Entries \cup {Field}
    BY <1>3, <2>2 DEF BelowChild
  <2>4. e[2] > 1 => <<e[1], e[2] - 1>> \in Entries
    BY <1>1, <1>2, <1>5, EntryParts DEF PageInv
  <2>5. AboveChild(e[1], e[2]) \in Entries
    BY <1>1, <2>4, EntryParts DEF AboveChild, PageInv
  <2> QED
    BY <2>1, <2>3, <2>5
<1> QED
  BY <1>4, <1>5
-----------------------------------------------------------------------------
(* What the events do to the screen *)

\* An event shows or hides children of the row that getElementById finds for the
\* entry with the keyboard, and leaves the keyboard at an entry or takes it out.
ShowsOwn ==
    /\ focus' \in Entries \cup {Field, Away}
    /\ \A i \in SymDiff(open, open') :
          focus' \in Entries /\ i \in FindChildElement(focus'[1])

LEMMA NavShowsOwn ==
    ASSUME PageInv, focus \in Entries, NEW k, Nav(k)
    PROVE  ShowsOwn
<1>1. CASE k = "Up"
  <2>1. focus' = (IF Above(focus) = Field THEN Field ELSE Focused(Above(focus)))
        /\ open' = open
    BY <1>1 DEF Nav, MoveUp
  <2>2. focus' \in Entries \cup {Field}
    BY <2>1, ArrowEntry DEF Focused
  <2> QED
    BY <2>1, <2>2 DEF ShowsOwn, SymDiff
<1>2. CASE k = "Down"
  <2>1. focus' = (IF Below(focus) = Field THEN focus ELSE Focused(Below(focus)))
        /\ open' = open
    BY <1>2 DEF Nav, MoveDown
  <2>2. focus' \in Entries \cup {Field}
    BY <2>1, ArrowEntry DEF Focused
  <2> QED
    BY <2>1, <2>2 DEF ShowsOwn, SymDiff
<1>3. CASE k = "Right"
  <2>1. focus' = focus /\ (open' = open \/ open' = open \cup FindChildElement(focus[1]))
    BY <1>3 DEF Nav, Unfold
  <2> QED
    BY <2>1 DEF ShowsOwn, SymDiff
<1>4. CASE k = "Left"
  <2>1. focus' = focus /\ (open' = open \/ open' = open \ FindChildElement(focus[1]))
    BY <1>4 DEF Nav, Fold
  <2> QED
    BY <2>1 DEF ShowsOwn, SymDiff
<1>5. CASE k \notin {"Up", "Down", "Right", "Left"}
  <2>1. open' = open /\ (focus' = focus \/ focus' = Field)
    BY <1>5 DEF Nav
  <2> QED
    BY <2>1 DEF ShowsOwn, SymDiff
<1> QED
  BY <1>1, <1>2, <1>3, <1>4, <1>5

\* Where nothing is shown or hidden, only the keyboard can have moved.
LEMMA StillShowsOwn ==
    ASSUME open' = open, focus' \in Entries \cup {Field, Away}
    PROVE  ShowsOwn
  BY DEF ShowsOwn, SymDiff

LEMMA ToggleShowsOwn ==
    ASSUME focus' \in Entries, Toggle(focus'[1])
    PROVE  ShowsOwn
  BY DEF ShowsOwn, Toggle, SymDiff

LEMMA EventShowsOwn ==
    ASSUME PageInv, ScreenInv, [Next]_vars, ~\E s \in Searches : Load(s)
    PROVE  ShowsOwn /\ page' = page /\ shown' = shown /\ fresh' \in BOOLEAN
<1>1. focus \in Entries \cup {Field, Away} /\ fresh \in BOOLEAN
      /\ page \in Seq(STRING \X (Nat \ {0}))
  BY DEF ScreenInv, PageInv
<1>2. ASSUME NEW k \in Keys, Press(k) PROVE ShowsOwn
  <2>1. CASE AtEntry /\ k # "Enter"
    BY <1>2, <2>1, NavShowsOwn DEF Press, KeyDownEvent, AtEntry
  <2>2. CASE AtEntry /\ FollowLink
    BY <2>2, ToggleShowsOwn DEF FollowLink, AtEntry
  <2>3. CASE Unheard
    BY <1>1, <2>3, StillShowsOwn DEF Unheard
  <2> QED
    BY <1>2, <2>1, <2>2, <2>3 DEF Press
<1>3. ASSUME RepeatKeyPress PROVE ShowsOwn
  <2>1. CASE AtEntry /\ keys.repeatOn
    BY <1>3, <2>1, NavShowsOwn DEF RepeatKeyPress, KeyPressEvent, AtEntry
  <2>2. CASE ~(AtEntry /\ keys.repeatOn)
    BY <1>1, <1>3, <2>2, StillShowsOwn DEF RepeatKeyPress, KeyPressEvent, Unheard
  <2> QED
    BY <2>1, <2>2
<1>4. ASSUME RepeatKeyDown PROVE ShowsOwn
  BY <1>4, NavShowsOwn DEF RepeatKeyDown, KeyDownEvent, AtEntry
<1>5. ASSUME NEW k \in Keys, Release(k) PROVE ShowsOwn
  <2>1. open' = open
    BY <1>5 DEF Release, KeyUpEvent, FieldKeyUp, Unheard
  <2>2. CASE AtEntry \/ focus # Field
    BY <1>1, <1>5, <2>1, <2>2, StillShowsOwn DEF Release, KeyUpEvent, Unheard
  <2>3. CASE ~AtEntry /\ focus = Field
    <3>1. focus' = Focused(NavNext(1)) \/ focus' = Away \/ focus' = focus
      BY <1>5, <2>3 DEF Release, FieldKeyUp
    <3>2. focus' \in Entries \cup {Field, Away}
      BY <1>1, <3>1, NavEntry DEF Focused
    <3> QED
      BY <2>1, <3>2, StillShowsOwn
  <2> QED
    BY <2>2, <2>3
<1>6. ASSUME NEW i \in Rows, Click(i) PROVE ShowsOwn
  <2>1. focus' = <<i, 0>> /\ <<i, 0>> \in Entries /\ Toggle(i)
    BY <1>1, <1>6, EntryParts DEF Click
  <2> QED
    BY <2>1, ToggleShowsOwn
<1>7. ASSUME UNCHANGED vars PROVE ShowsOwn
  BY <1>1, <1>7, StillShowsOwn DEF vars
<1>8. ASSUME Ask PROVE ShowsOwn
  BY <1>1, <1>8, StillShowsOwn DEF Ask
<1>9. ASSUME EnterField PROVE ShowsOwn
  <2>1. open' = open /\ focus' \in Entries \cup {Field, Away}
    BY <1>9 DEF EnterField
  <2> QED
    BY <2>1, StillShowsOwn
<1>10. page' = page /\ shown' = shown /\ fresh' \in BOOLEAN
  BY <1>1 DEF Next, Ask, Press, Release, RepeatKeyPress, RepeatKeyDown, Click, EnterField,
              vars
<1> QED
  BY <1>2, <1>3, <1>4, <1>5, <1>6, <1>7, <1>8, <1>9, <1>10 DEF Next

LEMMA ScreenStep == ASSUME PageInv, ScreenInv, [Next]_vars PROVE ScreenInv'
<1>1. CASE \E s \in Searches : Load(s)
  BY <1>1 DEF Load, ScreenInv, Results
<1>2. CASE ~\E s \in Searches : Load(s)
  <2>1. ShowsOwn /\ page' = page /\ shown' = shown /\ fresh' \in BOOLEAN
    BY <1>2, EventShowsOwn
  <2>2. Entries' = Entries /\ Rows' = Rows
    BY <2>1 DEF Entries, Rows, HasChildren, Links
  <2>3. \A i : HasChildren(i)' = HasChildren(i) /\ FirstWithId(i)' = FirstWithId(i)
    BY <2>1, <2>2 DEF HasChildren, Links, FirstWithId, Id
  <2>4. ASSUME NEW i \in open'
        PROVE  i \in Rows /\ HasChildren(i) /\ FirstWithId(i) = i
    <3>1. CASE i \in open
      BY <3>1 DEF ScreenInv
    <3>2. CASE i \notin open
      <4>1. focus' \in Entries /\ i \in FindChildElement(focus'[1])
        BY <2>1, <2>4, <3>2 DEF ShowsOwn, SymDiff
      <4>2. focus'[1] \in Rows
        BY <4>1, EntryParts DEF PageInv
      <4> QED
        BY <4>1, <4>2, ChildElement DEF PageInv
    <3> QED
      BY <3>1, <3>2
  <2>5. \A i \in open' : i \in Rows' /\ HasChildren(i)' /\ FirstWithId(i)' = i
    BY <2>2, <2>3, <2>4
  <2>6. focus' \in Entries' \cup {Field, Away}
    BY <2>1, <2>2 DEF ShowsOwn
  <2> QED
    BY <2>1, <2>5, <2>6 DEF ScreenInv
<1> QED
  BY <1>1, <1>2

LEMMA ScreenInit == Init => ScreenInv
  BY DEF Init, ScreenInv, Results

\* The invariants of the page and of the screen together.
LEMMA PageInductive == Spec => [](PageInv /\ ScreenInv)
<1>1. Init => PageInv /\ ScreenInv
  BY InitInv, ScreenInit
<1>2. PageInv /\ ScreenInv /\ [Next]_vars => PageInv' /\ ScreenInv'
  BY StepInv, ScreenStep
<1> QED
  BY <1>1, <1>2, PTL DEF Spec

LEMMA ScreenTyped == PageInv /\ ScreenInv => TypeOK
<1> SUFFICES ASSUME PageInv, ScreenInv PROVE TypeOK
  OBVIOUS
<1>1. page \in {s[1] : s \in Searches}
  BY DEF ScreenInv
<1>2. open \subseteq {i \in Rows : HasChildren(i)}
  BY DEF ScreenInv
<1>3. ToSet(held) \subseteq Keys
  BY DEF PageInv, ToSet
<1> QED
  BY <1>1, <1>2, <1>3 DEF PageInv, ScreenInv, TypeOK, Keyboard

-----------------------------------------------------------------------------
(* Up and Down *)

\* Of an entry displayed: whether the code finds its row's children visible is
\* whether they are displayed.
LEMMA VisibleIsOpen ==
    ASSUME OneParentPerName, PageInv, ScreenInv, NEW i \in Rows
    PROVE  ChildrenVisible(i) /\ HasChildren(i) <=> i \in open
<1>1. page \in Seq(STRING \X (Nat \ {0}))
  BY DEF PageInv
<1>2. ASSUME i \in open PROVE ChildrenVisible(i) /\ HasChildren(i)
  BY <1>2 DEF ScreenInv, ChildrenVisible, FindChildElement
<1>3. ASSUME ChildrenVisible(i), HasChildren(i) PROVE i \in open
  <2>1. PICK r \in open : r = FirstWithId(i) /\ HasChildren(r)
    BY <1>3 DEF ChildrenVisible, FindChildElement
  <2>2. r \in Rows /\ Id(r) = Id(i)
    BY <1>1, <2>1, FirstRow
  <2>3. PICK s \in Searches : page = s[1]
    BY DEF ScreenInv
  <2>4. r = i
    BY <1>3, <2>1, <2>2, <2>3 DEF OneParentPerName, Rows, Id, HasChildren, Links
  <2> QED
    BY <2>1, <2>4
<1> QED
  BY <1>2, <1>3

\* The entries on the screen are the symbols of the rows that match, each open
\* one followed by its children.
LEMMA ScreenParts ==
    ASSUME PageInv, ScreenInv, window
    PROVE  /\ \A i \in shown : <<i, 0>> \in OnScreen
           /\ \A i \in shown \cap open : \A c \in 1..Links(i) : <<i, c>> \in OnScreen
           /\ \A e \in OnScreen :
                 /\ e \in Entries /\ e = <<e[1], e[2]>> /\ e[1] \in shown
                 /\ e[1] \in Rows /\ e[2] \in Nat
                 /\ e[2] # 0 => e[1] \in open /\ e[2] \in 1..Links(e[1])
<1>1. page \in Seq(STRING \X (Nat \ {0})) /\ shown \subseteq Rows
  BY DEF PageInv
<1>2. \A i \in shown : <<i, 0>> \in OnScreen
  BY <1>1, EntryParts DEF OnScreen, Displayed
<1>3. \A i \in shown \cap open : \A c \in 1..Links(i) : <<i, c>> \in OnScreen
  BY <1>1, EntryParts DEF OnScreen, Displayed, ScreenInv
<1>4. ASSUME NEW e \in OnScreen
      PROVE  /\ e \in Entries /\ e = <<e[1], e[2]>> /\ e[1] \in shown
             /\ e[1] \in Rows /\ e[2] \in Nat
             /\ e[2] # 0 => e[1] \in open /\ e[2] \in 1..Links(e[1])
  BY <1>1, EntryParts DEF OnScreen, Displayed
<1> QED
  BY <1>2, <1>3, <1>4

\* Down leads to the next entry on the screen, if there is one.
LEMMA BelowIsNext ==
    ASSUME OneParentPerName, PageInv, ScreenInv, focus \in Entries
    PROVE  IF Below(focus) = Field THEN NextBelow = {}
           ELSE Displayed(Below(focus)) /\ Below(focus) \in NextBelow
<1> DEFINE i == focus[1]
           c == focus[2]
           later == {r \in shown : r >= i + 1}
<1>0. window /\ focus \in OnScreen
  BY DEF PageInv, AtEntry, Displayed, OnScreen
<1>1. focus = <<i, c>> /\ i \in shown /\ i \in Rows /\ c \in Nat
      /\ (c # 0 => i \in open /\ c \in 1..Links(i))
  BY <1>0, ScreenParts
<1>2. /\ Len(page) \in Nat /\ Rows = 1..Len(page) /\ shown \subseteq Rows
      /\ Links(i) \in Nat \ {0}
  BY <1>1, RowNumbers DEF PageInv
<1>3. i \in open <=> ChildrenVisible(i) /\ HasChildren(i)
  BY <1>1, VisibleIsOpen
<1> HIDE DEF i, c
<1>4. \A e \in OnScreen : /\ e[1] \in shown /\ e[1] \in Nat /\ e[2] \in Nat
                          /\ e = <<e[1], e[2]>>
                          /\ e[2] # 0 => e[1] \in open /\ e[2] <= Links(e[1])
  BY <1>0, <1>2, ScreenParts
<1>5. CASE i \in open /\ c < Links(i)
  <2>1. <<i, c + 1>> \in OnScreen
    BY <1>0, <1>1, <1>2, <1>5, ScreenParts
  <2>2. Below(focus) = <<i, c + 1>>
    BY <1>1, <1>3, <1>5 DEF Below, BelowItem, BelowChild, i, c
  <2>3. Before(focus, <<i, c + 1>>)
    BY <1>1, <1>2 DEF Before
  <2>4. ASSUME NEW f \in OnScreen, Before(focus, f), Before(f, <<i, c + 1>>)
        PROVE  FALSE
    BY <1>1, <1>2, <1>4, <2>4 DEF Before
  <2>5. <<i, c + 1>> # Field
    BY <1>1, <1>2 DEF Field
  <2> QED
    BY <2>1, <2>2, <2>3, <2>4, <2>5 DEF NextBelow, OnScreen
<1>6. CASE ~(i \in open /\ c < Links(i))
  <2>1. Below(focus) = NavNext(i + 1)
    <3>1. CASE c = 0
      <4>1. ~(ChildrenVisible(i) /\ HasChildren(i))
        BY <1>2, <1>3, <1>6, <3>1
      <4> QED
        BY <3>1, <4>1 DEF Below, BelowItem, i, c
    <3>2. CASE c # 0
      BY <1>1, <1>6, <3>2 DEF Below, BelowChild, i, c
    <3> QED
      BY <3>1, <3>2
  <2>2. \A f \in OnScreen : Before(focus, f) => f[1] \in later
    <3> SUFFICES ASSUME NEW f \in OnScreen, Before(focus, f) PROVE f[1] >= i + 1
      BY <1>4
    <3>1. i \in Nat
      BY <1>1, <1>2
    <3>2. f[1] = i => ~(c < f[2])
      BY <1>1, <1>2, <1>4, <1>6
    <3>3. i < f[1] \/ (i = f[1] /\ c < f[2])
      BY <1>1 DEF Before, i, c
    <3> QED
      BY <1>4, <3>1, <3>2, <3>3
  <2>3. later \in SUBSET (1..Len(page)) /\ later \subseteq shown
    BY <1>2
  <2>4. NavNext(i + 1) = IF later = {} THEN Field ELSE <<Min(later), 0>>
    BY DEF NavNext
  <2>5. \A r \in later : r \in Nat /\ r > i
    BY <1>1, <1>2
  <2> HIDE DEF later
  <2>6. CASE later = {}
    BY <2>1, <2>2, <2>4, <2>6 DEF NextBelow
  <2>7. CASE later # {}
    <3> DEFINE m == Min(later)
    <3>1. m \in later /\ \A r \in later : m <= r
      BY <1>2, <2>3, <2>7, MinOfRows
    <3> HIDE DEF m
    <3>2. <<m, 0>> \in OnScreen
      BY <1>0, <2>3, <3>1, ScreenParts
    <3>3. Before(focus, <<m, 0>>) /\ <<m, 0>> # Field
      BY <1>1, <1>2, <2>5, <3>1 DEF Before, Field, i
    <3>4. ASSUME NEW f \in OnScreen, Before(focus, f), Before(f, <<m, 0>>)
          PROVE  FALSE
      <4>1. f[1] \in later /\ f[1] \in Nat /\ f[2] \in Nat
        BY <1>4, <2>2, <3>4
      <4> QED
        BY <2>5, <3>1, <3>4, <4>1 DEF Before
    <3> QED
      BY <2>1, <2>4, <2>7, <3>2, <3>3, <3>4 DEF NextBelow, OnScreen, m
  <2> QED
    BY <2>6, <2>7
<1> QED
  BY <1>5, <1>6

\* Up leads to the entry before, if there is one.
LEMMA AboveIsNext ==
    ASSUME MatchesAdjoin, OneParentPerName, PageInv, ScreenInv, focus \in Entries
    PROVE  IF Above(focus) = Field THEN NextAbove = {}
           ELSE Displayed(Above(focus)) /\ Above(focus) \in NextAbove
<1> DEFINE i == focus[1]
           c == focus[2]
           earlier == {r \in shown : r <= i - 1}
<1>0. window /\ focus \in OnScreen
  BY DEF PageInv, AtEntry, Displayed, OnScreen
<1>1. focus = <<i, c>> /\ i \in shown /\ i \in Rows /\ c \in Nat
      /\ (c # 0 => i \in open /\ c \in 1..Links(i))
  BY <1>0, ScreenParts
<1>2. /\ Len(page) \in Nat /\ Rows = 1..Len(page) /\ shown \subseteq Rows
      /\ \A r \in Rows : Links(r) \in Nat \ {0}
  BY RowNumbers DEF PageInv
<1> HIDE DEF i, c
<1>4. \A e \in OnScreen : /\ e[1] \in shown /\ e[1] \in Nat /\ e[2] \in Nat
                          /\ e = <<e[1], e[2]>>
                          /\ e[2] # 0 => e[1] \in open /\ e[2] <= Links(e[1])
  BY <1>0, <1>2, ScreenParts
<1>5. CASE c # 0
  <2>1. <<i, c - 1>> \in OnScreen
    <3>1. c - 1 \in Nat /\ (c - 1 # 0 => c - 1 \in 1..Links(i))
      BY <1>1, <1>2, <1>5
    <3>2. CASE c - 1 = 0
      BY <1>0, <1>1, <3>2, ScreenParts
    <3>3. CASE c - 1 # 0
      BY <1>0, <1>1, <1>5, <3>1, <3>3, ScreenParts
    <3> QED
      BY <3>2, <3>3
  <2>2. Above(focus) = <<i, c - 1>>
    <3>1. Above(focus) = AboveChild(i, c)
      BY <1>5 DEF Above, i, c
    <3>2. c > 1 \/ c - 1 = 0
      BY <1>1, <1>5
    <3> QED
      BY <1>1, <3>1, <3>2 DEF AboveChild
  <2>3. Before(<<i, c - 1>>, focus)
    BY <1>1, <1>2 DEF Before
  <2>4. ASSUME NEW f \in OnScreen, Before(<<i, c - 1>>, f), Before(f, focus)
        PROVE  FALSE
    BY <1>1, <1>2, <1>4, <2>4 DEF Before
  <2>5. <<i, c - 1>> # Field
    BY <1>1, <1>2 DEF Field
  <2> QED
    BY <2>1, <2>2, <2>3, <2>4, <2>5 DEF NextAbove, OnScreen
<1>6. CASE c = 0
  <2>1. Above(focus) = AboveItem(i)
    BY <1>6 DEF Above, i, c
  <2>2. \A f \in OnScreen : Before(f, focus) => f[1] \in earlier
    BY <1>1, <1>2, <1>4, <1>6 DEF Before
  <2>3. earlier \in SUBSET (1..Len(page)) /\ earlier \subseteq shown
    BY <1>2
  <2>4. NavPrev(i - 1) = IF earlier = {} THEN Field ELSE <<Max(earlier), 0>>
    BY DEF NavPrev
  <2>5. ASSUME NEW r \in earlier PROVE i - 1 \in earlier
    <3>1. r \in shown /\ r \in Nat /\ i \in Nat /\ r <= i - 1
      BY <1>1, <1>2
    <3>2. PICK s \in Searches : shown = Matching(s[1], s[2])
      BY DEF ScreenInv
    <3>3. i - 1 \in r..i
      BY <3>1
    <3>4. i - 1 \in shown
      BY <1>1, <3>1, <3>2, <3>3 DEF MatchesAdjoin
    <3> QED
      BY <3>1, <3>4
  <2>6. \A r \in earlier : r \in Nat /\ r <= i - 1
    BY <1>1, <1>2
  <2> HIDE DEF earlier
  <2>7. CASE earlier = {}
    BY <2>1, <2>2, <2>4, <2>7 DEF NextAbove, AboveItem
  <2>8. CASE earlier # {}
    <3> DEFINE p == i - 1
    <3>1. p \in earlier /\ p \in shown /\ p \in Rows /\ p \in Nat /\ p # 0
      <4>1. p \in earlier
        BY <2>5, <2>8
      <4> HIDE DEF p
      <4>2. p \in shown /\ p \in 1..Len(page)
        BY <2>3, <4>1
      <4> QED
        BY <1>2, <4>1, <4>2
    <3>2. Max(earlier) = p
      <4>1. Max(earlier) \in earlier /\ Max(earlier) >= p
        BY <1>2, <2>3, <2>8, <3>1, MaxOfRows
      <4>2. Max(earlier) <= p /\ Max(earlier) \in Nat
        BY <2>6, <4>1
      <4> QED
        BY <3>1, <4>1, <4>2
    <3>3. NavPrev(p) = <<p, 0>> /\ <<p, 0>> # Field
      BY <2>4, <2>8, <3>1, <3>2 DEF Field
    <3>4. p \in open <=> ChildrenVisible(p) /\ HasChildren(p)
      BY <3>1, VisibleIsOpen
    <3>5. Above(focus) = IF p \in open THEN <<p, Links(p)>> ELSE <<p, 0>>
      BY <2>1, <3>3, <3>4 DEF AboveItem
    <3>6. p < i /\ \A r \in earlier : r <= p
      BY <1>1, <1>2, <2>6
    <3>7. Links(p) \in Nat \ {0}
      BY <1>2, <3>1
    <3> HIDE DEF p
    <3> DEFINE q == IF p \in open THEN <<p, Links(p)>> ELSE <<p, 0>>
    <3>8. q \in OnScreen
      <4>1. p \in open => Links(p) \in 1..Links(p)
        BY <3>7
      <4> QED
        BY <1>0, <3>1, <4>1, ScreenParts
    <3>9. Before(q, focus) /\ q # Field
      BY <1>1, <3>1, <3>6 DEF Before, Field
    <3>10. ASSUME NEW f \in OnScreen, Before(q, f), Before(f, focus)
           PROVE  FALSE
      <4>1. f[1] \in earlier /\ f[1] \in Nat /\ f[2] \in Nat /\ f[1] <= p
        BY <1>4, <2>2, <3>6, <3>10
      <4>2. f[2] # 0 => f[1] \in open /\ f[2] <= Links(f[1])
        BY <1>4
      <4>3. q[1] = p /\ (p \in open => q[2] = Links(p)) /\ (p \notin open => q[2] = 0)
        OBVIOUS
      <4>4. f[1] = p /\ q[2] < f[2]
        BY <3>1, <3>10, <4>1, <4>3 DEF Before
      <4> QED
        BY <3>7, <4>1, <4>2, <4>3, <4>4
    <3> QED
      BY <3>5, <3>8, <3>9, <3>10 DEF NextAbove, OnScreen
  <2> QED
    BY <2>7, <2>8
<1> QED
  BY <1>5, <1>6

\* An event that lets an arrow key act is Nav of that key.
LEMMA ActsIsNav ==
    ASSUME NEW k \in {"Up", "Down"}, Acts(k)
    PROVE  focus \in Entries /\ Nav(k)
<1>1. focus \in Entries /\ k # "Enter"
  BY DEF Acts, AtEntry
<1>2. CASE Press(k)
  BY <1>1, <1>2 DEF Press, AtEntry, KeyDownEvent
<1>3. CASE held # <<>> /\ Last(held) = k /\ RepeatKeyDown
  BY <1>1, <1>3 DEF RepeatKeyDown, KeyDownEvent
<1>4. CASE keys.repeatOn /\ keys.lastKey = k /\ RepeatKeyPress
  BY <1>1, <1>4 DEF RepeatKeyPress, AtEntry, KeyPressEvent
<1> QED
  BY <1>1, <1>2, <1>3, <1>4 DEF Acts

-----------------------------------------------------------------------------

\* No key, repetition, release, click or new search leaves the keyboard at an
\* entry that is hidden, on the results page of any index (Nav and NavChild of
\* search.js).
THEOREM KeyboardIsDisplayed == Spec => []FocusIsDisplayed
<1>1. PageInv => FocusIsDisplayed
  BY DEF PageInv, FocusIsDisplayed
<1> QED
  BY <1>1, PageInductive, PTL

\* The keyboard is at an entry of the page or outside the results, children are
\* displayed only of rows that have some, and the rows shown are rows of the page,
\* on the results page of any index (class SearchResults of search.js).
THEOREM ResultsAreTyped == Spec => []TypeOK
  BY PageInductive, ScreenTyped, PTL

\* Keys, links and clicks show and hide children only of the row they act on or,
\* if it is not the first of that name, of the first, and a click on the first does
\* (FindChildElement and Toggle of search.js).
THEOREM OwnRowOpens == Spec => OpensOwnRow
<1> DEFINE Own == \/ \E s \in Searches : Load(s)
                  \/ /\ \A i \in SymDiff(open, open') :
                           /\ AtEntry' /\ Id(i) = Id(focus'[1])
                           /\ i = focus'[1] \/ \E r \in Rows \ {i} : Id(r) = Id(i)
                     /\ \A i \in Rows :
                           Click(i) /\ FirstWithId(i) = i => i \in SymDiff(open, open')
<1>1. ASSUME PageInv, ScreenInv, [Next]_vars, ~\E s \in Searches : Load(s),
             NEW i \in SymDiff(open, open')
      PROVE  /\ AtEntry' /\ Id(i) = Id(focus'[1])
             /\ i = focus'[1] \/ \E r \in Rows \ {i} : Id(r) = Id(i)
  <2>1. focus' \in Entries /\ i \in FindChildElement(focus'[1]) /\ page' = page
    BY <1>1, EventShowsOwn DEF ShowsOwn
  <2>2. focus'[1] \in Rows /\ AtEntry'
    BY <1>1, <2>1, EntryParts DEF PageInv, AtEntry, Entries, Rows, HasChildren, Links
  <2>3. Id(i) = Id(focus'[1])
    BY <1>1, <2>1, <2>2, ChildElement DEF PageInv
  <2> QED
    BY <2>2, <2>3
<1>2. ASSUME NEW i \in Rows, Click(i), FirstWithId(i) = i
      PROVE  i \in SymDiff(open, open')
  <2>1. FindChildElement(i) = {i}
    BY <1>2 DEF Click, FindChildElement
  <2> QED
    BY <1>2, <2>1 DEF Click, Toggle, SymDiff
<1>3. PageInv /\ ScreenInv /\ [Next]_vars => [Own]_vars
  BY <1>1, <1>2
<1> HIDE DEF Own
<1>4. Spec => [][Own]_vars
  BY <1>3, PageInductive, PTL DEF Spec
<1> QED
  BY <1>4, PTL DEF OpensOwnRow, Own

\* Down and Up lead to the entry displayed next, whichever rows match and are
\* open, in an index whose matches follow one another and of whose rows with the
\* same name one at most has children (NavNext, NavPrev, Nav and NavChild of
\* search.js).
THEOREM ArrowsAreRight ==
    ASSUME MatchesAdjoin, OneParentPerName
    PROVE  Spec => ArrowsFollowDisplay
<1> DEFINE Right ==
       /\ Acts("Down") => focus' \in (IF NextBelow = {} THEN {focus} ELSE NextBelow)
       /\ Acts("Up") => focus' \in (IF NextAbove = {} THEN {Field} ELSE NextAbove)
<1>1. ASSUME PageInv, ScreenInv, Acts("Down")
      PROVE  focus' \in (IF NextBelow = {} THEN {focus} ELSE NextBelow)
  <2>1. focus \in Entries /\ MoveDown
    BY <1>1, ActsIsNav DEF Nav
  <2> QED
    BY <1>1, <2>1, BelowIsNext DEF MoveDown, Focused
<1>2. ASSUME PageInv, ScreenInv, Acts("Up")
      PROVE  focus' \in (IF NextAbove = {} THEN {Field} ELSE NextAbove)
  <2>1. focus \in Entries /\ MoveUp
    BY <1>2, ActsIsNav DEF Nav
  <2> QED
    BY <1>2, <2>1, AboveIsNext DEF MoveUp, Focused
<1>3. PageInv /\ ScreenInv => Right
  BY <1>1, <1>2
<1> HIDE DEF Right
<1>4. Spec => [][Right]_vars
  BY <1>3, PageInductive, PTL DEF Spec
<1> QED
  BY <1>4, PTL DEF ArrowsFollowDisplay, Right

\* While one key at a time is held, a keypress event acts only for the key that
\* is held, and not when it is the first one after the key went down
\* (ProcessKeys of search.js).
THEOREM RepeatsAreTheKey ==
    ASSUME MaxHeld = 1
    PROVE  Spec => HeldKeyRepeats
<1>1. Init => PageInv /\ KeyInv
  BY InitInv
<1>2. PageInv /\ KeyInv /\ [Next]_vars => PageInv' /\ KeyInv'
  BY StepInv
<1> DEFINE Acted == AtEntry /\ RepeatKeyPress
                    /\ <<open, window, focus>>' # <<open, window, focus>>
                    => ~fresh /\ keys.lastKey = Last(held)
<1>3. PageInv /\ KeyInv => Acted
  BY DEF KeyInv, RepeatKeyPress, KeyPressEvent
<1>4. PageInv /\ KeyInv /\ [Next]_vars => [Acted]_vars
  BY <1>3
<1> HIDE DEF Acted
<1>5. Spec => [][Acted]_vars
  BY <1>1, <1>2, <1>4, PTL DEF Spec
<1> QED
  BY <1>5, PTL DEF HeldKeyRepeats, Acted

\* The names that start with the text are those that have their beginning in
\* common with one that does.
LEMMA OrderedNamesAdjoin ==
    ASSUME TextsHaveLength, \A s \in Searches : NamesAdjoin(s[1])
    PROVE  MatchesAdjoin
<1>1. SUFFICES ASSUME NEW s \in Searches, NEW i \in Matching(s[1], s[2]),
                      NEW j \in Matching(s[1], s[2]), NEW r \in i..j
               PROVE  r \in Matching(s[1], s[2])
  BY DEF MatchesAdjoin
<1>2. PICK data, text : data = s[1] /\ text = ConvertToId(Stripped(s[2]))
  OBVIOUS
<1>3. Matching(s[1], s[2]) = {k \in DOMAIN data : Matches(data[k][1], text)}
  BY <1>2 DEF Matching
<1>4. /\ Len(text) \in Nat
      /\ \A k \in DOMAIN data : Len(data[k][1]) \in Nat
  BY <1>2 DEF TextsHaveLength
<1>5. /\ i \in DOMAIN data /\ Len(text) <= Len(data[i][1])
      /\ SubSeq(data[i][1], 1, Len(text)) = text
      /\ j \in DOMAIN data /\ Len(text) <= Len(data[j][1])
      /\ SubSeq(data[j][1], 1, Len(text)) = text
  BY <1>1, <1>3 DEF Matches
<1>6. Len(text) \in 0..Len(data[i][1])
  BY <1>4, <1>5
<1>7. r \in DOMAIN data
  <2>1. data \in Seq(STRING \X (Nat \ {0}))
    BY <1>2, SearchType
  <2>2. i \in 1..Len(data) /\ j \in 1..Len(data) /\ DOMAIN data = 1..Len(data)
        /\ Len(data) \in Nat
    BY <1>5, <2>1
  <2> QED
    BY <1>1, <2>2
<1>8. SameBeginning(data[i][1], data[j][1], Len(text))
  BY <1>5 DEF SameBeginning
<1>9. SameBeginning(data[i][1], data[r][1], Len(text))
  BY <1>1, <1>2, <1>5, <1>6, <1>8 DEF NamesAdjoin
<1> QED
  BY <1>3, <1>5, <1>7, <1>9 DEF SameBeginning, Matches

\* The rows shown are those of one search on the page that is loaded, whatever is
\* loaded over them, and in an index in order they follow one another for every
\* text.
THEOREM MatchesAreARange ==
    ASSUME TextsHaveLength, \A s \in Searches : NamesAdjoin(s[1])
    PROVE  Spec => []MatchesFollowOneAnother
<1>1. ScreenInv => MatchesFollowOneAnother
  BY OrderedNamesAdjoin DEF ScreenInv, MatchesAdjoin, MatchesFollowOneAnother
<1> QED
  BY <1>1, PageInductive, PTL
=============================================================================
