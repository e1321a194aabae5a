---------------------------- MODULE SearchResults ----------------------------
(***************************************************************************)
(* The results page of the search panel: class SearchResults of search.js  *)
(* with the page that createResults builds from the index.  A row is a     *)
(* symbol; a symbol with several links has children, which are hidden      *)
(* until it is opened.  The page filters its rows by the text searched     *)
(* for, and the arrow keys walk over what is displayed.                    *)
(*                                                                         *)
(* Rows and children are counted from 1 (the code counts from 0): <<i, 0>> *)
(* is the symbol 'Item(i-1)', <<i, c>> its child 'Item(i-1)_c(c-1)'.       *)
(* Following a link leaves the page and is not modelled.                   *)
(***************************************************************************)
EXTENDS SearchIndex, FiniteSets, SequencesExt

CONSTANTS
    Searches,   \* the <<page, text>> that the search box asks for
    Keys,       \* keys that the user presses
    MaxHeld     \* bound: keys held down at one time

ASSUME SearchesAssumption ==
    /\ Searches \subseteq Seq(STRING \X (Nat \ {0})) \X STRING
    /\ \A s \in Searches : s[1] # <<>>
ASSUME MaxHeldAssumption == MaxHeld \in Nat

VARIABLES
    page,       \* searchData of the page that is loaded
    shown,      \* rows that match the text searched for
    open,       \* rows whose children are displayed
    window,     \* whether the panel shows the results window
    focus,      \* the entry that has the keyboard, or Field, or Away
    keys,       \* lastKey and repeatOn
    held,       \* keys held down; the last of them is the one that repeats
    fresh       \* no keypress event since the last keydown event

vars == <<page, shown, open, window, focus, keys, held, fresh>>

Field == <<0, 0>>       \* the search field of the panel
Away == <<0, 1>>        \* neither the field nor the results
NoKey == "none"

-----------------------------------------------------------------------------
(* The rows and their elements *)

Rows == DOMAIN page
Id(i) == page[i][1]
Links(i) == page[i][2]
HasChildren(i) == Links(i) > 1

Entries == {<<i, 0>> : i \in Rows} \cup
           UNION {{<<i, c>> : c \in 1..Links(i)} : i \in {r \in Rows : HasChildren(r)}}

Displayed(e) == window /\ e[1] \in shown /\ (e[2] = 0 \/ e[1] \in open)

\* getElementById finds the first of the elements with an id.
FirstWithId(i) == CHOOSE r \in Rows : /\ Id(r) = Id(i)
                                      /\ \A s \in Rows : Id(s) = Id(i) => r <= s

\* Mutant of FindChildElement: the search does not end with the row.
FindChildElement_RunsOn(i) ==
    {r \in Rows : /\ r >= FirstWithId(i) /\ HasChildren(r)
                  /\ \A s \in FirstWithId(i)..(r - 1) : ~HasChildren(s)}

\* The row whose children FindChildElement returns for the id of row i, if any.
FindChildElement(i) == {r \in {FirstWithId(i)} : HasChildren(r)}

ChildrenVisible(i) == FindChildElement(i) \cap open # {}

\* Where the keyboard is after focus() was called on e; a hidden element does
\* not take it.
Focused(e) == IF Displayed(e) THEN e ELSE focus

-----------------------------------------------------------------------------
(* Search: the rows that match *)

Chars(text) == [k \in 1..Len(text) |-> SubSeq(text, k, k)]

\* convertToId, after toLowerCase, for the characters of the texts searched for.
ConvertChar(c) == CASE c = "_" -> "_5f"
                    [] c = "~" -> "_7e"
                    [] c = " " -> "_20"
                    [] c = "F" -> "f"
                    [] c = "P" -> "p"
                    [] OTHER -> c

ConvertToId(text) == FoldLeft(LAMBDA id, c : id \o ConvertChar(c), "", Chars(text))

\* Mutant of Matches: the text may be anywhere in the name.
Matches_Anywhere(id, text) ==
    \E k \in 0..(Len(id) - Len(text)) : SubSeq(id, k + 1, k + Len(text)) = text

Matches(id, text) ==
    Len(text) <= Len(id) /\ SubSeq(id, 1, Len(text)) = text

\* "strip trailing spaces"; the search box has stripped the leading ones.
Stripped(text) ==
    LET ends == {k \in 0..Len(text) : \A j \in (k + 1)..Len(text) : SubSeq(text, j, j) = " "}
    IN  SubSeq(text, 1, Min(ends))

Matching(data, text) ==
    {i \in DOMAIN data : Matches(data[i][1], ConvertToId(Stripped(text)))}

\* The rows that each search shows.
Results == [s \in Searches |-> Matching(s[1], s[2])]

\* What the pages of the generated index have, and the arrow keys rely on: the
\* rows that match a text follow one another, and of the rows with the same name
\* one at most has children.
MatchesAdjoin ==
    \A s \in Searches : \A i, j \in Matching(s[1], s[2]) :
        \A r \in i..j : r \in Matching(s[1], s[2])
OneParentPerName ==
    \A s \in Searches : \A i, j \in DOMAIN s[1] :
        s[1][i][1] = s[1][j][1] /\ s[1][i][2] > 1 /\ s[1][j][2] > 1 => i = j

\* The names with the same beginning follow one another, as in any list in
\* alphabetical order: then the rows that match do, for every text.
SameBeginning(a, b, n) ==
    n <= Len(a) /\ n <= Len(b) /\ SubSeq(a, 1, n) = SubSeq(b, 1, n)
NamesAdjoin(data) ==
    \A i, j \in DOMAIN data : \A n \in 0..Len(data[i][1]) :
        SameBeginning(data[i][1], data[j][1], n) =>
            \A r \in i..j : SameBeginning(data[i][1], data[r][1], n)
TextsHaveLength ==
    \A s \in Searches :
        /\ Len(ConvertToId(Stripped(s[2]))) \in Nat
        /\ \A i \in DOMAIN s[1] : Len(s[1][i][1]) \in Nat

\* The box has loaded the page of s: createResults builds it, Search filters it.
Init ==
    /\ \E s \in Searches : page = s[1] /\ shown = Results[s]
    /\ open = {}
    /\ window = TRUE
    /\ keys = [lastKey |-> NoKey, repeatOn |-> FALSE]
    /\ focus = Field
    /\ held = <<>>
    /\ fresh = FALSE

\* The search box shows the window and sends the frame to a page: its timer fires
\* or a filter is chosen, wherever the keyboard is and whatever key is held.  Down
\* in the field both moves the keyboard to an entry and sets the timer.
Ask ==
    /\ window' = TRUE
    /\ UNCHANGED <<page, shown, open, focus, keys, held, fresh>>

\* The page comes later, when the window may be closed again, and a new object
\* looks after it.  The field keeps the keyboard; an entry is gone with its page.
Load(s) ==
    /\ page' = s[1] /\ shown' = Results[s]
    /\ open' = {}
    /\ keys' = [lastKey |-> NoKey, repeatOn |-> FALSE]
    /\ focus' = IF focus = Field THEN Field ELSE Away
    /\ UNCHANGED <<window, held, fresh>>

-----------------------------------------------------------------------------
(* Moving over the rows *)

\* "return the first item with index index or higher that is visible"
NavNext(i) ==
    LET later == {r \in shown : r >= i}
    IN  IF later = {} THEN Field ELSE <<Min(later), 0>>

NavPrev(i) ==
    LET earlier == {r \in shown : r <= i}
    IN  IF earlier = {} THEN Field ELSE <<Max(earlier), 0>>

\* Mutant of AboveItem: always the symbol above, never its last child.
AboveItem_SkipsChildren(i) == NavPrev(i - 1)

\* From the symbol of row i: to the last child of the row above, if its
\* children are visible, or to its symbol.
AboveItem(i) ==
    LET item == NavPrev(i - 1)
    IN  IF item # Field /\ ChildrenVisible(item[1]) /\ HasChildren(i - 1)
        THEN <<i - 1, Links(i - 1)>>
        ELSE item

BelowItem(i) ==
    IF ChildrenVisible(i) /\ HasChildren(i) THEN <<i, 1>> ELSE NavNext(i + 1)

AboveChild(i, c) == IF c > 1 THEN <<i, c - 1>> ELSE <<i, 0>>

BelowChild(i, c) == IF c < Links(i) THEN <<i, c + 1>> ELSE NavNext(i + 1)

Above(e) == IF e[2] = 0 THEN AboveItem(e[1]) ELSE AboveChild(e[1], e[2])
Below(e) == IF e[2] = 0 THEN BelowItem(e[1]) ELSE BelowChild(e[1], e[2])

\* The keyboard goes to an entry, or back to the field; at the last entry it
\* stays.
MoveUp == focus' = IF Above(focus) = Field THEN Field ELSE Focused(Above(focus))
MoveDown == focus' = IF Below(focus) = Field THEN focus ELSE Focused(Below(focus))

\* Right and Left open and close the children of a symbol; NavChild has neither.
Unfold ==
    IF focus[2] # 0 THEN open' = open
    ELSE open' = open \cup FindChildElement(focus[1])

\* Mutant of Fold: also from a child, which keeps the keyboard.
Fold_FromChild == open' = open \ FindChildElement(focus[1])

Fold ==
    IF focus[2] # 0 THEN open' = open
    ELSE open' = open \ FindChildElement(focus[1])

\* Nav and NavChild, once ProcessKeys has let the key through.
Nav(key) ==
    \/ key = "Up" /\ MoveUp /\ UNCHANGED <<open, window>>
    \/ key = "Down" /\ MoveDown /\ UNCHANGED <<open, window>>
    \/ key = "Right" /\ Unfold /\ UNCHANGED <<focus, window>>
    \/ key = "Left" /\ Fold /\ UNCHANGED <<focus, window>>
    \/ key = "Escape" /\ window' = FALSE /\ focus' = Field /\ UNCHANGED open
    \/ key \notin {"Up", "Down", "Right", "Left", "Escape"}
       /\ UNCHANGED <<open, window, focus>>

-----------------------------------------------------------------------------
(* The events of the keyboard, at the entry that has it *)

AtEntry == focus \in Entries

\* A key that goes down acts, and starts over: its first keypress event does not.
KeyDownEvent(k) ==
    /\ Nav(k)
    /\ keys' = [lastKey |-> k, repeatOn |-> FALSE]

\* Mutant of KeyPressEvent: the first keypress after the keydown also acts.
KeyPressEvent_FirstActs(k) ==
    /\ keys' = [keys EXCEPT !.repeatOn = TRUE]
    /\ Nav(keys.lastKey)

\* "ignore first keypress after keydown"
KeyPressEvent(k) ==
    \/ /\ ~keys.repeatOn
       /\ keys' = [keys EXCEPT !.repeatOn = keys.lastKey # NoKey]
       /\ UNCHANGED <<open, window, focus>>
    \/ /\ keys.repeatOn
       /\ Nav(keys.lastKey)
       /\ UNCHANGED keys

KeyUpEvent(k) ==
    /\ keys' = [lastKey |-> NoKey, repeatOn |-> FALSE]
    /\ UNCHANGED <<open, window, focus>>

\* Enter is left to the browser, which follows the link of the entry: Toggle, if
\* it is a symbol with children.
Toggle(i) ==
    open' = SymDiff(open, FindChildElement(i))

FollowLink ==
    /\ Toggle(focus[1])
    /\ UNCHANGED <<focus, window, keys>>

\* The field sees keys when they are released (search.js:183-226): Down and Enter
\* enter the results, Escape leaves the field.
FieldKeyUp(k) ==
    /\ focus' = CASE k \in {"Down", "Enter"} -> Focused(NavNext(1))
                  [] k = "Escape" -> Away
                  [] OTHER -> focus
    /\ window' = (window /\ k # "Escape")
    /\ UNCHANGED <<open, keys>>

Unheard == UNCHANGED <<open, window, focus, keys>>

Press(k) ==
    /\ Len(held) < MaxHeld /\ ~Contains(held, k)
    /\ held' = Append(held, k)
    /\ fresh' = TRUE
    /\ IF AtEntry /\ k # "Enter" THEN KeyDownEvent(k)
       ELSE IF AtEntry /\ focus[2] = 0 /\ HasChildren(focus[1]) THEN FollowLink
       ELSE Unheard
    /\ UNCHANGED <<page, shown>>

\* The key that went down last repeats, as keypress or as keydown events.
RepeatKeyPress ==
    /\ held # <<>> /\ Last(held) # "Enter"
    /\ fresh' = FALSE
    /\ IF AtEntry THEN KeyPressEvent(Last(held)) ELSE Unheard
    /\ UNCHANGED <<page, shown, held>>

RepeatKeyDown ==
    /\ held # <<>> /\ Last(held) # "Enter"
    /\ fresh' = TRUE
    /\ AtEntry
    /\ KeyDownEvent(Last(held))
    /\ UNCHANGED <<page, shown, held>>

Release(k) ==
    /\ \E i \in DOMAIN held : held[i] = k /\ held' = RemoveAt(held, i)
    /\ fresh' = FALSE
    /\ IF AtEntry THEN IF k # "Enter" THEN KeyUpEvent(k) ELSE Unheard
       ELSE IF focus = Field THEN FieldKeyUp(k)
       ELSE Unheard
    /\ UNCHANGED <<page, shown>>

\* A click on a symbol with children, between two keys.
Click(i) ==
    /\ window /\ i \in shown /\ HasChildren(i) /\ held = <<>>
    /\ focus' = <<i, 0>>
    /\ Toggle(i)
    /\ UNCHANGED <<page, shown, window, keys, held, fresh>>

\* A click into the search field, also while a key is held.
EnterField ==
    /\ focus # Field
    /\ focus' = Field
    /\ UNCHANGED <<page, shown, open, window, keys, held, fresh>>

Next ==
    \/ Ask
    \/ \E s \in Searches : Load(s)
    \/ \E k \in Keys : Press(k) \/ Release(k)
    \/ RepeatKeyPress \/ RepeatKeyDown
    \/ \E i \in Rows : Click(i)
    \/ EnterField

Spec == Init /\ [][Next]_vars

-----------------------------------------------------------------------------

TypeOK ==
    /\ page \in {s[1] : s \in Searches}
    /\ shown \subseteq Rows
    /\ open \subseteq {i \in Rows : HasChildren(i)}
    /\ window \in BOOLEAN
    /\ focus \in Entries \cup {Field, Away}
    /\ keys \in [lastKey : Keys \cup {NoKey}, repeatOn : BOOLEAN]
    /\ ToSet(held) \subseteq Keys
    /\ fresh \in BOOLEAN

\* Entry e is displayed before entry f.
Before(e, f) == e[1] < f[1] \/ (e[1] = f[1] /\ e[2] < f[2])

OnScreen == {e \in Entries : Displayed(e)}

\* The entry displayed next to focus, below or above it, if there is one.
NextBelow == {e \in OnScreen : /\ Before(focus, e)
                               /\ ~\E f \in OnScreen : Before(focus, f) /\ Before(f, e)}
NextAbove == {e \in OnScreen : /\ Before(e, focus)
                               /\ ~\E f \in OnScreen : Before(e, f) /\ Before(f, focus)}

\* The key that an event lets act on the entry that has the keyboard.
Acts(k) ==
    AtEntry /\ \/ Press(k)
               \/ held # <<>> /\ Last(held) = k /\ RepeatKeyDown
               \/ keys.repeatOn /\ keys.lastKey = k /\ RepeatKeyPress

\* Down and Up move the keyboard by one entry of what is displayed, children of
\* open symbols included; below the last there is nothing, and above the first is
\* the field.  Nav finds the entries by number and by the id of the row, which
\* two rows can share, and looks for the last child above in the row with the
\* next lower number, displayed or not.
ArrowsFollowDisplay ==
    [][/\ Acts("Down") => focus' \in (IF NextBelow = {} THEN {focus} ELSE NextBelow)
       /\ Acts("Up") => focus' \in (IF NextAbove = {} THEN {Field} ELSE NextAbove)]_vars

\* While one key at a time is held, a key that repeats acts as itself and not on
\* the first keypress event after it went down, wherever the keyboard was when it
\* went down and wherever the last key was released, though a page may be loaded
\* in between: lastKey and repeatOn keep the values of a key whose release went
\* to the field.
HeldKeyRepeats ==
    [][AtEntry /\ RepeatKeyPress /\ <<open, window, focus>>' # <<open, window, focus>>
       => ~fresh /\ keys.lastKey = Last(held)]_vars

\* A key or a click shows or hides children only of a row with the name of the
\* one it acts on, and of that row itself if no other has its name; other rows
\* stay as they are.  A click does show or hide the children of the first row of a
\* name.  Of a later one it cannot: the second "file" of the index has two links
\* that nothing displays.
OpensOwnRow ==
    [][\/ \E s \in Searches : Load(s)
       \/ /\ \A i \in SymDiff(open, open') :
                /\ AtEntry' /\ Id(i) = Id(focus'[1])
                /\ i = focus'[1] \/ \E r \in Rows \ {i} : Id(r) = Id(i)
          /\ \A i \in Rows :
                Click(i) /\ FirstWithId(i) = i => i \in SymDiff(open, open')]_vars

\* The rows shown follow one another, so that the row with the next lower number
\* is the one displayed above (search.js:644).
MatchesFollowOneAnother ==
    \A i, j \in shown : \A r \in i..j : r \in shown

\* The keyboard is never at an entry that is hidden: neither a fold nor a closed
\* window leaves it behind.
FocusIsDisplayed == AtEntry => Displayed(focus)
=============================================================================
