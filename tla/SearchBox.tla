------------------------------ MODULE SearchBox ------------------------------
(***************************************************************************)
(* The search panel of the generated documentation: class SearchBox of     *)
(* search.js with the page elements it drives.  The user types into the    *)
(* field, chooses a filter in the select window, and moves between the     *)
(* field, the window and the results; the browser runs timers and loads    *)
(* the results page into a frame.  Every event is one step: JavaScript     *)
(* runs a handler to its end, and focus() and blur() call the handlers of  *)
(* the element that gains or loses the focus before they return.           *)
(* Positions and sizes are left out, and lastResultsPage, which is never   *)
(* read.                                                                   *)
(***************************************************************************)
EXTENDS Naturals

CONSTANTS
    Texts,              \* contents of the search field
    Empty,              \* ""
    Label,              \* searchLabel
    Typed,              \* the texts that the user types; not the label
    Squeezed,           \* a text without spaces: replace(/ +/g, "")
    Trimmed,            \* a text without leading spaces: replace(/^ +/, "")
    SelectItemCount,    \* items of the select window, one per section of the index
    HasContent,         \* the <<section, text>> that have a page in the index
    TimerIds,           \* bound: timers that the page knows at one time
    Careful             \* discipline of the user; see Settled

Items == 0..(SelectItemCount - 1)
NoItem == SelectItemCount
NoTimer == 0

ASSUME TextsAssumption ==
    /\ {Empty, Label} \cup Typed \subseteq Texts
    /\ Label \notin Typed \cup {Empty}
    /\ Squeezed \in [Texts -> Texts]
    /\ Trimmed \in [Texts -> Texts]
\* What the two replacements do to a text, and to one that they have been done to.
ASSUME SpacesAssumption ==
    /\ Squeezed[Empty] = Empty
    /\ \A t \in Texts : /\ Squeezed[Squeezed[t]] = Squeezed[t]
                        /\ Squeezed[Trimmed[t]] = Squeezed[t]
ASSUME ItemsAssumption == SelectItemCount \in Nat \ {0}
\* No section has a page for the NUL that stands for the first character of an
\* empty text (charAt(NaN) is charAt(0)), nor for a space.
ASSUME HasContentAssumption ==
    /\ HasContent \subseteq Items \X Texts
    /\ \A c \in HasContent : Squeezed[c[2]] # Empty
ASSUME TimerIdsAssumption == TimerIds \subseteq Nat \ {NoTimer}
ASSUME CarefulAssumption == Careful \in BOOLEAN

VARIABLES
    box,        \* the SearchBox object and the elements it drives
    document,   \* what the results frame has loaded
    focus,      \* where the keyboard is
    pointer,    \* whether the mouse is over the icon or the select window
    unseen      \* the field has changed since OnSearchFieldChange last ran

vars == <<box, document, focus, pointer, unseen>>

\* The document of the results frame: none yet, nomatches.html, or the results
\* page of a section with the search text after the question mark.
NoDocument == [page |-> "none", section |-> 0, query |-> Empty]
NoMatches == [page |-> "nomatches", section |-> 0, query |-> Empty]
Results(section, text) == [page |-> "results", section |-> section, query |-> text]
Documents == {NoDocument, NoMatches} \cup [page    : {"results"},
                                           section : Items,
                                           query   : Texts]

Box == [value           : Texts,            \* of the search field
        keyTimeout      : TimerIds \cup {NoTimer},
        hideTimeout     : TimerIds \cup {NoTimer},
        timers          : [TimerIds -> {"none", "Search", "CloseSelectionWindow"}],
        lastSearchValue : Texts,
        searchIndex     : Items \cup {NoItem},
        marked          : Items \cup {NoItem},  \* the item with the bullet
        searchActive    : BOOLEAN,
        boxActive       : BOOLEAN,          \* className of the panel
        resultsShown    : BOOLEAN,
        closeShown      : BOOLEAN,
        selectShown     : BOOLEAN,
        location        : Documents]        \* of the results frame

Init ==
    /\ box = [value |-> Label, keyTimeout |-> NoTimer, hideTimeout |-> NoTimer,
              timers |-> [t \in TimerIds |-> "none"], lastSearchValue |-> Empty,
              searchIndex |-> 0, marked |-> 0, searchActive |-> FALSE,
              boxActive |-> FALSE, resultsShown |-> FALSE, closeShown |-> FALSE,
              selectShown |-> FALSE, location |-> NoDocument]
    /\ document = NoDocument
    /\ focus = "page"
    /\ pointer = "away"
    /\ unseen = FALSE

-----------------------------------------------------------------------------
(* setTimeout and clearTimeout *)

\* Ids that are not in use, and that the box does not remember either.
FreeTimers(b) == {t \in TimerIds : /\ b.timers[t] = "none"
                                   /\ t \notin {b.keyTimeout, b.hideTimeout}}
NewTimer(b) == CHOOSE t \in FreeTimers(b) : TRUE

Cleared(b, id) == IF id = NoTimer THEN b ELSE [b EXCEPT !.timers[id] = "none"]

Pending(b, callback) == {t \in TimerIds : b.timers[t] = callback}

-----------------------------------------------------------------------------
(* The methods of SearchBox, from one state of the box to the next *)

\* "Activates or deactivates the search panel"
Activate(b, isActive) ==
    IF isActive \/ b.resultsShown
    THEN [b EXCEPT !.boxActive = TRUE,
                   !.value = IF @ = Label THEN Empty ELSE @,
                   !.searchActive = @ \/ b.value = Label]
    ELSE [b EXCEPT !.boxActive = FALSE,
                   !.value = Label,
                   !.searchActive = FALSE,
                   !.lastSearchValue = Empty]

HideResults(b) == [b EXCEPT !.resultsShown = FALSE, !.closeShown = FALSE]

CloseResultsWindow(b) == Activate(HideResults(b), FALSE)

CloseSelectionWindow(b) == [b EXCEPT !.selectShown = FALSE]

\* Mutant of OnSearchSelectShow: the hide timer runs on.
OnSearchSelectShow_TimerRuns(b) ==
    [b EXCEPT !.selectShown = TRUE, !.hideTimeout = NoTimer]

OnSearchSelectShow(b) ==
    [Cleared(b, b.hideTimeout) EXCEPT !.selectShown = TRUE,
                                      !.hideTimeout = NoTimer]

OnSearchSelectHide(b) ==
    [b EXCEPT !.timers[NewTimer(b)] = "CloseSelectionWindow",
              !.hideTimeout = NewTimer(b)]

Answer(section, text) ==
    IF <<section, text>> \in HasContent THEN Results(section, text) ELSE NoMatches

\* The index has no section for the item: "indexSectionsWithContent[...]" is
\* undefined and its charAt a TypeError, which ends the handler.
SearchThrows(b) == b.searchIndex \notin Items

\* Mutants of Search: the close button is left as it is; the frame is not sent
\* to the answer.
Search_NoCloseButton(b) ==
    IF SearchThrows(b) THEN [b EXCEPT !.keyTimeout = NoTimer]
    ELSE [b EXCEPT !.keyTimeout      = NoTimer,
                   !.location        = Answer(b.searchIndex, Trimmed[b.value]),
                   !.resultsShown    = TRUE,
                   !.lastSearchValue = Trimmed[b.value]]

Search_NoLocation(b) ==
    IF SearchThrows(b) THEN [b EXCEPT !.keyTimeout = NoTimer]
    ELSE [b EXCEPT !.keyTimeout      = NoTimer,
                   !.closeShown      = @ \/ ~b.resultsShown,
                   !.resultsShown    = TRUE,
                   !.lastSearchValue = Trimmed[b.value]]

\* "Performs a search."
Search(b) ==
    IF SearchThrows(b) THEN [b EXCEPT !.keyTimeout = NoTimer]
    ELSE [b EXCEPT !.keyTimeout      = NoTimer,
                   !.location        = Answer(b.searchIndex, Trimmed[b.value]),
                   !.closeShown      = @ \/ ~b.resultsShown,
                   !.resultsShown    = TRUE,
                   !.lastSearchValue = Trimmed[b.value]]

Searches(b) == Squeezed[b.value] # Empty /\ b.searchActive

\* SelectItemSet puts the bullet at item id, if there is one.
OnSelectItem(b, id) ==
    LET chosen == [b EXCEPT !.searchIndex = id, !.marked = id]
    IN  IF Searches(chosen) THEN Search(chosen) ELSE chosen

\* "kill running timer"
KillKeyTimer(b) == [Cleared(b, b.keyTimeout) EXCEPT !.keyTimeout = NoTimer]

StartKeyTimer(b) ==
    [b EXCEPT !.timers[NewTimer(b)] = "Search", !.keyTimeout = NewTimer(b)]

\* Mutant of NoteChange: an emptied field leaves the results where they are.
NoteChange_EmptyIgnored(b) ==
    IF Squeezed[b.value] \in {b.lastSearchValue, Empty} THEN b
    ELSE StartKeyTimer(b)

\* "search value has changed"
NoteChange(b) ==
    IF Squeezed[b.value] = b.lastSearchValue THEN b
    ELSE IF Squeezed[b.value] # Empty THEN StartKeyTimer(b)
    ELSE [HideResults(b) EXCEPT !.lastSearchValue = Empty]

\* The box after the keyboard has left where it is; the field has a handler.
Blurred(b) == IF focus = "field" THEN Activate(b, FALSE) ELSE b

-----------------------------------------------------------------------------
(* What the user does *)

\* The text in the field has been seen by the handler and searched for.  A
\* careful user waits for that before closing the results, leaving the field or
\* choosing a filter, and does not go beyond the last filter.
Settled == ~unseen /\ Pending(box, "Search") = {}
Waits == Careful => Settled

\* Bound: the page can start one more timer, at the end of a key press.
TimerLeft == FreeTimers(KillKeyTimer(box)) # {}

EnterField ==
    /\ focus # "field"
    /\ focus' = "field"
    /\ box' = Activate(box, TRUE)
    /\ UNCHANGED <<document, pointer, unseen>>

LeaveField ==
    /\ focus = "field" /\ Waits
    /\ focus' = "page"
    /\ box' = Blurred(box)
    /\ UNCHANGED <<document, pointer, unseen>>

Type(t) ==
    /\ focus = "field" /\ t # box.value
    /\ box' = [box EXCEPT !.value = t]
    /\ unseen' = TRUE
    /\ UNCHANGED <<document, focus, pointer>>

-----------------------------------------------------------------------------
(* OnSearchFieldChange, at the end of a key press in the field *)

FieldKey ==
    /\ focus = "field" /\ TimerLeft
    /\ box' = NoteChange(KillKeyTimer(box))
    /\ unseen' = FALSE
    /\ UNCHANGED <<document, focus, pointer>>

\* Down or Enter: to the first result, if there is one; then as any other key.
FieldDown ==
    /\ focus = "field" /\ TimerLeft
    /\ document.page = "results" /\ box.resultsShown
    /\ focus' = "results"
    /\ box' = NoteChange(Blurred(KillKeyTimer(box)))
    /\ unseen' = FALSE
    /\ UNCHANGED <<document, pointer>>

\* Shift-Down: to the first item of the select window.
FieldShiftDown ==
    /\ focus = "field" /\ Waits
    /\ focus' = "menu"
    /\ box' = Blurred(OnSearchSelectShow(KillKeyTimer(box)))
    /\ UNCHANGED <<document, pointer, unseen>>

\* "Escape out of the search field"
FieldEscape ==
    /\ focus = "field"
    /\ focus' = "page"
    /\ LET hidden == HideResults(Blurred(KillKeyTimer(box)))
       IN  box' = Activate([hidden EXCEPT !.lastSearchValue = Empty], FALSE)
    /\ unseen' = FALSE
    /\ UNCHANGED <<document, pointer>>

-----------------------------------------------------------------------------
(* The select window *)

PointerOver ==
    /\ pointer = "away"
    /\ pointer' = "over"
    /\ box' = OnSearchSelectShow(box)
    /\ UNCHANGED <<document, focus, unseen>>

PointerOut ==
    /\ pointer = "over" /\ FreeTimers(box) # {}
    /\ pointer' = "away"
    /\ box' = OnSearchSelectHide(box)
    /\ UNCHANGED <<document, focus, unseen>>

ClickItem(id) ==
    /\ pointer = "over" /\ box.selectShown /\ Waits
    /\ focus' = "menu"
    /\ box' = OnSelectItem(Blurred(box), id)
    /\ UNCHANGED <<document, pointer, unseen>>

\* "this.searchIndex<this.SelectItemCount()", which leads beyond the last item.
MayGoDown ==
    IF Careful THEN box.searchIndex + 1 \in Items
               ELSE box.searchIndex < SelectItemCount

\* Mutant of MayGoUp: also above the first item.
MayGoUp_AtFirst == box.searchIndex >= 0

MayGoUp == box.searchIndex > 0

MenuArrow ==
    /\ focus = "menu" /\ Waits
    /\ \/ MayGoDown /\ box' = OnSelectItem(box, box.searchIndex + 1)
       \/ MayGoUp /\ box' = OnSelectItem(box, box.searchIndex - 1)
    /\ UNCHANGED <<document, focus, pointer, unseen>>

\* Enter or Escape; an exception of Search leaves the window open.
MenuEnter ==
    /\ focus = "menu" /\ Waits
    /\ IF Searches(box) /\ SearchThrows(box)
       THEN /\ box' = OnSelectItem(box, box.searchIndex)
            /\ UNCHANGED focus
       ELSE /\ box' = Activate(CloseSelectionWindow(
                                   OnSelectItem(box, box.searchIndex)), TRUE)
            /\ focus' = "field"
    /\ UNCHANGED <<document, pointer, unseen>>

-----------------------------------------------------------------------------
(* The results window: its close button, and the keys of the results page *)

ClickClose ==
    /\ box.closeShown /\ Waits
    /\ focus' = "page"
    /\ box' = CloseResultsWindow(Blurred(box))
    /\ UNCHANGED <<document, pointer, unseen>>

ResultsEscape ==
    /\ focus = "results" /\ Waits
    /\ focus' = "field"
    /\ box' = Activate(CloseResultsWindow(box), TRUE)
    /\ UNCHANGED <<document, pointer, unseen>>

User ==
    \/ EnterField \/ LeaveField
    \/ \E t \in Typed : Type(t)
    \/ FieldKey \/ FieldDown \/ FieldShiftDown \/ FieldEscape
    \/ PointerOver \/ PointerOut
    \/ \E id \in Items : ClickItem(id)
    \/ MenuArrow \/ MenuEnter
    \/ ClickClose \/ ResultsEscape

-----------------------------------------------------------------------------
(* What the browser does *)

\* A window that closes gives up the keyboard.
TimerFires(t) ==
    LET fired == [box EXCEPT !.timers[t] = "none"]
    IN  \/ /\ box.timers[t] = "Search"
           /\ box' = Search(fired)
           /\ UNCHANGED <<document, focus, pointer, unseen>>
        \/ /\ box.timers[t] = "CloseSelectionWindow"
           /\ box' = CloseSelectionWindow(fired)
           /\ focus' = IF focus = "menu" THEN "page" ELSE focus
           /\ UNCHANGED <<document, pointer, unseen>>

FrameLoads ==
    /\ document # box.location
    /\ document' = box.location
    /\ focus' = IF focus = "results" THEN "page" ELSE focus
    /\ UNCHANGED <<box, pointer, unseen>>

Browser == (\E t \in TimerIds : TimerFires(t)) \/ FrameLoads

Next == User \/ Browser

\* The browser runs a timer that nobody stops, and finishes loading a page.
Fairness == /\ WF_vars(\E t \in TimerIds : TimerFires(t))
            /\ WF_vars(FrameLoads)

Spec == Init /\ [][Next]_vars /\ Fairness

-----------------------------------------------------------------------------

TypeOK ==
    /\ box \in Box
    /\ document \in Documents
    /\ focus \in {"page", "field", "menu", "results"}
    /\ pointer \in {"away", "over"}
    /\ unseen \in BOOLEAN

\* The panel shows what the field asks for: the results for its text, up to
\* spaces, in the section of the filter that is marked; no result while the
\* field shows its label or is blank.  The window itself may stay open on "no
\* matches": a timer that runs between the last deletion and the release of its
\* key searches for nothing, and the release then finds nothing changed.
Answered ==
    LET asked == {t \in Texts : Squeezed[t] = Squeezed[box.value]}
    IN  IF box.searchActive /\ Squeezed[box.value] # Empty
        THEN /\ box.resultsShown
             /\ box.location \in {Answer(box.marked, t) : t \in asked}
        ELSE box.resultsShown => box.location = NoMatches

\* When no search is due ("search value has changed", search.js:228), the panel
\* shows what the field asks for, however typing, timers, filter choices, focus
\* changes and closing interleave for a user who waits while one is due: no search
\* is forgotten, and none runs on the text of another.
SettledIsAnswered == Settled => Answered

\* The elements of the panel agree, whichever of the handlers ran last: there is
\* a close button exactly when there are results to close, results only in an
\* active panel, and an inactive panel shows its label and remembers no search.
\* For a user who waits: the search of one who leaves the field comes late, and
\* opens the results of an inactive panel.
PanelConsistent ==
    /\ box.closeShown <=> box.resultsShown
    /\ box.boxActive <=> box.searchActive
    /\ box.resultsShown => box.searchActive
    /\ box.searchActive <=> box.value # Label
    /\ ~box.searchActive => box.lastSearchValue = Empty
    /\ focus = "field" => box.searchActive

\* "stop selection hide timer" (search.js:167): while the mouse is over the
\* select window no timer is there that would close it, however often it has
\* left and come back.
NoHideWhileOver ==
    pointer = "over" => Pending(box, "CloseSelectionWindow") = {}

\* Once the user rests, what was typed is searched for and the frame shows the
\* answer; a key that is never released is not seen.
UserRests == <>[][Browser]_vars
RestIsAnswered ==
    UserRests => <>[](unseen \/ (Answered /\ document = box.location))
=============================================================================
