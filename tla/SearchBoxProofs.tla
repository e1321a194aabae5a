--------------------------- MODULE SearchBoxProofs ---------------------------
(***************************************************************************)
(* For every index, every set of texts and every number of filters: the    *)
(* elements of the search panel agree, it shows what the field asks for    *)
(* when no search is due, and no timer closes the select window under the  *)
(* mouse, as long as the user waits for a search that is due before        *)
(* leaving the field, closing the results or choosing a filter.  That the  *)
(* elements agree is not inductive: the invariant has to know which timers *)
(* can be there, and that the box remembers each of them.                  *)
(***************************************************************************)
EXTENDS SearchBox, TLAPS

-----------------------------------------------------------------------------
(* The inductive invariant, of the box and of what is around it *)

\* The elements of the panel agree.
Panel(b) ==
    /\ b.closeShown <=> b.resultsShown
    /\ b.boxActive <=> b.searchActive
    /\ b.resultsShown => b.searchActive
    /\ b.searchActive <=> b.value # Label
    /\ ~b.searchActive => b.lastSearchValue = Empty

\* A timer that will search is the one that the box remembers, not the one that
\* it stops to keep the select window open, and there is one only in an active
\* panel: nothing that deactivates it leaves the timer behind.
SearchTimers(b) ==
    \A t \in TimerIds : b.timers[t] = "Search" =>
        t = b.keyTimeout /\ t # b.hideTimeout /\ b.searchActive

\* A timer that will close the select window is the one that the box remembers.
HideTimers(b) ==
    \A t \in TimerIds : b.timers[t] = "CloseSelectionWindow" => t = b.hideTimeout

Good(b) == b \in Box /\ Panel(b) /\ SearchTimers(b) /\ HideTimers(b)

NoSearchDue(b) == \A t \in TimerIds : b.timers[t] # "Search"

\* The results shown are those of the filter that is marked for the text of the
\* last search, and that is forgotten when they are closed.
Recent(b) ==
    /\ b.searchIndex \in Items
    /\ b.marked = b.searchIndex
    /\ b.lastSearchValue # Empty => b.resultsShown
    /\ b.resultsShown => b.location = Answer(b.marked, b.lastSearchValue)

\* The last search was for the text in the field, up to spaces.
Searched(b) ==
    b.searchActive => Squeezed[b.lastSearchValue] = Squeezed[b.value]

IInv ==
    /\ Good(box)
    /\ document \in Documents
    /\ focus \in {"page", "field", "menu", "results"}
    /\ pointer \in {"away", "over"}
    /\ unseen \in BOOLEAN
    /\ focus = "field" => box.searchActive
    /\ pointer = "over" => box.hideTimeout = NoTimer

\* Unless a search is due, or a key that was pressed has not been released.
AskedInv ==
    /\ Recent(box)
    /\ ~unseen /\ NoSearchDue(box) => Searched(box)

-----------------------------------------------------------------------------
(* The methods keep the invariant *)

\* Opening the panel, also when it is open.
LEMMA OpenGood ==
    ASSUME NEW b, Good(b)
    PROVE  /\ Good(Activate(b, TRUE))
           /\ Activate(b, TRUE).searchActive
           /\ Activate(b, TRUE).hideTimeout = b.hideTimeout
  BY TextsAssumption DEF Good, Box, Panel, SearchTimers, HideTimers, Activate

\* Deactivating it, unless results are shown, when no search is due.
LEMMA CloseGood ==
    ASSUME NEW b, Good(b), b.resultsShown \/ NoSearchDue(b)
    PROVE  /\ Good(Activate(b, FALSE))
           /\ Activate(b, FALSE).hideTimeout = b.hideTimeout
           /\ b.resultsShown => Activate(b, FALSE).searchActive
                                /\ Activate(b, FALSE).resultsShown
           /\ NoSearchDue(b) => NoSearchDue(Activate(b, FALSE))
  BY TextsAssumption
  DEF Good, Box, Panel, SearchTimers, HideTimers, Activate, NoSearchDue

LEMMA HideGood ==
    ASSUME NEW b, Good(b)
    PROVE  /\ Good(HideResults(b))
           /\ HideResults(b).hideTimeout = b.hideTimeout
           /\ HideResults(b).searchActive <=> b.searchActive
           /\ NoSearchDue(b) => NoSearchDue(HideResults(b))
  BY DEF Good, Box, Panel, SearchTimers, HideTimers, HideResults, NoSearchDue

LEMMA CloseSelectionGood ==
    ASSUME NEW b, Good(b)
    PROVE  /\ Good(CloseSelectionWindow(b))
           /\ CloseSelectionWindow(b).hideTimeout = b.hideTimeout
           /\ CloseSelectionWindow(b).searchActive <=> b.searchActive
  BY DEF Good, Box, Panel, SearchTimers, HideTimers, CloseSelectionWindow

\* Stopping the timer that would search stops all of them.
LEMMA KillGood ==
    ASSUME NEW b, Good(b)
    PROVE  /\ Good(KillKeyTimer(b))
           /\ NoSearchDue(KillKeyTimer(b))
           /\ KillKeyTimer(b).hideTimeout = b.hideTimeout
           /\ KillKeyTimer(b).searchActive <=> b.searchActive
           /\ KillKeyTimer(b).resultsShown <=> b.resultsShown
  BY TimerIdsAssumption
  DEF Good, Box, Panel, SearchTimers, HideTimers, KillKeyTimer, Cleared,
      NoSearchDue, NoTimer

\* Showing the select window stops the timer that would close it.
LEMMA ShowGood ==
    ASSUME NEW b, Good(b)
    PROVE  /\ Good(OnSearchSelectShow(b))
           /\ OnSearchSelectShow(b).hideTimeout = NoTimer
           /\ OnSearchSelectShow(b).searchActive <=> b.searchActive
           /\ NoSearchDue(b) => NoSearchDue(OnSearchSelectShow(b))
  BY TimerIdsAssumption
  DEF Good, Box, Panel, SearchTimers, HideTimers, OnSearchSelectShow, Cleared,
      NoSearchDue, NoTimer

\* A new timer has an id of its own.
LEMMA NewTimerFree ==
    ASSUME NEW b, FreeTimers(b) # {}
    PROVE  /\ NewTimer(b) \in TimerIds
           /\ b.timers[NewTimer(b)] = "none"
           /\ NewTimer(b) # b.keyTimeout
           /\ NewTimer(b) # b.hideTimeout
  BY DEF NewTimer, FreeTimers

LEMMA LeaveGood ==
    ASSUME NEW b, Good(b), b.hideTimeout = NoTimer, FreeTimers(b) # {}
    PROVE  /\ Good(OnSearchSelectHide(b))
           /\ OnSearchSelectHide(b).searchActive <=> b.searchActive
  <1> DEFINE n == NewTimer(b)
  <1>1. n \in TimerIds /\ b.timers[n] = "none" /\ n # b.keyTimeout
    BY NewTimerFree
  <1>2. OnSearchSelectHide(b) = [b EXCEPT !.timers[n] = "CloseSelectionWindow",
                                          !.hideTimeout = n]
    BY DEF OnSearchSelectHide
  <1> DEFINE d == [b EXCEPT !.timers[n] = "CloseSelectionWindow", !.hideTimeout = n]
  <1> HIDE DEF n
  <1>3. d \in Box
    BY <1>1 DEF Good, Box
  <1>4. Panel(d) /\ (d.searchActive <=> b.searchActive)
    BY DEF Good, Box, Panel
  <1>5. /\ d.keyTimeout = b.keyTimeout /\ d.hideTimeout = n
        /\ \A t \in TimerIds : d.timers[t] = IF t = n THEN "CloseSelectionWindow"
                                            ELSE b.timers[t]
    BY <1>1 DEF Good, Box
  <1>6. \A t \in TimerIds : b.timers[t] # "CloseSelectionWindow"
    BY TimerIdsAssumption DEF Good, HideTimers, NoTimer
  <1> HIDE DEF d
  <1>7. SearchTimers(d)
    BY <1>4, <1>5 DEF Good, SearchTimers
  <1>8. HideTimers(d)
    BY <1>5, <1>6 DEF HideTimers
  <1> QED
    BY <1>2, <1>3, <1>4, <1>7, <1>8 DEF Good, d

LEMMA AnswerIsDocument ==
    ASSUME NEW s \in Items, NEW t \in Texts
    PROVE  Answer(s, t) \in Documents
  BY DEF Answer, Documents, Results, NoMatches

\* A search in an active panel, when no other is due.
LEMMA SearchGood ==
    ASSUME NEW b, Good(b), b.searchActive, NoSearchDue(b)
    PROVE  /\ Good(Search(b))
           /\ Search(b).searchActive
           /\ Search(b).hideTimeout = b.hideTimeout
           /\ NoSearchDue(Search(b))
  <1>1. CASE SearchThrows(b)
    BY <1>1 DEF Search, Good, Box, Panel, SearchTimers, HideTimers, NoSearchDue
  <1>2. CASE ~SearchThrows(b)
    <2> DEFINE loc == Answer(b.searchIndex, Trimmed[b.value])
               txt == Trimmed[b.value]
    <2>1. txt \in Texts /\ loc \in Documents
      BY <1>2, AnswerIsDocument, TextsAssumption DEF SearchThrows, Good, Box
    <2>2. Search(b) = [b EXCEPT !.keyTimeout      = NoTimer,
                                !.location        = loc,
                                !.closeShown      = @ \/ ~b.resultsShown,
                                !.resultsShown    = TRUE,
                                !.lastSearchValue = txt]
      BY <1>2 DEF Search
    <2> DEFINE d == [b EXCEPT !.keyTimeout      = NoTimer,
                              !.location        = loc,
                              !.closeShown      = @ \/ ~b.resultsShown,
                              !.resultsShown    = TRUE,
                              !.lastSearchValue = txt]
    <2> HIDE DEF loc, txt
    <2>3. d \in Box
      BY <2>1 DEF Good, Box
    <2>4. /\ d.closeShown <=> b.closeShown \/ ~b.resultsShown
          /\ d.resultsShown
          /\ d.boxActive = b.boxActive /\ d.searchActive = b.searchActive
          /\ d.value = b.value /\ d.timers = b.timers
          /\ d.hideTimeout = b.hideTimeout
      BY DEF Good, Box
    <2> HIDE DEF d
    <2>5. Panel(d)
      BY <2>4 DEF Good, Panel
    <2>6. SearchTimers(d) /\ HideTimers(d) /\ NoSearchDue(d)
      BY <2>4 DEF Good, SearchTimers, HideTimers, NoSearchDue
    <2> QED
      BY <2>2, <2>3, <2>4, <2>5, <2>6 DEF Good, d
  <1> QED BY <1>1, <1>2

LEMMA SelectGood ==
    ASSUME NEW b, Good(b), NoSearchDue(b), NEW id \in Items \cup {NoItem}
    PROVE  /\ Good(OnSelectItem(b, id))
           /\ OnSelectItem(b, id).searchActive <=> b.searchActive
           /\ OnSelectItem(b, id).hideTimeout = b.hideTimeout
           /\ NoSearchDue(OnSelectItem(b, id))
  <1> DEFINE d == [b EXCEPT !.searchIndex = id, !.marked = id]
  <1>1. d \in Box
    BY DEF Good, Box
  <1>2. /\ d.searchActive = b.searchActive /\ d.hideTimeout = b.hideTimeout
        /\ d.closeShown = b.closeShown /\ d.resultsShown = b.resultsShown
        /\ d.boxActive = b.boxActive /\ d.value = b.value
        /\ d.lastSearchValue = b.lastSearchValue
        /\ d.keyTimeout = b.keyTimeout /\ d.timers = b.timers
    BY DEF Good, Box
  <1>3. Good(d) /\ NoSearchDue(d)
    BY <1>1, <1>2 DEF Good, Panel, SearchTimers, HideTimers, NoSearchDue
  <1>4. OnSelectItem(b, id) = IF Searches(d) THEN Search(d) ELSE d
    BY DEF OnSelectItem
  <1>5. Searches(d) => d.searchActive
    BY DEF Searches
  <1> HIDE DEF d
  <1> QED
    BY <1>2, <1>3, <1>4, <1>5, SearchGood

LEMMA StartGood ==
    ASSUME NEW b, Good(b), b.searchActive, NoSearchDue(b), FreeTimers(b) # {}
    PROVE  /\ Good(StartKeyTimer(b))
           /\ StartKeyTimer(b).searchActive
           /\ StartKeyTimer(b).hideTimeout = b.hideTimeout
  <1> DEFINE n == NewTimer(b)
             d == [b EXCEPT !.timers[n] = "Search", !.keyTimeout = n]
  <1>1. n \in TimerIds /\ b.timers[n] = "none" /\ n # b.hideTimeout
    BY NewTimerFree
  <1>2. StartKeyTimer(b) = d
    BY DEF StartKeyTimer
  <1> HIDE DEF n
  <1>3. d \in Box
    BY <1>1 DEF Good, Box
  <1>4. Panel(d) /\ d.searchActive /\ d.hideTimeout = b.hideTimeout
    BY DEF Good, Box, Panel
  <1>5. /\ d.keyTimeout = n
        /\ \A t \in TimerIds : d.timers[t] = IF t = n THEN "Search" ELSE b.timers[t]
    BY <1>1 DEF Good, Box
  <1> HIDE DEF d
  <1>6. SearchTimers(d) /\ HideTimers(d)
    BY <1>1, <1>4, <1>5 DEF Good, SearchTimers, HideTimers, NoSearchDue
  <1> QED
    BY <1>2, <1>3, <1>4, <1>6 DEF Good

LEMMA NoteGood ==
    ASSUME NEW b, Good(b), b.searchActive, NoSearchDue(b), FreeTimers(b) # {}
    PROVE  /\ Good(NoteChange(b))
           /\ NoteChange(b).searchActive
           /\ NoteChange(b).hideTimeout = b.hideTimeout
  <1>1. CASE Squeezed[b.value] = b.lastSearchValue
    BY <1>1 DEF NoteChange
  <1>2. CASE Squeezed[b.value] # b.lastSearchValue /\ Squeezed[b.value] # Empty
    BY <1>2, StartGood DEF NoteChange
  <1>3. CASE Squeezed[b.value] # b.lastSearchValue /\ Squeezed[b.value] = Empty
    <2> DEFINE h == HideResults(b)
               d == [h EXCEPT !.lastSearchValue = Empty]
    <2>1. NoteChange(b) = d
      BY <1>3 DEF NoteChange
    <2>2. Good(h) /\ h.searchActive /\ h.hideTimeout = b.hideTimeout
      BY HideGood
    <2> HIDE DEF h
    <2>3. Good(d) /\ d.searchActive /\ d.hideTimeout = h.hideTimeout
      BY <2>2, TextsAssumption DEF Good, Box, Panel, SearchTimers, HideTimers
    <2> QED
      BY <2>1, <2>2, <2>3
  <1> QED BY <1>1, <1>2, <1>3

\* While results are shown, losing the keyboard changes no timer.
LEMMA FreeAfterBlur ==
    ASSUME NEW b, Good(b), b.resultsShown, FreeTimers(b) # {}
    PROVE  FreeTimers(Activate(b, FALSE)) # {}
  BY DEF FreeTimers, Activate, Good, Box

-----------------------------------------------------------------------------
(* The panel shows what was asked for *)

\* Nothing is found for a text without a character, in any section.
LEMMA BlankIsNoMatch ==
    ASSUME NEW s, NEW t, Squeezed[t] = Empty
    PROVE  Answer(s, t) = NoMatches
  BY HasContentAssumption DEF Answer

LEMMA OpenRecent ==
    ASSUME NEW b, Good(b), Recent(b), Searched(b)
    PROVE  Recent(Activate(b, TRUE)) /\ Searched(Activate(b, TRUE))
  <1>1. b.lastSearchValue = Empty \/ b.searchActive
    BY DEF Good, Panel
  <1>2. b.value = Label => b.lastSearchValue = Empty
    BY DEF Good, Panel
  <1> QED
    BY <1>1, <1>2, SpacesAssumption
    DEF Recent, Searched, Activate, Good, Box, Panel

\* Deactivating the panel forgets the last search, or leaves it as it is.
LEMMA CloseRecent ==
    ASSUME NEW b, Good(b), Recent(b), b.resultsShown => Searched(b)
    PROVE  /\ Recent(Activate(b, FALSE))
           /\ Searched(Activate(b, FALSE))
  BY DEF Recent, Searched, Activate, Good, Box, Panel

\* The results are hidden and the last search is forgotten.
LEMMA ForgetRecent ==
    ASSUME NEW b, Good(b), Recent(b)
    PROVE  Recent([HideResults(b) EXCEPT !.lastSearchValue = Empty])
  BY DEF Recent, HideResults, Good, Box

LEMMA KillRecent ==
    ASSUME NEW b, Good(b), Recent(b)
    PROVE  Recent(KillKeyTimer(b))
  BY DEF Recent, KillKeyTimer, Cleared, Good, Box

\* A search is for the text in the field, up to spaces.
LEMMA SearchRecent ==
    ASSUME NEW b, Good(b), b.searchIndex \in Items, b.marked = b.searchIndex
    PROVE  Recent(Search(b)) /\ Searched(Search(b))
  <1> DEFINE loc == Answer(b.searchIndex, Trimmed[b.value])
             txt == Trimmed[b.value]
             d == [b EXCEPT !.keyTimeout      = NoTimer,
                            !.location        = loc,
                            !.closeShown      = @ \/ ~b.resultsShown,
                            !.resultsShown    = TRUE,
                            !.lastSearchValue = txt]
  <1>1. Search(b) = d
    BY DEF Search, SearchThrows
  <1>2. Squeezed[txt] = Squeezed[b.value] /\ loc = Answer(b.marked, txt)
    BY SpacesAssumption DEF Good, Box
  <1> HIDE DEF loc, txt
  <1>3. /\ d.searchIndex = b.searchIndex /\ d.marked = b.marked
        /\ d.resultsShown /\ d.location = loc
        /\ d.lastSearchValue = txt /\ d.value = b.value
    BY DEF Good, Box
  <1> HIDE DEF d
  <1> QED
    BY <1>1, <1>2, <1>3 DEF Recent, Searched

\* Choosing a filter searches again, unless there is nothing to search for.
LEMMA SelectRecent ==
    ASSUME NEW b, Good(b), Recent(b), Searched(b), NEW id \in Items
    PROVE  /\ Recent(OnSelectItem(b, id))
           /\ Searched(OnSelectItem(b, id))
  <1> DEFINE d == [b EXCEPT !.searchIndex = id, !.marked = id]
  <1>1. OnSelectItem(b, id) = IF Searches(d) THEN Search(d) ELSE d
    BY DEF OnSelectItem
  <1>2. d \in Box
    BY DEF Good, Box
  <1>3. /\ d.searchIndex = id /\ d.marked = id
        /\ d.searchActive = b.searchActive /\ d.hideTimeout = b.hideTimeout
        /\ d.closeShown = b.closeShown /\ d.resultsShown = b.resultsShown
        /\ d.boxActive = b.boxActive /\ d.value = b.value
        /\ d.lastSearchValue = b.lastSearchValue /\ d.location = b.location
        /\ d.keyTimeout = b.keyTimeout /\ d.timers = b.timers
    BY DEF Good, Box
  <1> HIDE DEF d
  <1>4. Good(d)
    BY <1>2, <1>3 DEF Good, Panel, SearchTimers, HideTimers
  <1>5. CASE Searches(d)
    BY <1>1, <1>3, <1>4, <1>5, SearchRecent
  <1>6. CASE ~Searches(d)
    <2>1. b.searchActive => Squeezed[b.lastSearchValue] = Empty
      BY <1>3, <1>6 DEF Searches, Searched
    <2>2. b.resultsShown => Answer(b.marked, b.lastSearchValue) = NoMatches
                            /\ Answer(id, b.lastSearchValue) = NoMatches
      BY <2>1, BlankIsNoMatch DEF Good, Panel
    <2>3. Recent(d) /\ Searched(d)
      BY <1>3, <2>2 DEF Recent, Searched
    <2> QED
      BY <1>1, <1>6, <2>3
  <1> QED
    BY <1>5, <1>6

\* The release of a key notes that the text has changed, or it was searched for.
LEMMA NoteRecent ==
    ASSUME NEW b, Good(b), Recent(b), FreeTimers(b) # {}
    PROVE  /\ Recent(NoteChange(b))
           /\ NoSearchDue(NoteChange(b)) => Searched(NoteChange(b))
  <1>1. CASE Squeezed[b.value] = b.lastSearchValue
    BY <1>1, SpacesAssumption DEF NoteChange, Searched, Good, Box
  <1>2. CASE Squeezed[b.value] # b.lastSearchValue /\ Squeezed[b.value] # Empty
    <2> DEFINE n == NewTimer(b)
               d == [b EXCEPT !.timers[n] = "Search", !.keyTimeout = n]
    <2>1. NoteChange(b) = d
      BY <1>2 DEF NoteChange, StartKeyTimer
    <2>2. n \in TimerIds
      BY NewTimerFree
    <2> HIDE DEF n
    <2>3. /\ d.searchIndex = b.searchIndex /\ d.marked = b.marked
          /\ d.resultsShown = b.resultsShown /\ d.location = b.location
          /\ d.lastSearchValue = b.lastSearchValue
          /\ d.timers[n] = "Search"
      BY <2>2 DEF Good, Box
    <2> HIDE DEF d
    <2> QED
      BY <2>1, <2>2, <2>3 DEF Recent, NoSearchDue
  <1>3. CASE Squeezed[b.value] # b.lastSearchValue /\ Squeezed[b.value] = Empty
    <2> DEFINE d == [HideResults(b) EXCEPT !.lastSearchValue = Empty]
    <2>1. NoteChange(b) = d
      BY <1>3 DEF NoteChange
    <2>2. d.lastSearchValue = Empty /\ d.value = b.value
      BY DEF HideResults, Good, Box
    <2>3. Recent(d)
      BY ForgetRecent
    <2> HIDE DEF d
    <2> QED
      BY <1>3, <2>1, <2>2, <2>3, SpacesAssumption DEF Searched
  <1> QED BY <1>1, <1>2, <1>3

-----------------------------------------------------------------------------
(* The invariant holds at first, and every step of a careful user or of the *)
(* browser keeps it                                                         *)

LEMMA InitIInv == Init => IInv
  <1> SUFFICES ASSUME Init PROVE IInv
    OBVIOUS
  <1>1. box \in Box
    BY TextsAssumption, ItemsAssumption
    DEF Init, Box, Items, NoItem, NoTimer, Documents, NoDocument
  <1>2. Panel(box) /\ SearchTimers(box) /\ HideTimers(box)
    BY TextsAssumption DEF Init, Panel, SearchTimers, HideTimers
  <1>3. document \in Documents
    BY DEF Init, Documents
  <1> QED
    BY <1>1, <1>2, <1>3 DEF Init, IInv, Good, NoTimer

\* A careful user has waited.
LEMMA WaitsNoSearchDue ==
    ASSUME Careful, Waits
    PROVE  NoSearchDue(box)
  BY DEF Waits, Settled, Pending, NoSearchDue

LEMMA EnterFieldInv == ASSUME IInv, EnterField PROVE IInv'
  BY OpenGood DEF EnterField, IInv

LEMMA LeaveFieldInv == ASSUME Careful, IInv, LeaveField PROVE IInv'
  BY WaitsNoSearchDue, CloseGood DEF LeaveField, Blurred, IInv

LEMMA TypeInv == ASSUME IInv, NEW t \in Typed, Type(t) PROVE IInv'
  <1>1. box.searchActive /\ t \in Texts /\ t # Label
    BY TextsAssumption DEF Type, IInv
  <1> DEFINE d == [box EXCEPT !.value = t]
  <1>2. Good(d) /\ d.searchActive /\ d.hideTimeout = box.hideTimeout
    BY <1>1 DEF IInv, Good, Box, Panel, SearchTimers, HideTimers
  <1>3. box' = d
    BY DEF Type
  <1> HIDE DEF d
  <1> QED
    BY <1>2, <1>3 DEF Type, IInv

LEMMA FieldKeyInv == ASSUME IInv, FieldKey PROVE IInv'
  <1>1. Good(KillKeyTimer(box)) /\ NoSearchDue(KillKeyTimer(box))
        /\ KillKeyTimer(box).searchActive
        /\ KillKeyTimer(box).hideTimeout = box.hideTimeout
    BY KillGood DEF FieldKey, IInv
  <1> QED
    BY <1>1, NoteGood DEF FieldKey, TimerLeft, IInv

LEMMA FieldDownInv == ASSUME IInv, FieldDown PROVE IInv'
  <1> DEFINE k == KillKeyTimer(box)
             a == Activate(k, FALSE)
  <1>1. Good(k) /\ NoSearchDue(k) /\ k.resultsShown /\ k.hideTimeout = box.hideTimeout
    BY KillGood DEF FieldDown, IInv
  <1>2. FreeTimers(k) # {}
    BY DEF FieldDown, TimerLeft
  <1>3. /\ Good(a) /\ a.searchActive /\ NoSearchDue(a)
        /\ a.hideTimeout = k.hideTimeout /\ FreeTimers(a) # {}
    BY <1>1, <1>2, CloseGood, FreeAfterBlur
  <1>4. box' = NoteChange(a)
    BY DEF FieldDown, Blurred
  <1> HIDE DEF a
  <1> QED
    BY <1>1, <1>3, <1>4, NoteGood DEF FieldDown, IInv

LEMMA FieldShiftDownInv == ASSUME Careful, IInv, FieldShiftDown PROVE IInv'
  <1> DEFINE k == KillKeyTimer(box)
             w == OnSearchSelectShow(k)
  <1>1. Good(k) /\ NoSearchDue(k)
    BY KillGood DEF FieldShiftDown, IInv
  <1>2. Good(w) /\ NoSearchDue(w) /\ w.hideTimeout = NoTimer
    BY <1>1, ShowGood
  <1>3. box' = Activate(w, FALSE)
    BY DEF FieldShiftDown, Blurred
  <1> HIDE DEF w
  <1> QED
    BY <1>2, <1>3, CloseGood DEF FieldShiftDown, IInv

LEMMA FieldEscapeInv == ASSUME IInv, FieldEscape PROVE IInv'
  <1> DEFINE k == KillKeyTimer(box)
             a == Activate(k, FALSE)
             h == HideResults(a)
             d == [h EXCEPT !.lastSearchValue = Empty]
  <1>1. Good(k) /\ NoSearchDue(k) /\ k.hideTimeout = box.hideTimeout
    BY KillGood DEF FieldEscape, IInv
  <1>2. Good(a) /\ NoSearchDue(a) /\ a.hideTimeout = k.hideTimeout
    BY <1>1, CloseGood
  <1>3. Good(h) /\ NoSearchDue(h) /\ h.hideTimeout = a.hideTimeout
    BY <1>2, HideGood
  <1>4. box' = Activate(d, FALSE)
    BY DEF FieldEscape, Blurred
  <1> HIDE DEF h
  <1>5. Good(d) /\ NoSearchDue(d) /\ d.hideTimeout = h.hideTimeout
    BY <1>3, TextsAssumption
    DEF Good, Box, Panel, SearchTimers, HideTimers, NoSearchDue
  <1> HIDE DEF d
  <1> QED
    BY <1>1, <1>2, <1>3, <1>4, <1>5, CloseGood DEF FieldEscape, IInv

LEMMA PointerOverInv == ASSUME IInv, PointerOver PROVE IInv'
  BY ShowGood DEF PointerOver, IInv

LEMMA PointerOutInv == ASSUME IInv, PointerOut PROVE IInv'
  BY LeaveGood DEF PointerOut, IInv

LEMMA ClickItemInv ==
    ASSUME Careful, IInv, NEW id \in Items, ClickItem(id) PROVE IInv'
  <1> DEFINE d == Blurred(box)
  <1>1. Good(d) /\ NoSearchDue(d) /\ d.hideTimeout = box.hideTimeout
    BY WaitsNoSearchDue, CloseGood DEF ClickItem, Blurred, IInv
  <1>2. box' = OnSelectItem(d, id)
    BY DEF ClickItem
  <1> HIDE DEF d
  <1> QED
    BY <1>1, <1>2, SelectGood DEF ClickItem, IInv

LEMMA MenuArrowInv == ASSUME Careful, IInv, MenuArrow PROVE IInv'
  <1>1. Good(box) /\ NoSearchDue(box)
    BY WaitsNoSearchDue DEF MenuArrow, IInv
  <1>2. PICK id \in Items \cup {NoItem} : box' = OnSelectItem(box, id)
    <2>1. CASE MayGoDown /\ box' = OnSelectItem(box, box.searchIndex + 1)
      BY <2>1 DEF MayGoDown
    <2>2. CASE MayGoUp /\ box' = OnSelectItem(box, box.searchIndex - 1)
      <3>1. box.searchIndex \in Items \cup {NoItem} /\ box.searchIndex > 0
        BY <1>1, <2>2 DEF MayGoUp, Good, Box
      <3>2. box.searchIndex - 1 \in Items
        BY <3>1, ItemsAssumption DEF Items, NoItem
      <3> QED BY <2>2, <3>2
    <2> QED BY <2>1, <2>2 DEF MenuArrow
  <1> QED
    BY <1>1, <1>2, SelectGood DEF MenuArrow, IInv

LEMMA MenuEnterInv == ASSUME Careful, IInv, MenuEnter PROVE IInv'
  <1> DEFINE d == OnSelectItem(box, box.searchIndex)
             c == CloseSelectionWindow(d)
  <1>1. Good(box) /\ NoSearchDue(box) /\ box.searchIndex \in Items \cup {NoItem}
    BY WaitsNoSearchDue DEF MenuEnter, IInv, Good, Box
  <1>2. Good(d) /\ d.hideTimeout = box.hideTimeout
    BY <1>1, SelectGood
  <1>3. \/ box' = d /\ focus' = focus
        \/ box' = Activate(c, TRUE) /\ focus' = "field"
    BY DEF MenuEnter
  <1>4. focus = "menu" /\ UNCHANGED <<document, pointer, unseen>>
    BY DEF MenuEnter
  <1> HIDE DEF d
  <1>5. Good(c) /\ c.hideTimeout = d.hideTimeout
    BY <1>2, CloseSelectionGood
  <1> HIDE DEF c
  <1> QED
    BY <1>2, <1>3, <1>4, <1>5, OpenGood DEF IInv

LEMMA ClickCloseInv == ASSUME Careful, IInv, ClickClose PROVE IInv'
  <1> DEFINE d == Blurred(box)
             h == HideResults(d)
  <1>1. Good(d) /\ NoSearchDue(d) /\ d.hideTimeout = box.hideTimeout
    BY WaitsNoSearchDue, CloseGood DEF ClickClose, Blurred, IInv
  <1>2. box' = Activate(h, FALSE)
    BY DEF ClickClose, CloseResultsWindow
  <1> HIDE DEF d
  <1>3. Good(h) /\ NoSearchDue(h) /\ h.hideTimeout = d.hideTimeout
    BY <1>1, HideGood
  <1> HIDE DEF h
  <1> QED
    BY <1>1, <1>2, <1>3, CloseGood DEF ClickClose, IInv

LEMMA ResultsEscapeInv == ASSUME Careful, IInv, ResultsEscape PROVE IInv'
  <1> DEFINE h == HideResults(box)
             a == Activate(h, FALSE)
  <1>1. Good(h) /\ NoSearchDue(h) /\ h.hideTimeout = box.hideTimeout
    BY WaitsNoSearchDue, HideGood DEF ResultsEscape, IInv
  <1>2. box' = Activate(a, TRUE)
    BY DEF ResultsEscape, CloseResultsWindow
  <1> HIDE DEF h
  <1>3. Good(a) /\ a.hideTimeout = h.hideTimeout
    BY <1>1, CloseGood
  <1> HIDE DEF a
  <1> QED
    BY <1>1, <1>2, <1>3, OpenGood DEF ResultsEscape, IInv

\* The timer that fires is the only one that will search, and the panel is
\* active.
LEMMA TimerFiresInv == ASSUME IInv, NEW t \in TimerIds, TimerFires(t) PROVE IInv'
  <1> DEFINE d == [box EXCEPT !.timers[t] = "none"]
  <1>1. Good(d) /\ d.hideTimeout = box.hideTimeout
        /\ (d.searchActive <=> box.searchActive)
    BY DEF IInv, Good, Box, Panel, SearchTimers, HideTimers
  <1>2. CASE box.timers[t] = "Search"
    <2>1. box' = Search(d) /\ UNCHANGED <<document, focus, pointer, unseen>>
      BY <1>2 DEF TimerFires
    <2>2. d.searchActive /\ NoSearchDue(d)
      BY <1>2 DEF IInv, Good, Box, SearchTimers, NoSearchDue
    <2> HIDE DEF d
    <2> QED
      BY <1>1, <2>1, <2>2, SearchGood DEF IInv
  <1>3. CASE box.timers[t] = "CloseSelectionWindow"
    <2>1. box' = CloseSelectionWindow(d)
          /\ focus' = (IF focus = "menu" THEN "page" ELSE focus)
          /\ UNCHANGED <<document, pointer, unseen>>
      BY <1>3 DEF TimerFires
    <2> HIDE DEF d
    <2> QED
      BY <1>1, <2>1, CloseSelectionGood DEF IInv
  <1> QED BY <1>2, <1>3 DEF TimerFires

LEMMA FrameLoadsInv == ASSUME IInv, FrameLoads PROVE IInv'
  BY DEF FrameLoads, IInv, Good, Box, Panel, SearchTimers, HideTimers

LEMMA StepInv == ASSUME Careful, IInv, [Next]_vars PROVE IInv'
  <1>1. CASE User
    BY <1>1, EnterFieldInv, LeaveFieldInv, TypeInv, FieldKeyInv, FieldDownInv,
       FieldShiftDownInv, FieldEscapeInv, PointerOverInv, PointerOutInv,
       ClickItemInv, MenuArrowInv, MenuEnterInv, ClickCloseInv, ResultsEscapeInv
    DEF User
  <1>2. CASE Browser
    BY <1>2, TimerFiresInv, FrameLoadsInv DEF Browser
  <1>3. CASE UNCHANGED vars
    BY <1>3 DEF vars, IInv, Good, Box, Panel, SearchTimers, HideTimers
  <1> QED
    BY <1>1, <1>2, <1>3 DEF Next

\* The invariant says what the runs check.
LEMMA IInvMeans == IInv => TypeOK /\ PanelConsistent /\ NoHideWhileOver
  <1> SUFFICES ASSUME IInv PROVE TypeOK /\ PanelConsistent /\ NoHideWhileOver
    OBVIOUS
  <1>1. TypeOK
    BY DEF IInv, Good, TypeOK
  <1>2. PanelConsistent
    BY DEF IInv, Good, Panel, PanelConsistent
  <1>3. NoHideWhileOver
    BY TimerIdsAssumption
    DEF IInv, Good, HideTimers, NoHideWhileOver, Pending, NoTimer
  <1> QED BY <1>1, <1>2, <1>3

-----------------------------------------------------------------------------
(* Every step keeps the panel answering *)

LEMMA InitAsked == Init => AskedInv
  BY ItemsAssumption, SpacesAssumption DEF Init, AskedInv, Recent, Searched, Items

\* A careful user finds the text in the field searched for.
LEMMA WaitsSearched ==
    ASSUME Careful, Waits, AskedInv
    PROVE  ~unseen /\ Searched(box)
  BY WaitsNoSearchDue DEF Waits, Settled, AskedInv

LEMMA EnterFieldAsked ==
    ASSUME IInv, AskedInv, EnterField PROVE AskedInv'
  <1>1. Good(box) /\ box' = Activate(box, TRUE) /\ unseen' = unseen
    BY DEF IInv, EnterField
  <1>2. box'.searchIndex = box.searchIndex /\ box'.marked = box.marked
        /\ box'.lastSearchValue = box.lastSearchValue /\ box'.timers = box.timers
        /\ box'.resultsShown = box.resultsShown /\ box'.location = box.location
    BY <1>1 DEF Activate, Good, Box
  <1>3. Recent(box')
    BY <1>2 DEF AskedInv, Recent
  <1>4. ASSUME ~unseen', NoSearchDue(box') PROVE Searched(box')
    <2>1. Searched(box)
      BY <1>1, <1>2, <1>4 DEF AskedInv, NoSearchDue
    <2> QED
      BY <1>1, <2>1, OpenRecent DEF AskedInv
  <1> QED
    BY <1>3, <1>4 DEF AskedInv

LEMMA LeaveFieldAsked ==
    ASSUME Careful, IInv, AskedInv, LeaveField PROVE AskedInv'
  BY WaitsSearched, CloseRecent DEF LeaveField, Blurred, AskedInv, IInv

LEMMA TypeAsked ==
    ASSUME IInv, AskedInv, NEW t \in Typed, Type(t) PROVE AskedInv'
  BY DEF Type, AskedInv, Recent, IInv, Good, Box

LEMMA FieldKeyAsked ==
    ASSUME IInv, AskedInv, FieldKey PROVE AskedInv'
  <1>1. Good(KillKeyTimer(box)) /\ Recent(KillKeyTimer(box))
    BY KillGood, KillRecent DEF IInv, AskedInv
  <1> QED
    BY <1>1, NoteRecent DEF FieldKey, TimerLeft, AskedInv

LEMMA FieldDownAsked ==
    ASSUME IInv, AskedInv, FieldDown PROVE AskedInv'
  <1> DEFINE k == KillKeyTimer(box)
             a == Activate(k, FALSE)
  <1>1. Good(k) /\ Recent(k) /\ NoSearchDue(k) /\ k.resultsShown
    BY KillGood, KillRecent DEF FieldDown, IInv, AskedInv
  <1>2. FreeTimers(k) # {}
    BY DEF FieldDown, TimerLeft
  <1>3. Good(a) /\ FreeTimers(a) # {}
    BY <1>1, <1>2, CloseGood, FreeAfterBlur
  <1>4. Recent(a)
    BY <1>1 DEF Activate, Recent, Good, Box, Panel
  <1>5. box' = NoteChange(a)
    BY DEF FieldDown, Blurred
  <1> HIDE DEF a
  <1> QED
    BY <1>3, <1>4, <1>5, NoteRecent DEF FieldDown, AskedInv

LEMMA FieldShiftDownAsked ==
    ASSUME Careful, IInv, AskedInv, FieldShiftDown PROVE AskedInv'
  <1> DEFINE k == KillKeyTimer(box)
             w == OnSearchSelectShow(k)
  <1>1. Good(box) /\ Recent(box) /\ Searched(box)
    BY WaitsSearched DEF FieldShiftDown, IInv, AskedInv
  <1>2. Good(w)
    BY <1>1, KillGood, ShowGood
  <1>3. Recent(w) /\ Searched(w)
    BY <1>1 DEF KillKeyTimer, OnSearchSelectShow, Cleared, Recent, Searched, Good, Box
  <1>4. box' = Activate(w, FALSE)
    BY DEF FieldShiftDown, Blurred
  <1> HIDE DEF w
  <1> QED
    BY <1>2, <1>3, <1>4, CloseRecent DEF AskedInv

LEMMA FieldEscapeAsked ==
    ASSUME IInv, AskedInv, FieldEscape PROVE AskedInv'
  <1> DEFINE k == KillKeyTimer(box)
             a == Activate(k, FALSE)
             d == [HideResults(a) EXCEPT !.lastSearchValue = Empty]
  <1>1. Good(k) /\ Recent(k) /\ NoSearchDue(k)
    BY KillGood, KillRecent DEF IInv, AskedInv
  <1>2. Good(a)
    BY <1>1, CloseGood
  <1>3. Recent(a)
    BY <1>1 DEF Activate, Recent, Good, Box, Panel
  <1>4. box' = Activate(d, FALSE)
    BY DEF FieldEscape, Blurred
  <1> HIDE DEF a
  <1>5. Recent(d) /\ ~d.resultsShown
    BY <1>2, <1>3, ForgetRecent DEF HideResults, Good, Box
  <1>6. d \in Box
    BY <1>2, TextsAssumption DEF HideResults, Good, Box
  <1> HIDE DEF d
  <1> QED
    BY <1>4, <1>5, <1>6 DEF Activate, AskedInv, Recent, Searched, Box

\* What shows or hides the select window has no part in the search.
LEMMA PointerAsked ==
    ASSUME IInv, AskedInv, PointerOver \/ PointerOut PROVE AskedInv'
  <1>1. box'.searchIndex = box.searchIndex /\ box'.marked = box.marked
        /\ box'.lastSearchValue = box.lastSearchValue /\ box'.value = box.value
        /\ box'.resultsShown = box.resultsShown /\ box'.location = box.location
        /\ box'.searchActive = box.searchActive /\ unseen' = unseen
    BY DEF PointerOver, PointerOut, OnSearchSelectShow, OnSearchSelectHide,
           Cleared, IInv, Good, Box
  <1>2. NoSearchDue(box') => NoSearchDue(box)
    <2>1. CASE PointerOver
      BY <2>1, TimerIdsAssumption
      DEF PointerOver, OnSearchSelectShow, Cleared, NoSearchDue, IInv, Good, Box,
          HideTimers, SearchTimers
    <2>2. CASE PointerOut
      <3> DEFINE n == NewTimer(box)
      <3>1. n \in TimerIds /\ box.timers[n] = "none"
        BY <2>2, NewTimerFree DEF PointerOut
      <3>2. box' = [box EXCEPT !.timers[n] = "CloseSelectionWindow", !.hideTimeout = n]
        BY <2>2 DEF PointerOut, OnSearchSelectHide
      <3> HIDE DEF n
      <3> QED
        BY <3>1, <3>2 DEF NoSearchDue, IInv, Good, Box
    <2> QED
      BY <2>1, <2>2
  <1> QED
    BY <1>1, <1>2 DEF AskedInv, Recent, Searched

LEMMA ClickItemAsked ==
    ASSUME Careful, IInv, AskedInv, NEW id \in Items, ClickItem(id) PROVE AskedInv'
  <1> DEFINE d == Blurred(box)
  <1>1. NoSearchDue(box) /\ Searched(box) /\ Good(box) /\ Recent(box)
    BY WaitsNoSearchDue, WaitsSearched DEF ClickItem, IInv, AskedInv
  <1>2. Good(d) /\ Recent(d) /\ Searched(d)
    BY <1>1, CloseGood, CloseRecent DEF Blurred
  <1>3. box' = OnSelectItem(d, id)
    BY DEF ClickItem
  <1> HIDE DEF d
  <1> QED
    BY <1>2, <1>3, SelectRecent DEF AskedInv

LEMMA MenuArrowAsked ==
    ASSUME Careful, IInv, AskedInv, MenuArrow PROVE AskedInv'
  <1>1. Good(box) /\ Recent(box) /\ Searched(box)
    BY WaitsSearched DEF MenuArrow, IInv, AskedInv
  <1>2. PICK id \in Items : box' = OnSelectItem(box, id)
    <2>1. CASE MayGoDown /\ box' = OnSelectItem(box, box.searchIndex + 1)
      BY <2>1 DEF MayGoDown
    <2>2. CASE MayGoUp /\ box' = OnSelectItem(box, box.searchIndex - 1)
      <3>1. box.searchIndex \in Items /\ box.searchIndex > 0
        BY <1>1, <2>2 DEF MayGoUp, Recent
      <3>2. box.searchIndex - 1 \in Items
        BY <3>1, ItemsAssumption DEF Items
      <3> QED BY <2>2, <3>2
    <2> QED BY <2>1, <2>2 DEF MenuArrow
  <1> QED
    BY <1>1, <1>2, SelectRecent DEF AskedInv

LEMMA MenuEnterAsked ==
    ASSUME Careful, IInv, AskedInv, MenuEnter PROVE AskedInv'
  <1> DEFINE d == OnSelectItem(box, box.searchIndex)
             c == CloseSelectionWindow(d)
  <1>1. NoSearchDue(box) /\ Good(box) /\ Recent(box) /\ Searched(box)
    BY WaitsNoSearchDue, WaitsSearched DEF MenuEnter, IInv, AskedInv
  <1>2. box.searchIndex \in Items /\ box.searchIndex \in Items \cup {NoItem}
    BY <1>1 DEF Recent
  <1>3. Good(d) /\ Recent(d) /\ Searched(d)
    BY <1>1, <1>2, SelectGood, SelectRecent
  <1>4. box' = d \/ box' = Activate(c, TRUE)
    BY DEF MenuEnter
  <1> HIDE DEF d
  <1>5. Good(c) /\ Recent(c) /\ Searched(c)
    BY <1>3, CloseSelectionGood
    DEF CloseSelectionWindow, Recent, Searched, Good, Box
  <1> HIDE DEF c
  <1> QED
    BY <1>3, <1>4, <1>5, OpenRecent DEF AskedInv

\* The results are closed and the panel is deactivated.
LEMMA CloseResultsRecent ==
    ASSUME NEW b, Good(b), Recent(b), NoSearchDue(b)
    PROVE  LET c == CloseResultsWindow(b)
           IN  Good(c) /\ Recent(c) /\ Searched(c)
  <1> DEFINE h == HideResults(b)
  <1>1. Good(h) /\ NoSearchDue(h) /\ ~h.resultsShown
    BY HideGood DEF HideResults, Good, Box
  <1>2. /\ h.searchIndex = b.searchIndex /\ h.marked = b.marked
    BY DEF HideResults, Good, Box
  <1>3. CloseResultsWindow(b) = Activate(h, FALSE)
    BY DEF CloseResultsWindow
  <1> HIDE DEF h
  <1>4. Good(Activate(h, FALSE))
    BY <1>1, CloseGood
  <1>5. Recent(Activate(h, FALSE)) /\ Searched(Activate(h, FALSE))
    BY <1>1, <1>2 DEF Activate, Recent, Searched, Good, Box
  <1> QED
    BY <1>3, <1>4, <1>5

LEMMA ClickCloseAsked ==
    ASSUME Careful, IInv, AskedInv, ClickClose PROVE AskedInv'
  <1> DEFINE d == Blurred(box)
  <1>1. NoSearchDue(box) /\ Good(box) /\ Recent(box) /\ Searched(box)
    BY WaitsNoSearchDue, WaitsSearched DEF ClickClose, IInv, AskedInv
  <1>2. Good(d) /\ Recent(d) /\ NoSearchDue(d)
    BY <1>1, CloseGood, CloseRecent DEF Blurred
  <1>3. box' = CloseResultsWindow(d)
    BY DEF ClickClose
  <1> HIDE DEF d
  <1> QED
    BY <1>2, <1>3, CloseResultsRecent DEF AskedInv

LEMMA ResultsEscapeAsked ==
    ASSUME Careful, IInv, AskedInv, ResultsEscape PROVE AskedInv'
  <1> DEFINE c == CloseResultsWindow(box)
  <1>1. NoSearchDue(box) /\ Good(box) /\ Recent(box)
    BY WaitsNoSearchDue DEF ResultsEscape, IInv, AskedInv
  <1>2. Good(c) /\ Recent(c) /\ Searched(c)
    BY <1>1, CloseResultsRecent
  <1>3. box' = Activate(c, TRUE)
    BY DEF ResultsEscape
  <1> HIDE DEF c
  <1> QED
    BY <1>2, <1>3, OpenRecent DEF AskedInv

\* The timer that fires searches for what the field has by then.
LEMMA TimerFiresAsked ==
    ASSUME IInv, AskedInv, NEW t \in TimerIds, TimerFires(t) PROVE AskedInv'
  <1> DEFINE d == [box EXCEPT !.timers[t] = "none"]
  <1>1. Good(d)
    BY DEF IInv, Good, Box, Panel, SearchTimers, HideTimers
  <1>2. /\ d.searchIndex = box.searchIndex /\ d.marked = box.marked
        /\ d.lastSearchValue = box.lastSearchValue /\ d.value = box.value
        /\ d.resultsShown = box.resultsShown /\ d.location = box.location
        /\ d.searchActive = box.searchActive
        /\ \A u \in TimerIds : d.timers[u] = IF u = t THEN "none" ELSE box.timers[u]
    BY DEF IInv, Good, Box
  <1>3. CASE box.timers[t] = "Search"
    <2>1. box' = Search(d)
      BY <1>3 DEF TimerFires
    <2>2. d.searchIndex \in Items /\ d.marked = d.searchIndex
      BY <1>2 DEF AskedInv, Recent
    <2> HIDE DEF d
    <2> QED
      BY <1>1, <2>1, <2>2, SearchRecent DEF AskedInv
  <1>4. CASE box.timers[t] = "CloseSelectionWindow"
    <2>1. box' = CloseSelectionWindow(d) /\ unseen' = unseen
      BY <1>4 DEF TimerFires
    <2>2. NoSearchDue(d) => NoSearchDue(box)
      BY <1>2, <1>4 DEF NoSearchDue
    <2>3. Recent(d) /\ (~unseen /\ NoSearchDue(d) => Searched(d))
      BY <1>2, <2>2 DEF AskedInv, Recent, Searched
    <2> HIDE DEF d
    <2> QED
      BY <1>1, <2>1, <2>3
      DEF CloseSelectionWindow, AskedInv, Recent, Searched, NoSearchDue, Good, Box
  <1> QED BY <1>3, <1>4 DEF TimerFires

LEMMA StepAsked == ASSUME Careful, IInv, AskedInv, [Next]_vars PROVE AskedInv'
  <1>1. CASE User
    BY <1>1, EnterFieldAsked, LeaveFieldAsked, TypeAsked, FieldKeyAsked,
       FieldDownAsked, FieldShiftDownAsked, FieldEscapeAsked, PointerAsked,
       ClickItemAsked, MenuArrowAsked, MenuEnterAsked, ClickCloseAsked,
       ResultsEscapeAsked
    DEF User
  <1>2. CASE \E t \in TimerIds : TimerFires(t)
    BY <1>2, TimerFiresAsked
  <1>3. CASE FrameLoads \/ UNCHANGED vars
    BY <1>3 DEF FrameLoads, vars, AskedInv, Recent, Searched, NoSearchDue
  <1> QED
    BY <1>1, <1>2, <1>3 DEF Next, Browser

\* Then the panel shows what the field asks for.
LEMMA AskedInvMeans == IInv /\ AskedInv => SettledIsAnswered
  <1> SUFFICES ASSUME IInv, AskedInv, Settled PROVE Answered
    BY DEF SettledIsAnswered
  <1> DEFINE asked == {t \in Texts : Squeezed[t] = Squeezed[box.value]}
  <1>1. Recent(box) /\ Searched(box)
    BY DEF AskedInv, Settled, Pending, NoSearchDue
  <1>2. box \in Box /\ Panel(box)
    BY DEF IInv, Good
  <1>3. CASE box.searchActive /\ Squeezed[box.value] # Empty
    <2>1. box.lastSearchValue # Empty
      BY <1>1, <1>3, SpacesAssumption DEF Searched
    <2>2. box.resultsShown /\ box.location = Answer(box.marked, box.lastSearchValue)
      BY <1>1, <2>1 DEF Recent
    <2>3. box.lastSearchValue \in asked
      BY <1>1, <1>2, <1>3 DEF Searched, Box
    <2> QED
      BY <1>3, <2>2, <2>3 DEF Answered
  <1>4. CASE ~(box.searchActive /\ Squeezed[box.value] # Empty)
    <2>1. box.resultsShown => box.location = NoMatches
      BY <1>1, <1>2, <1>4, BlankIsNoMatch DEF Recent, Searched, Panel
    <2> QED
      BY <1>4, <2>1 DEF Answered
  <1> QED BY <1>3, <1>4

-----------------------------------------------------------------------------

\* As long as the user is careful, the invariant holds.
LEMMA Inductive ==
    ASSUME Careful
    PROVE  Spec => [](IInv /\ AskedInv)
  <1>1. Init => IInv /\ AskedInv
    BY InitIInv, InitAsked
  <1>2. IInv /\ AskedInv /\ [Next]_vars => IInv' /\ AskedInv'
    BY StepInv, StepAsked
  <1> QED
    BY <1>1, <1>2, PTL DEF Spec

\* The box, the document, the keyboard and the timers stay what they can be: the
\* filter marked is an item or the one beyond, a timer id is one that the page
\* knows, the results frame has a page of the index (class SearchBox of
\* search.js).
THEOREM PanelIsTyped ==
    ASSUME Careful
    PROVE  Spec => []TypeOK
  BY Inductive, IInvMeans, PTL

\* As long as the user is careful, the close button, the results, the label and
\* the state of the panel agree, whatever the index, the texts and the filters
\* are (Activate, Search and CloseResultsWindow of search.js).
THEOREM PanelIsSafe ==
    ASSUME Careful
    PROVE  Spec => []PanelConsistent
  BY Inductive, IInvMeans, PTL

\* No timer closes the select window under the mouse (OnSearchSelectShow and
\* OnSearchSelectHide of search.js).
THEOREM WindowStaysOpen ==
    ASSUME Careful
    PROVE  Spec => []NoHideWhileOver
  BY Inductive, IInvMeans, PTL

\* When no search is due, the panel shows the results of the marked filter for
\* the text in the field, and none for a blank one: OnSearchFieldChange starts a
\* timer whenever it is needed, and closing, leaving and choosing a filter leave
\* no old answer behind.
THEOREM PanelAnswers ==
    ASSUME Careful
    PROVE  Spec => []SettledIsAnswered
  BY Inductive, AskedInvMeans, PTL
=============================================================================
