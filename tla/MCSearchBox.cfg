CONSTANTS
    Texts <- MCTexts
    Empty = ""
    Label = "Search"
    Typed = {"", " ", "page", "page n", "pagen"}
    Squeezed <- WithoutSpaces
    Trimmed <- WithoutLeading
    SelectItemCount = 7
    HasContent <- MCHasContent
    TimerIds = {1, 2, 3}
    Careful = TRUE
SPECIFICATION Spec
INVARIANTS TypeOK SettledIsAnswered PanelConsistent NoHideWhileOver
PROPERTY RestIsAnswered
