CONSTANTS
    Searches <- MCSearches
    Keys = {"Up", "Down", "Left", "Right", "Enter", "Escape", "Other"}
    MaxHeld = 1
SPECIFICATION Spec
INVARIANTS MatchesFollowOneAnother 
PROPERTIES ArrowsFollowDisplay HeldKeyRepeats OpensOwnRow
