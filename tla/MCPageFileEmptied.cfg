CONSTANTS
    MaxPages = 2
    Data = {empty, text}
    EmptyData = empty
    empty = empty
    text = text
    NoData = none
    Holders = {c1, c2}
    KeepOne = FALSE
SPECIFICATION Spec
SYMMETRY HolderSymmetry
INVARIANT UsedListExact
