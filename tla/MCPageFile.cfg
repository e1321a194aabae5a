CONSTANTS
    MaxPages = 4
    Data = {empty, text}
    EmptyData = empty
    empty = empty
    text = text
    NoData = none
    Holders = {c1, c2}
    KeepOne = TRUE
SPECIFICATION Spec
INVARIANTS TypeOK UsedListExact FreeListExact
PROPERTY StoreImplemented
SYMMETRY HolderSymmetry
