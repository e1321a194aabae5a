CONSTANTS
    NumBufs = 2
    MaxPages = 3
    Data = {empty, text}
    EmptyData = empty
    empty = empty
    text = text
    NoData = none
    f1 = f1
    f2 = f2
    h1 = h1
    h2 = h2
    Files = {f1}
    Handles = {h1}
    FileOf <- OneFile
    NoHandle = null
    Clients = {c1, c2}
    Disciplined = TRUE
    StatCap = 0
SPECIFICATION Spec
SYMMETRY ClientSymmetry
VIEW ReadablePool
INVARIANTS TypeOK PinsCounted PinnedPageStays CleanMatchesDisk
PROPERTY StoreImplemented
