CONSTANTS
    NumBufs = 2
    MaxPages = 2
    Data = {empty}
    EmptyData = empty
    empty = empty
    NoData = none
    f1 = f1
    f2 = f2
    h1 = h1
    h2 = h2
    Files = {f1}
    Handles = {h1, h2}
    FileOf <- SharedFile
    NoHandle = null
    Clients = {c1, c2}
    Disciplined = FALSE
    StatCap = 0
SPECIFICATION Spec
SYMMETRY ClientSymmetry
INVARIANT PoolConsistent
