CONSTANTS
    NumBufs = 2
    MaxPages = 2
    small = small
    wide = wide
    huge = huge
    Tuples = {small, wide, huge}
    Fits <- ThreeLengths
    NoTuple = notuple
    SlotsPerPage = 2
    Data <- Contents
    EmptyData <- EmptyPage
    NoData = none
    f1 = f1
    f2 = f2
    h1 = h1
    h2 = h2
    Files = {f1, f2}
    Handles = {h1, h2}
    FileOf <- TwoFiles
    NoHandle = null
    Table = h1
    Clients = {c, r1, r2}
    Callers = {c}
    Disciplined = FALSE
    StatCap = 0
SPECIFICATION HeapSpec
SYMMETRY Symmetry
VIEW ReadableState
INVARIANTS ReturnedIsWritten CallsAreClean
PROPERTIES HeapImplemented CallsDoTheirWork GrowsOnlyWhenFull
