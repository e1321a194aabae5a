CONSTANTS
    NumBufs = 4
    MaxPages = 5
    fl = fl
    fr = fr
    ft = ft
    hl = hl
    hr = hr
    ht = ht
    l1 = l1
    l2 = l2
    r1 = r1
    r2 = r2
    r3 = r3
    r4 = r4
    j11 = j11
    j13 = j13
    j22 = j22
    j24 = j24
    none = none
    Tuples = {l1, l2, r1, r2, r3, r4, j11, j13, j22, j24}
    NoTuple = none
    SlotsPerPage = 2
    Fits <- AllButOne
    Data <- Contents
    EmptyData <- EmptyPage
    NoData = nodata
    Files = {fl, fr, ft}
    Handles = {hl, hr, ht}
    FileOf <- ThreeFiles
    NoHandle = null
    Table = ht
    LeftTable = hl
    RightTable = hr
    LeftContents <- Lefts
    RightContents <- Rights
    Joined <- MCJoined
    Budgets = {2, 3, 4, 5, 6}
    BlockPins <- MCBlockPins
    ScanPin = "r"
    InsertPin = "t"
    Clients = {"s1", "s2", "s3", "s4", "s5", "r", "t"}
    Callers = {"t"}
    Disciplined = TRUE
    StatCap = 0
SPECIFICATION JoinSpec
INVARIANTS JoinTypeOK JoinIsExact IOsAsComputed FramesSuffice
PROPERTIES JoinComesCloser JoinEnds
CHECK_DEADLOCK FALSE
