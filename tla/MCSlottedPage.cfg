CONSTANTS
    DataSize = 16
    Records <- SomeRecords
    NoRecord = norecord
    CleanSlots = TRUE
SPECIFICATION PageSpec
INVARIANT SpaceExact
PROPERTY PageImplemented
