CONSTANTS
    DataSize = 16
    Records <- SomeRecords
    NoRecord = norecord
    CleanSlots = FALSE
SPECIFICATION PageSpec
INVARIANT SlotsCounted
