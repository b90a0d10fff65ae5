SPECIFICATION Spec
CONSTANTS
    Days = {1}
    Tables <- TwoTables
    Slots <- TwoSlots
    Windows <- ShortAndLong
    Buffers = {0, 1}
    Configurations <- AOrBoth
    ManualChoices <- NoTableOrB
    Holds = {}
    Waits = {}
    Termins <- Visits
    HoldTTL = 1
    OfferTTL = 1
    MaxTime = 0
    Nobody = Nobody
    t1 = t1
    t2 = t2
    A = A
    B = B
INVARIANTS RebuildAlwaysAccepted
CHECK_DEADLOCK FALSE
