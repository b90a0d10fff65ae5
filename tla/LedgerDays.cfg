SPECIFICATION FairSpec
CONSTANTS
    Days = {1, 2}
    Tables <- TwoTables
    Slots = {1}
    Windows <- OneSlot
    Buffers = {0}
    Configurations <- AOrBoth
    ManualChoices <- NoTableOrB
    Holds = {h1}
    Waits = {w1}
    Termins <- OneVisit
    HoldTTL = 1
    OfferTTL = 1
    MaxTime = 2
    Nobody = Nobody
    t1 = t1
    t2 = t2
    A = A
    B = B
INVARIANTS FreeMeansInsertable
PROPERTIES PromiseBecomesVisit ExpiredIsReleased EndedIsFinal PromisesKept
CHECK_DEADLOCK FALSE
