SPECIFICATION Spec
CONSTANTS
    Days = {1}
    Tables <- TwoTables
    Slots <- TwoSlots
    Windows <- ShortVisits
    Buffers = {0, 1}
    Configurations <- AOrBoth
    ManualChoices <- NoTableOrB
    Holds = {h1}
    Waits = {}
    Termins <- Visits
    HoldTTL = 1
    OfferTTL = 1
    MaxTime = 0
    Nobody = Nobody
    t1 = t1
    t2 = t2
    A = A
    B = B
INVARIANTS NoDoubleBooking ClaimsMatchOwners
PROPERTIES LiveTableNotResold RebuildOnlyMovesBuffers ImplementsInventory
CHECK_DEADLOCK FALSE
SYMMETRY VisitSymmetry
