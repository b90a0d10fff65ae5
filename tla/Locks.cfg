SPECIFICATION FairSpec
CONSTANTS
    p1 = p1
    p2 = p2
    p3 = p3
    Txs <- Sessions
    Days <- TwoDays
    Tables <- TwoTables
    Reservations <- TwoRows
    Guests <- Keys
    SessionLimit = 1
    IpLimit = 1
    MaxAttempts = 2
    Worlds <- SmallWorlds
    Nobody = Nobody
INVARIANTS LimitsHold ErasedHasNoMessages CirclesPassConfiguration
PROPERTIES WritesHoldTheDay EveryTransactionEnds
