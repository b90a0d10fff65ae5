SPECIFICATION FairSpec
CONSTANTS
    mail = mail
    sms = sms
    w1 = w1
    w2 = w2
    Workers <- BothWorkers
    Contacts <- Addresses
    Idempotent <- Gateway
    Worlds <- SmallWorlds
    MaxNow = 2
    MaxHours = 1
    MaxRows = 3
    Nobody = Nobody
INVARIANTS TypeOK NoSilentDuplicate OfferIsFenced RemindedOnce
PROPERTIES WithdrawnIsNotBegun ErasureWaitsForDelivery EveryMessageSettles
