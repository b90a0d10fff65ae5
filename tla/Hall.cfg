SPECIFICATION Spec
CONSTANTS
    e1 = e1
    e2 = e2
    Midnight <- Day
    DefaultTurn = 2
    Editors <- Clients
    MaxParties = 2
    MaxVersions = 3
    MaxRevision = 1
    MaxTables = 3
    MaxRooms = 2
    Worlds <- SmallWorlds
SYMMETRY Sym
INVARIANTS OffersAreHonoured LimitsHeld
CHECK_DEADLOCK FALSE
