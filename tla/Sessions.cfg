SPECIFICATION Spec
CONSTANTS
    Stations = {w1}
    Users = {u1, u2}
    Requests = {r1, r2}
    GrantTicks = 1
    IdleTicks = 2
    SessionTicks = 3
    Patience = 2
    BlockTicks = 1
    MaxGrants = 2
    MaxPins = 3
    MaxFailures = 3
    Worlds <- SmallWorlds
INVARIANTS OverridesAreConfirmed
CHECK_DEADLOCK FALSE
