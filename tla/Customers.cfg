SPECIFICATION Spec
CONSTANTS
    Slots = {s1, s2}
    Visits = {1, 2, 3}
    Waits = {1}
    Contacts <- Five
    MaxFacts = 3
    MaxMerges = 2
    Worlds <- SmallWorlds
INVARIANTS MergesJoinTheLiving
PROPERTIES WithdrawalsStand
CHECK_DEADLOCK FALSE
