SPECIFICATION Spec
CONSTANTS
    Slots = {s1, s2}
    Workers <- Staff
    Kitchen <- Cook
    Positions <- Jobs
    Hall <- HallJobs
    Weekend <- WeekendJobs
    KitchenPosition = "kitchen"
    EventPosition = "event"
    Skills <- AllSkills
    Days <- SomeDays
    Hours <- TwoHours
    MinRest = 11
    MaxWeek = 2
    MaxMonth = 3
    MonthLength = 30
    GuestsPerWaiter = 2
    MaxShifts = 3
    MaxOffers = 2
    Worlds <- SmallWorlds
INVARIANTS AdminLearnsOfCompleteDay
PROPERTIES FirstTakerKeeps MovesOnlyFromTaken
CHECK_DEADLOCK FALSE
