SPECIFICATION Spec
CONSTANTS
    Workers = {w1, w2}
    OperatorKeys = {o1, o2}
    o1 = o1
    Events <- EveryEvent
    Worlds <- SafetyWorlds
    MaxTries = 2
    MaxWebhookTries = 1
    None = None
INVARIANTS TypeOK BooksFollowProvider LateMoneyIsReturned AmbiguityIsKept
PROPERTIES MoneyIsNotForgotten
SYMMETRY WorkerSymmetry
