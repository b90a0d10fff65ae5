SPECIFICATION FairSpec
CONSTANTS
    Workers = {w1}
    OperatorKeys = {o1}
    o1 = o1
    Events <- EveryEvent
    Worlds <- DeleteWorld
    MaxTries = 2
    MaxWebhookTries = 1
    None = None
PROPERTIES CommandsSettle
