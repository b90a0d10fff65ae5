SPECIFICATION Spec
CONSTANTS
    Tables <- TwoTables
    SessionLimit = 2
    MaxKeys = 4
    MaxVisits = 2
    MaxTokens = 4
    Worlds <- SmallWorlds
INVARIANTS OneVisitPerSubmission RepetitionSucceeds ErasedHasNoWayBack
PROPERTIES ChangeSpendsToken
