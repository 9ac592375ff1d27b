SPECIFICATION FairSpec
CONSTANTS
    Agent = {g1}
    Policy <- OfflineAndDeadLetters
    Overview <- OfflineThenDeadLetters
    DefaultLimit <- Ones
    Limit = {2}
    ListLimit = 1
    Request = {r1, r2}
    Execution = {x1}
    StaleAfter = 0
    OfflineAfter = 1
    Never = never
    MaxCount = 2
    MaxChanges = 2
    MaxRestarts = 1
INVARIANTS TypeOK DuplicatesBounded RunbooksAccounted
PROPERTIES AlertsSettle
