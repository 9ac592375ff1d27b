SPECIFICATION FairSpec
CONSTANTS
    Agent = {g1}
    Policy <- OfflineAndRetries
    Overview <- OfflineOnly
    DefaultLimit <- Ones
    Limit = {2}
    ListLimit = 1
    Request = {r1}
    Execution = {}
    StaleAfter = 0
    OfflineAfter = 1
    Never = never
    MaxCount = 1
    MaxChanges = 1
    MaxRestarts = 0
PROPERTIES PoliciesTrigger
