SPECIFICATION Spec
CONSTANTS
    Event <- Events
    Request = {r1, r2, r3}
    Operator = {o1}
    Patch <- Patches
    EnabledAtStart <- Enabled
    None = none
    MaxInFlight = 2
    MaxRestarts = 1
SYMMETRY Symmetry
CHECK_DEADLOCK FALSE
INVARIANTS
    TypeOK
    MapsSummarise
    JudgedByOneReading
    RecommendedIffMatched
    MatchesAndDecisionsKept
