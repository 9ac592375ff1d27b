SPECIFICATION Spec
CONSTANTS
    BuildOrder <- Offline
    AutoResolvable <- OfflineResolves
    Event = {e1, e2, e3}
    Operator = {op}
    Alert = {a1, a2, a3}
    Issue = {i1, i2, i3}
    None = none
    Transition = {"investigating", "closed"}
    Window = 1
    MaxInFlight = 2
    MaxTime = 2
    MaxFailures = 1
INVARIANTS TypeOK DuplicateIssuesBounded CountIsZeroOrRight AlertsFollowTelemetry
PROPERTIES SuppressionHonoured
CHECK_DEADLOCK FALSE
SYMMETRY Symmetry
