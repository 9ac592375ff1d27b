SPECIFICATION Spec
CONSTANTS
    BuildOrder <- OfflineAndGenerator
    AutoResolvable <- OfflineResolves
    Event = {e1, e2, e3, e4}
    Operator = {op}
    Alert = {a1, a2, a3}
    Issue = {i1, i2, i3}
    None = none
    Transition = {"closed"}
    Window = 2
    MaxInFlight = 1
    MaxTime = 1
    MaxFailures = 0
INVARIANTS IssuesFollowAlerts
CHECK_DEADLOCK FALSE
SYMMETRY Symmetry
