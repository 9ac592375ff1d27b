SPECIFICATION Spec
CONSTANTS
    Execution = {e1}
    Action = {a1}
    Approver = {p1, p2}
    Worker = {w1, w2}
    MinValues = {0, 1, 2}
    ActionOf <- OneAction
    Gated = {a1}
    CanFail = TRUE
SYMMETRY Symmetry
INVARIANTS TypeOK ReleasedHasQuorum OutcomeMatchesStatus
PROPERTIES ImplementsGate
