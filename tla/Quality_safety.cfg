SPECIFICATION Spec
CONSTANTS
    Device = {"d1"}
    Message <- Messages
    Request = {r1, r2, r3, r4}
    None = None
    MaxRestarts = 1
SYMMETRY Symmetry
CHECK_DEADLOCK FALSE
INVARIANTS TypeOK CounterDropsNoticed
PROPERTIES ReevaluationOnlyForgets
