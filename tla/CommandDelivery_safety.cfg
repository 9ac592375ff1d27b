SPECIFICATION Spec
CONSTANTS
    Execution = {e1}
    ChannelOf <- ToSimulator
    Dispatch = {d1}
    Message = {m1, m2, m3}
    Agent = {g1}
    Operator = {o1, o2}
    ReportAny = TRUE
    MaxFailures = 0
SYMMETRY Symmetry
INVARIANTS TypeOK CopiesBounded
PROPERTIES OutcomeHasEvidence
