SPECIFICATION FairSpec
CONSTANTS
    Execution = {e1}
    ChannelOf <- ToGateway
    Dispatch = {d1}
    Message = {m1, m2}
    Agent = {g1}
    Operator = {o1}
    ReportAny = TRUE
    MaxFailures = 1
PROPERTIES ReachesAgent FailedIsTakenUp OutcomeHasEvidence
