SPECIFICATION Spec
CONSTANTS
    Execution = {e1}
    ChannelOf <- ToGateway
    Dispatch = {d1}
    Message = {m1, m2}
    Agent = {g1}
    Operator = {o1}
    ReportAny = FALSE
    MaxFailures = 0
INVARIANTS OnlyReadyPublished
