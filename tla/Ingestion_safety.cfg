SPECIFICATION Spec
CONSTANTS
    Message <- Messages
    Decodable <- Readable
    Request = {r1, r2, r3}
    None = none
    MaxInFlight = 2
    MaxRestarts = 1
SYMMETRY Symmetry
INVARIANTS TypeOK ClaimedIsStored ReadingsCountOnce RollupsNested SamplesHaveEvents
           ShownIsStored
PROPERTIES FindingsAreComplete
CHECK_DEADLOCK FALSE
