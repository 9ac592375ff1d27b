SPECIFICATION Spec
CONSTANTS
    Tenant = {t1, t2}
    Branch = {b1, b2}
    Site = {s1, s2}
    Asset = {a1, a2}
    Device = {d1, d2}
    Binding = {x1, x2}
    None = none
    Payload <- Payloads
    CallerTime = {0}
    MaxTime = 1
INVARIANTS TypeOK HierarchyConsistent BindingExclusive PeriodsDisjoint
PROPERTIES HistoryKept
SYMMETRY Symmetry
