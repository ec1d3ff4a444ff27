CONSTANTS
    Totals = {1, 4, 7}
    RowSize = 2
    Requests = {r1, r2}
    None = None
    MaxFaults = 1
SPECIFICATION Spec
SYMMETRY Symmetry
INVARIANTS
    CatalogTypeOK
    PlanIsComplete
    CounterFromTheStart
    ChargedInForce
CHECK_DEADLOCK FALSE
