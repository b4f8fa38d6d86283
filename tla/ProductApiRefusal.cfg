SPECIFICATION Spec
CONSTANTS
    Products = {p1}
    Locations = {A1}
    MaxQuantity = 2
    Int4Max = 3
    NoRow = NoRow
    NoLocation = NoLocation
    Requests = {r1, r2}
    MaxFailures = 0
SYMMETRY Interchangeable
INVARIANT RefusalMessageIsTrue
