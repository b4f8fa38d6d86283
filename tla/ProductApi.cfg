SPECIFICATION Spec
CONSTANTS
    Products = {p1}
    Locations = {A1}
    MaxQuantity = 2
    Int4Max = 3
    NoRow = NoRow
    NoLocation = NoLocation
    Requests = {r1, r2, r3}
    MaxFailures = 1
SYMMETRY Interchangeable
INVARIANTS
    TypeOK
    AnswerMatchesEffect
    FalseRefusalNeedsRestock
PROPERTY ImplementsContract
