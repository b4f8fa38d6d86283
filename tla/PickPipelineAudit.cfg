SPECIFICATION Spec
CONSTANTS
    p1 = p1
    k1 = k1
    k2 = k2
    bad = bad
    Products = {p1}
    Locations = {A1}
    MaxQuantity = 2
    Int4Max = 2
    NoRow = NoRow
    NoLocation = NoLocation
    Picks = {k1, k2}
    Order <- Competing
    Malformed = {}
    Workers = {w1, w2}
    MaxRetries = 1
    NoMessage = NoMessage
    MaxFaults = 1
    MaxEdits = 0
INVARIANT CreatedAuditedOnce
