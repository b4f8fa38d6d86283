SPECIFICATION Spec
CONSTANTS
    p1 = p1
    k1 = k1
    k2 = k2
    bad = bad
    Products = {p1}
    Locations = {A1}
    MaxQuantity = 1
    Int4Max = 2
    NoRow = NoRow
    NoLocation = NoLocation
    Picks = {k1, k2, bad}
    Order <- Competing
    Malformed = {bad}
    Workers = {w1, w2}
    MaxRetries = 1
    NoMessage = NoMessage
    MaxFaults = 2
    MaxEdits = 1
SYMMETRY Alike
INVARIANTS TypeOK NoPickLost CompletedWasTaken RepeatsNeedFaults DeadAfterAllRetries
PROPERTIES ImplementsContract
