SPECIFICATION FairSpec
CONSTANTS
    Products = {p1, p2, p3}
    Locations = {1, 2, 3}
    Readers = {c1}
    Probe = Probe
    Limit = 1
    PoolSize = 2
    NoRow = NoRow
    Pending = Pending
    Nobody = Nobody
    MaxEdits = 1
    MaxFaults = 1
    MaxChecks = 2
INVARIANTS TypeOK MissesNeedEdits RepeatsNeedEdits
PROPERTIES CheckAnswered WalksEnd
CHECK_DEADLOCK FALSE
