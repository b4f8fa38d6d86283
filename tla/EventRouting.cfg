SPECIFICATION FairSpec
CONSTANTS
    k1 = k1
    k2 = k2
    Picks = {k1, k2}
    Malformed = {k2}
    MaxRetries = 1
    BaseDelay = 3
    MaxDelay = 2
    MaxFaults = 2
INVARIANTS TypeOK WaitBounded AuditedOrDead RepeatsNeedFaults  AmplificationBounded
PROPERTIES Drains
CHECK_DEADLOCK FALSE
