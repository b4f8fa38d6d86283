SPECIFICATION FairSpec
CONSTANTS
    old = old
    Replicas = {old, new1, new2}
    NumFiles = 2
    Shipped <- Rolling
    MaxFaults = 2
INVARIANTS
    TypeOK
    AppliedOnce
    ServesMigrated
    LosesOnce
PROPERTY AllServe
