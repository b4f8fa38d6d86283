SPECIFICATION FairSpec
CONSTANTS
    Apis = {a1}
    Workers = {w1, w2}
    Requests = {r1, r2}
    NoApi = NoApi
    MaxFaults = 2
INVARIANTS TypeOK OneConnection
PROPERTIES LossNeedsCause RefusedForCause ProbesAnswered AcceptedInTheEnd
CHECK_DEADLOCK FALSE
