SPECIFICATION Spec
CONSTANTS
    Requests = {r1, r2, r3}
    Keys = {key1}
    NoKey = NoKey
    Payloads = {small, large}
    Replicas = {a, b}
    Redis = Redis
    NoEntry = NoEntry
    NoPick = NoPick
    MaxFaults = 2
    MaxExpiries = 2
SYMMETRY Interchangeable
INVARIANTS
    TypeOK
    OneEventPerClaim
    OnePickIdPerClaim
    AnswerFitsPayload
    AcceptedGetsPublished
