SPECIFICATION Spec
CONSTANTS
    Requests = {r1, r2}
    Keys = {key1}
    NoKey = NoKey
    Payloads = {small, large}
    Replicas = {a, b}
    Redis = Redis
    NoEntry = NoEntry
    NoPick = NoPick
    MaxFaults = 1
    MaxExpiries = 0
SYMMETRY Interchangeable
INVARIANT ReplayIsProcessed
