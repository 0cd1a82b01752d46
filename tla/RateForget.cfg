\* The constants of RateLimiter.
SPECIFICATION Spec
CONSTANTS
    a = a
    b = b
    c = c
    Ip = {a, b, c}
    NoIp = NoIp
    Slots = 4
    Probes = 2
    Hash <- MCHash
    MaxFails = 2
    Window = 1
    MaxTime = 4
INVARIANTS
    FailuresBounded
