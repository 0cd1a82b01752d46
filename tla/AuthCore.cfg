\* No failures and one run of the process: every interleaving of requests,
\* reaper and clock.
SPECIFICATION Spec
CONSTANTS
    k1 = k1
    k2 = k2
    k3 = k3
    s1 = s1
    Key = {k1, k2, k3}
    Static = {s1}
    Addr = {0, 1, 2, 3, 4, 5}
    StaticAddr <- MCStaticAddr
    NoPeer = NoPeer
    NoRow = NoRow
    NoKey = NoKey
    Account = {a1}
    PoolSize = 6
    Excluded = {1}
    BatchLimit = 2
    MaxSessions = 2
    Ttl = 1
    Grace = 1
    Requests = {"login", "logout", "renew"}
    DbMayFail = {}
    WgMayFail = FALSE
    MaxTime = 2
    MaxExits = 0
INVARIANTS
    TypeOK
PROPERTIES
    OrphanOnlyByRestart
    SharingNeedsContention
    OverLimitOnlyByRenewal
