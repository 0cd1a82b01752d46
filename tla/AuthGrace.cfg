\* A grace period, as authd.conf.example sets one.
SPECIFICATION Spec
CONSTANTS
    k1 = k1
    k2 = k2
    k3 = k3
    s1 = s1
    Key = {k1, k2, k3}
    Static = {s1}
    Addr = {0, 1, 2, 3, 4}
    StaticAddr <- MCStaticAddr
    NoPeer = NoPeer
    NoRow = NoRow
    NoKey = NoKey
    Account = {a1}
    PoolSize = 5
    Excluded = {1}
    BatchLimit = 3
    MaxSessions = 3
    Ttl = 1
    Grace = 1
    Requests = {"login", "renew"}
    DbMayFail = {}
    WgMayFail = FALSE
    MaxTime = 2
    MaxExits = 0
PROPERTIES
    GraceHonoured
