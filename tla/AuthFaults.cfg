\* Every statement and every netlink call may fail, and the process may end
\* once, at any point, with or without the machine.
SPECIFICATION Spec
CONSTANTS
    k1 = k1
    k2 = k2
    k3 = k3
    s1 = s1
    Key = {k1, k2}
    Static = {s1}
    Addr = {0, 1, 2, 3, 4}
    StaticAddr <- MCStaticAddr
    NoPeer = NoPeer
    NoRow = NoRow
    NoKey = NoKey
    Account = {a1}
    PoolSize = 5
    Excluded = {1, 2}
    BatchLimit = 2
    MaxSessions = 2
    Ttl = 1
    Grace = 0
    Requests = {"login", "logout", "renew"}
    DbMayFail = {"count", "insert", "revoke", "update", "select", "revoke_all"}
    WgMayFail = TRUE
    MaxTime = 2
    MaxExits = 1
SYMMETRY KeySymmetry
INVARIANTS
    NoLeakedAddress
PROPERTIES
    StaticRouteKept
    UnauditedOnlyByRestart
    SessionsServed
