\* One process that logs in, again after each end, and one that runs `logout` at
\* any moment; two sessions; every fault.  The session time and the margin are the
\* smallest that Tolerable allows with these bounds.
SPECIFICATION FairSpec
CONSTANTS
    p1 = p1
    p2 = p2
    s1 = s1
    s2 = s2
    Proc = {p1, p2}
    LoginProc = {p1}
    Session = {s1, s2}
    NoSession = NoSession
    Bare = Bare
    Ttl = 5
    Grace = 1
    Poll = 1
    Margin = 5
    Delay = 1
    Outage = 1
    Lag = 1
    Faults = {"loss", "file", "device", "update", "kill", "reboot", "restart"}
INVARIANTS
    LinuxTypeOK
    KeptAlive
PROPERTIES
    SessionLetGo
    CtrlCEnds
    OrphanEnds
