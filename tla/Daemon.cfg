SPECIFICATION FairSpec
CONSTANTS
    W = 5
    MaxPool = 8
    BadCidr = BadCidr
    Unset = Unset
    NotNumber = NotNumber
    text = text
    NoPub = NoPub
    BadAddr = BadAddr
    NoPool = NoPool
    StaticFaults = {"memory", "device", "command"}
    ConfigLines <- MCConfigLines
    StaticLines <- MCStaticLines
    DefaultPool <- MCDefaultPool
    StartFaults = {"config", "db", "pool", "static", "tls", "listen", "reaper"}
    MaxInputs = 4
    RequestInputs = 3
    MaxBody = 2
    MaxAnswer = 1
    Sizes = {0, 2, 3}
    Answers = {1, 2}
    NetFaults = {"memory", "net", "read", "handle"}
INVARIANTS
    DaemonTypeOK
    ConfigMatchesFile
    ConfigSane
    PoolExact
    SpoiltNotApplied
    AppliedWhole
    LeakOnlyByBadAddress
    HeldWhileServing
    NothingKept
    ShutdownReleases
    BodyInOrder
    AcceptedIsTrue
PROPERTIES
    RequestEnds
CHECK_DEADLOCK FALSE
