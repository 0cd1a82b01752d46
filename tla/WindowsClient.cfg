\* Two sessions, two clicks inside one another, everything can fail.
SPECIFICATION FairSpec
CONSTANTS
    t1 = t1
    t2 = t2
    Token = {t1, t2}
    NoToken = NoToken
    Faults = {"net", "conf", "install", "uninstall", "kill"}
    MaxFrames = 2
INVARIANTS
    WinTypeOK
    RunningIsWhole
PROPERTIES
    TokenNotShared
    TokenLetGo
    ButtonFollows
    CallsReturn
