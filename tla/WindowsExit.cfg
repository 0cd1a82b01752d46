\* Nothing fails on the client's side.
SPECIFICATION Spec
CONSTANTS
    t1 = t1
    t2 = t2
    Token = {t1, t2}
    NoToken = NoToken
    Faults = {}
    MaxFrames = 1
INVARIANTS
    ExitDisconnects
