SPECIFICATION Spec
CONSTANTS
    Agent = {a1}
    Kind = {k1}
    Request = {r1, r2, r3}
    Halt = {h1}
    Nil = Nil
    Registered = {a1}
    MaxActions = 1
    Window = 2
    BreakSecs = 1
    HaltSecs = 2
    TTL = 2
    MaxEntries = 2
    Remote = FALSE
    MaxTime = 3
SYMMETRY AllSymmetry
INVARIANT CacheClean
INVARIANT CountedWithinLimit
PROPERTY HaltSticks
CHECK_DEADLOCK FALSE
