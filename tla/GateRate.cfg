SPECIFICATION Spec
CONSTANTS
    Agent = {a1}
    Kind = {k1}
    Request = {r1, r2, r3}
    Halt = {}
    Nil = Nil
    Registered = {a1}
    MaxActions = 2
    Window = 2
    BreakSecs = 1
    HaltSecs = 2
    TTL = 2
    MaxEntries = 2
    Remote = FALSE
    MaxTime = 0
SYMMETRY AllSymmetry
INVARIANT AllowedWithinLimit
CHECK_DEADLOCK FALSE
