SPECIFICATION HaltSpec
CONSTANTS
    Agent = {a1, a2}
    Kind = {k1}
    Request = {r1, r2}
    Halt = {h1}
    Nil = Nil
    Registered = {a1, a2}
    MaxActions = 1
    Window = 2
    BreakSecs = 1
    HaltSecs = 2
    TTL = 2
    MaxEntries = 2
    Remote = TRUE
    MaxTime = 1
PROPERTIES   NoAllowWhileTripped
CHECK_DEADLOCK FALSE
