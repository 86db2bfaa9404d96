CONSTANTS
    Server = {s1, s2}
    Command = {x}
    Noop = noop
    Nil = nil
    MaxTerm = 2
    MaxLog = 2
    MaxCrashes = 1
    DiskFaults = FALSE
SYMMETRY Symmetry
CONSTRAINT ShortAfterCrash
SPECIFICATION Spec
INVARIANTS TypeOK LogsOrdered LeaderReady Durable
PROPERTIES LeaderAppendOnly TermMonotone
CHECK_DEADLOCK FALSE
