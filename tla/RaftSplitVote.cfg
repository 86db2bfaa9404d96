CONSTANTS
    Server = {s1, s2, s3}
    Command = {x}
    Noop = noop
    Nil = nil
    Capacity = 3
    MaxElections = 2
    MaxLog = 1
    MaxBeats = 0
    MaxStops = 0
SYMMETRY Symmetry
SPECIFICATION Spec
INVARIANTS ElectionSafety
CHECK_DEADLOCK FALSE
