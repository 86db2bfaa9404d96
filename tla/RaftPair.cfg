CONSTANTS
    Server = {s1, s2}
    Command = {x}
    Noop = noop
    Nil = nil
    Capacity = 2
    MaxElections = 2
    MaxLog = 2
    MaxBeats = 1
    MaxStops = 1
SPECIFICATION FairSpec
INVARIANTS ElectionSafety  
PROPERTIES LogRepair LeaderCommits
CHECK_DEADLOCK FALSE
