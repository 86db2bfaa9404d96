CONSTANTS
    Server = {s1, s2, s3}
    Command = {x}
    Noop = noop
    Nil = nil
    Capacity = 2
    MaxElections = 2
    MaxLog = 2
    MaxBeats = 1
    MaxStops = 1
SYMMETRY Symmetry
CONSTRAINT OneExtra
SPECIFICATION HSpec
 
PROPERTIES Refines
CHECK_DEADLOCK FALSE
