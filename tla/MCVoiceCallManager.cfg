SPECIFICATION Spec
CONSTANTS
    p1 = p1
    p2 = p2
    h1 = h1
    h2 = h2
    noCall = noCall
    h3 = h3
    Provider = {p1, p2}
    Handler = {h1, h2}
    NoCall = noCall
    Status <- MCStatus
    WithDeviceLock = TRUE
    MaxDuration = 1
SYMMETRY MCSymmetry
INVARIANTS
    TypeOK
    ActiveIsKnown
    
    CountedOnce
PROPERTIES
    ActiveNeverStolen
