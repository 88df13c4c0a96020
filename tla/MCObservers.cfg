SPECIFICATION ObserversSpec
CONSTANTS
    p1 = p1
    h1 = h1
    h2 = h2
    noCall = noCall
    Provider = {p1}
    Handler = {h1, h2}
    NoCall = noCall
    Status <- MCStatus
    WithDeviceLock = FALSE
    MaxDuration = 0
    WithFilterPlugin = TRUE
    MaxAnnounced = 2
SYMMETRY MCSymmetry
INVARIANTS
    RingsForIncoming
    CountReturnsToZero
    DisplayIsCurrent
    ActivePathIsActive

    
