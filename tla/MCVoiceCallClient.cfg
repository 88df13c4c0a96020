SPECIFICATION ClientSpec
CONSTANTS
    p1 = p1
    h1 = h1
    h2 = h2
    noCall = noCall
    Provider = {p1}
    Handler = {h1, h2}
    NoCall = noCall
    Status <- MCStatus
    WithDeviceLock = TRUE
    MaxDuration = 0
    MaxLag = 1
SYMMETRY MCSymmetry
CONSTRAINTS
    NoEmergency
    NoFilters
    NotRejected
INVARIANTS
    ModelFollows
    ActiveFollows
    ProvidersFollow
    MirrorFollows
