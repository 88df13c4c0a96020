SPECIFICATION Spec
CONSTANTS
    m1 = m1
    noCall = noCall
    c1 = c1
    c2 = c2
    h1 = h1
    h2 = h2
    h3 = h3
    Modem = {m1}
    Path = {c1, c2}
    Handler = {h1, h2}
    NoCall = noCall
    MaxDuration = 1
    WithDeviceLock = FALSE
    FilterInstalled = FALSE
    Refetch = FALSE
INVARIANT ReleasedIfNoFilter
