SPECIFICATION Spec
CONSTANTS
    international = international
    national = national
    sip = sip
    short = short
    long = long
    Number <- MCNumber
    Prefix <- MCPrefix
    Begins <- MCBegins
    SameLine <- MCSameLine
INVARIANTS
    Exclusive
    AskedIsDone
    BlockingReleasesNobody
PROPERTIES
    AcceptingBlocksNobody
