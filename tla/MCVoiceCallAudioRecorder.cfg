SPECIFICATION Spec
CONSTANTS
    r1 = r1
    r2 = r2
    r3 = r3
    r4 = r4
    noRecording = noRecording
    Recording = {r1, r2, r3, r4}
    NoRecording = noRecording
    WaveHeaderLength = 44
    Width = 64
    MaxDepth = 4
SYMMETRY MCSymmetry
INVARIANTS
    
    RouteIsGivenBack
PROPERTIES
    EveryFileIsJudged
CHECK_DEADLOCK FALSE
